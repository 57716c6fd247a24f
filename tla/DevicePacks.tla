----------------------------- MODULE DevicePacks -----------------------------
(***************************************************************************)
(* The device packs of the pymcuprog reference                             *)
(* (reference/pymcuprog/deviceinfo/devices/*.py), one definition each.     *)
(* Both programmers take every address and size they use from them: the    *)
(* reference directly, the application through the table that              *)
(* scripts/gen_device_table.py writes (module DeviceTable).                *)
(* Kept are the memories somebody reads or writes; clocks, the debugger's  *)
(* and the high-voltage entries are left out.                              *)
(***************************************************************************)
EXTENDS Naturals

\* <memory>_address_byte, _size_bytes, _page_size_bytes and _write_size_bytes.
Mem(address, size, page_size, write_size) ==
    [address |-> address, size |-> size, page_size |-> page_size,
     write_size |-> write_size]

\* DEVICE_INFO.  The three bases are the same in every pack.
Pack(name, device_id, address_size, flash, eeprom, user_row, fuses, lockbits, sram) ==
    [name |-> name, device_id |-> device_id, address_size |-> address_size,
     flash |-> flash, eeprom |-> eeprom, user_row |-> user_row,
     fuses |-> fuses, lockbits |-> lockbits, internal_sram |-> sram,
     signatures |-> Mem(\h1100, \h40, 1, 0),
     nvmctrl_base |-> \h1000, syscfg_base |-> \hF00]

-----------------------------------------------------------------------------
avr64ea28 ==
    Pack("avr64ea28", \h1E9620, "24-bit",
         Mem(\h800000, \h10000, \h80, \h80), Mem(\h1400, \h200, 8, 1),
         Mem(\h1080, \h40, \h40, \h40), Mem(\h1050, 9, 1, 1),
         Mem(\h1040, 4, 1, 1), Mem(\h6800, \h1800, 1, 1))

avr64ea32 ==
    Pack("avr64ea32", \h1E961F, "24-bit",
         Mem(\h800000, \h10000, \h80, \h80), Mem(\h1400, \h200, 8, 1),
         Mem(\h1080, \h40, \h40, \h40), Mem(\h1050, 9, 1, 1),
         Mem(\h1040, 4, 1, 1), Mem(\h6800, \h1800, 1, 1))

avr64ea48 ==
    Pack("avr64ea48", \h1E961E, "24-bit",
         Mem(\h800000, \h10000, \h80, \h80), Mem(\h1400, \h200, 8, 1),
         Mem(\h1080, \h40, \h40, \h40), Mem(\h1050, 9, 1, 1),
         Mem(\h1040, 4, 1, 1), Mem(\h6800, \h1800, 1, 1))

attiny412 ==
    Pack("attiny412", \h1E9223, "16-bit",
         Mem(\h8000, \h1000, \h40, \h40), Mem(\h1400, \h80, \h20, 1),
         Mem(\h1300, \h20, 1, 1), Mem(\h1280, 9, 1, 1),
         Mem(\h128A, 1, 1, 1), Mem(\h3F00, \h100, 1, 1))

attiny416 ==
    Pack("attiny416", \h1E9221, "16-bit",
         Mem(\h8000, \h1000, \h40, \h40), Mem(\h1400, \h80, \h20, 1),
         Mem(\h1300, \h20, 1, 1), Mem(\h1280, 9, 1, 1),
         Mem(\h128A, 1, 1, 1), Mem(\h3F00, \h100, 1, 1))

attiny814 ==
    Pack("attiny814", \h1E9322, "16-bit",
         Mem(\h8000, \h2000, \h40, \h40), Mem(\h1400, \h80, \h20, 1),
         Mem(\h1300, \h20, 1, 1), Mem(\h1280, 9, 1, 1),
         Mem(\h128A, 1, 1, 1), Mem(\h3E00, \h200, 1, 1))

attiny816 ==
    Pack("attiny816", \h1E9321, "16-bit",
         Mem(\h8000, \h2000, \h40, \h40), Mem(\h1400, \h80, \h20, 1),
         Mem(\h1300, \h20, 1, 1), Mem(\h1280, 9, 1, 1),
         Mem(\h128A, 1, 1, 1), Mem(\h3E00, \h200, 1, 1))

attiny1614 ==
    Pack("attiny1614", \h1E9422, "16-bit",
         Mem(\h8000, \h4000, \h40, \h40), Mem(\h1400, \h100, \h20, 1),
         Mem(\h1300, \h20, 1, 1), Mem(\h1280, 9, 1, 1),
         Mem(\h128A, 1, 1, 1), Mem(\h3800, \h800, 1, 1))

attiny1616 ==
    Pack("attiny1616", \h1E9421, "16-bit",
         Mem(\h8000, \h4000, \h40, \h40), Mem(\h1400, \h100, \h20, 1),
         Mem(\h1300, \h20, 1, 1), Mem(\h1280, 9, 1, 1),
         Mem(\h128A, 1, 1, 1), Mem(\h3800, \h800, 1, 1))

attiny3216 ==
    Pack("attiny3216", \h1E9521, "16-bit",
         Mem(\h8000, \h8000, \h80, \h80), Mem(\h1400, \h100, \h40, 1),
         Mem(\h1300, \h20, 1, 1), Mem(\h1280, 9, 1, 1),
         Mem(\h128A, 1, 1, 1), Mem(\h3800, \h800, 1, 1))

attiny3226 ==
    Pack("attiny3226", \h1E9527, "16-bit",
         Mem(\h8000, \h8000, \h80, \h80), Mem(\h1400, \h100, \h40, 1),
         Mem(\h1300, \h20, 1, 1), Mem(\h1280, 9, 1, 1),
         Mem(\h128A, 1, 1, 1), Mem(\h3400, \hC00, 1, 1))

attiny827 ==
    Pack("attiny827", \h1E9327, "16-bit",
         Mem(\h8000, \h2000, \h40, \h40), Mem(\h1400, \h80, \h20, 1),
         Mem(\h1300, \h20, 1, 1), Mem(\h1280, 9, 1, 1),
         Mem(\h128A, 1, 1, 1), Mem(\h3C00, \h400, 1, 1))

attiny1627 ==
    Pack("attiny1627", \h1E9428, "16-bit",
         Mem(\h8000, \h4000, \h40, \h40), Mem(\h1400, \h100, \h20, 1),
         Mem(\h1300, \h20, 1, 1), Mem(\h1280, 9, 1, 1),
         Mem(\h128A, 1, 1, 1), Mem(\h3800, \h800, 1, 1))

atmega808 ==
    Pack("atmega808", \h1E9326, "16-bit",
         Mem(\h4000, \h2000, \h40, \h40), Mem(\h1400, \h100, \h20, 1),
         Mem(\h1300, \h20, 1, 1), Mem(\h1280, 9, 1, 1),
         Mem(\h128A, 1, 1, 1), Mem(\h3C00, \h400, 1, 1))

atmega809 ==
    Pack("atmega809", \h1E932A, "16-bit",
         Mem(\h4000, \h2000, \h40, \h40), Mem(\h1400, \h100, \h20, 1),
         Mem(\h1300, \h20, 1, 1), Mem(\h1280, 9, 1, 1),
         Mem(\h128A, 1, 1, 1), Mem(\h3C00, \h400, 1, 1))

atmega1608 ==
    Pack("atmega1608", \h1E9427, "16-bit",
         Mem(\h4000, \h4000, \h40, \h40), Mem(\h1400, \h100, \h20, 1),
         Mem(\h1300, \h20, 1, 1), Mem(\h1280, 9, 1, 1),
         Mem(\h128A, 1, 1, 1), Mem(\h3800, \h800, 1, 1))

atmega1609 ==
    Pack("atmega1609", \h1E9426, "16-bit",
         Mem(\h4000, \h4000, \h40, \h40), Mem(\h1400, \h100, \h20, 1),
         Mem(\h1300, \h20, 1, 1), Mem(\h1280, 9, 1, 1),
         Mem(\h128A, 1, 1, 1), Mem(\h3800, \h800, 1, 1))

atmega3208 ==
    Pack("atmega3208", \h1E9530, "16-bit",
         Mem(\h4000, \h8000, \h80, \h80), Mem(\h1400, \h100, \h40, 1),
         Mem(\h1300, \h40, 1, 1), Mem(\h1280, 9, 1, 1),
         Mem(\h128A, 1, 1, 1), Mem(\h3000, \h1000, 1, 1))

atmega3209 ==
    Pack("atmega3209", \h1E9531, "16-bit",
         Mem(\h4000, \h8000, \h80, \h80), Mem(\h1400, \h100, \h40, 1),
         Mem(\h1300, \h40, 1, 1), Mem(\h1280, 9, 1, 1),
         Mem(\h128A, 1, 1, 1), Mem(\h3000, \h1000, 1, 1))

atmega4808 ==
    Pack("atmega4808", \h1E9650, "16-bit",
         Mem(\h4000, \hC000, \h80, \h80), Mem(\h1400, \h100, \h40, 1),
         Mem(\h1300, \h40, 1, 1), Mem(\h1280, 9, 1, 1),
         Mem(\h128A, 1, 1, 1), Mem(\h2800, \h1800, 1, 1))

atmega4809 ==
    Pack("atmega4809", \h1E9651, "16-bit",
         Mem(\h4000, \hC000, \h80, \h80), Mem(\h1400, \h100, \h40, 1),
         Mem(\h1300, \h40, 1, 1), Mem(\h1280, 9, 1, 1),
         Mem(\h128A, 1, 1, 1), Mem(\h2800, \h1800, 1, 1))
-----------------------------------------------------------------------------

Packs ==
    {avr64ea28, avr64ea32, avr64ea48, attiny412, attiny416, attiny814,
     attiny816, attiny1614, attiny1616, attiny3216, attiny3226, attiny827,
     attiny1627, atmega808, atmega809, atmega1608, atmega1609, atmega3208,
     atmega3209, atmega4808, atmega4809}
=============================================================================
