---------------------------- MODULE DeviceTable ----------------------------
(***************************************************************************)
(* scripts/gen_device_table.py, the table it writes                        *)
(* (updi/updi_device_table.h) and the lookup in it (updi/updi_device.c).   *)
(***************************************************************************)
EXTENDS DevicePacks, Sequences, SequencesExt

CONSTANT Published      \* the device packs found in DEV_DIR, by name

NULL == [name |-> "NULL"]

PARTS ==
    <<"avr64ea28", "avr64ea32", "avr64ea48", "attiny412", "attiny416",
      "attiny814", "attiny816", "attiny1614", "attiny1616", "attiny3216",
      "attiny3226", "attiny827", "attiny1627", "atmega808", "atmega809",
      "atmega1608", "atmega1609", "atmega3208", "atmega3209", "atmega4808",
      "atmega4809">>

load_device_info(name) ==
    IF name \in Published THEN CHOOSE p \in Packs : p.name = name ELSE NULL

\* One initialiser of the table, in the order of the struct UpdiDevice; the
\* user row and the revision are in it too, but nothing reads them.
row(info) ==
    [device_id |-> info.device_id, name |-> info.name,
     flash_address |-> info.flash.address, flash_size |-> info.flash.size,
     flash_page_size |-> info.flash.page_size,
     eeprom_address |-> info.eeprom.address, eeprom_size |-> info.eeprom.size,
     eeprom_page_size |-> info.eeprom.page_size,
     fuses_address |-> info.fuses.address, fuses_size |-> info.fuses.size,
     sigrow_address |-> info.signatures.address,
     nvmctrl_base |-> info.nvmctrl_base,
     address_bytes |-> IF info.address_size = "24-bit" THEN 3 ELSE 2,
     nvm_variant |-> IF info.address_size = "24-bit" THEN "P3" ELSE "P0"]

\* main: parts without a pack are skipped.
main ==
    LET infos == [i \in DOMAIN PARTS |-> load_device_info(PARTS[i])]
        found == SelectSeq(infos, LAMBDA info : info # NULL)
    IN  [i \in DOMAIN found |-> row(found[i])]

updi_device_table == main

-----------------------------------------------------------------------------
(* updi_device.c                                                           *)

updi_device_id_from_sig(sig) == sig[1] * \h10000 + sig[2] * \h100 + sig[3]

find_by_family(table, id) ==    \* a bug: the last byte is not compared
    SelectInSeq(table, LAMBDA d : d.device_id \div \h100 = id \div \h100)

first_with_id(table, id) == SelectInSeq(table, LAMBDA d : d.device_id = id)

updi_device_find_by_id(id) ==
    LET i == first_with_id(updi_device_table, id)
    IN  IF i = 0 THEN NULL ELSE updi_device_table[i]
=============================================================================
