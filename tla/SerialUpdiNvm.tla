---------------------------- MODULE SerialUpdiNvm ----------------------------
(***************************************************************************)
(* The NVM drivers nvm.py, nvmp0.py ... nvmp5.py.  A function is the       *)
(* sequence of what it does on the wire; module SerialUpdi carries it out, *)
(* one access to the target per step.                                      *)
(***************************************************************************)
EXTENDS Integers, Sequences, SequencesExt

\* One frame or block, f, with its arguments.
Do(f, x) == <<[op |-> "do", f |-> f, x |-> x]>>

\* A test: one load of a status, or a loop around one with its time limit.
If(test, then, else) == <<[op |-> "if", test |-> test, then |-> then, else |-> else]>>
While(until, ms, then, else) ==
    <<[op |-> "wait", until |-> until, ms |-> ms, then |-> then, else |-> else]>>

Raise(exc) == <<[op |-> "raise", exc |-> exc]>>

\* try: body  except excs: handler
Try(body, excs, handler) == body \o <<[op |-> "except", excs |-> excs, handler |-> handler]>>

write_data_op(area, c) == Do("write_data", [area |-> area, c |-> c])
write_data_words_op(area, c) == Do("write_data_words", [area |-> area, c |-> c])
write_byte_op(reg, area) == Do("write_byte", [reg |-> reg, area |-> area])
execute_nvm_command(code) == Do("execute_nvm_command", code)

\* if not self.wait_nvm_ready(): raise PymcuprogSerialUpdiNvmTimeout
Ready == While("nvm_ready", 100, <<>>, Raise("NvmTimeout"))

-----------------------------------------------------------------------------
(* nvm.py                                                                  *)

NotReady == Raise("NotImplementedError")

NvmUpdi ==
    [chip_erase |-> NotReady, erase_eeprom |-> NotReady,
     erase_flash_page |-> [a \in {"page1", "page2"} |-> NotReady],
     erase_user_row |-> NotReady, write_eeprom |-> NotReady, write_user_row |-> NotReady,
     write_fuse |-> [a \in {"fuses", "lockbits"} |-> NotReady],
     write_flash |-> [a \in {"page1", "page2"} |-> NotReady]]

-----------------------------------------------------------------------------
(* nvmp0.py                                                                *)

P0_NVMCMD ==
    [WRITE_PAGE |-> 1, ERASE_PAGE |-> 2, ERASE_WRITE_PAGE |-> 3, PAGE_BUFFER_CLR |-> 4,
     CHIP_ERASE |-> 5, ERASE_EEPROM |-> 6, WRITE_FUSE |-> 7]

P0_chip_erase == Ready \o execute_nvm_command(P0_NVMCMD.CHIP_ERASE) \o Ready

P0_erase_flash_page(page) ==
    Ready \o write_data_op(page, "blank") \o execute_nvm_command(P0_NVMCMD.ERASE_PAGE) \o Ready

P0_erase_eeprom == Ready \o execute_nvm_command(P0_NVMCMD.ERASE_EEPROM) \o Ready

\* A dummy write for each location; the row counts as one here.
P0_erase_user_row ==
    Ready \o write_data_op("user_row", "blank")
    \o execute_nvm_command(P0_NVMCMD.ERASE_PAGE) \o Ready

\* A bug: the wait before the page buffer is loaded is left out.
P0_write_nvm_unready(load, command) ==
    execute_nvm_command(P0_NVMCMD.PAGE_BUFFER_CLR) \o load \o execute_nvm_command(command) \o Ready

P0_write_nvm(load, command) ==
    Ready \o execute_nvm_command(P0_NVMCMD.PAGE_BUFFER_CLR) \o Ready
    \o load \o execute_nvm_command(command) \o Ready

P0_write_flash(page) == P0_write_nvm(write_data_words_op(page, "new"), P0_NVMCMD.WRITE_PAGE)

P0_write_eeprom(area) == P0_write_nvm(write_data_op(area, "new"), P0_NVMCMD.ERASE_WRITE_PAGE)

\* The two bytes of the address count as one register.
P0_write_fuse(area) ==
    Ready \o write_byte_op("ADDR", area) \o write_byte_op("DATA", area)
    \o execute_nvm_command(P0_NVMCMD.WRITE_FUSE) \o Ready

NvmUpdiP0 ==
    [chip_erase |-> P0_chip_erase, erase_eeprom |-> P0_erase_eeprom,
     erase_flash_page |-> [p \in {"page1", "page2"} |-> P0_erase_flash_page(p)],
     erase_user_row |-> P0_erase_user_row, write_eeprom |-> P0_write_eeprom("eeprom"),
     write_user_row |-> P0_write_eeprom("user_row"),
     write_fuse |-> [a \in {"fuses", "lockbits"} |-> P0_write_fuse(a)],
     write_flash |-> [p \in {"page1", "page2"} |-> P0_write_flash(p)]]

-----------------------------------------------------------------------------
(* nvmp2.py: the command first, then the stores it is about.               *)

P2_NVMCMD ==
    [NOCMD |-> \h00, FLASH_WRITE |-> \h02, FLASH_PAGE_ERASE |-> \h08,
     EEPROM_ERASE_WRITE |-> \h13, CHIP_ERASE |-> \h20, EEPROM_ERASE |-> \h30]

NOCMD == execute_nvm_command(P2_NVMCMD.NOCMD)

\* A bug: the command is removed only when the wait was in time.
FinishInTime == Ready \o NOCMD

\* status = self.wait_nvm_ready(), remove the command, if not status: raise
Finish == While("nvm_ready", 100, NOCMD, NOCMD \o Raise("NvmTimeout"))

P2_chip_erase == Ready \o execute_nvm_command(P2_NVMCMD.CHIP_ERASE) \o Finish

P2_erase_flash_page(area) ==
    Ready \o execute_nvm_command(P2_NVMCMD.FLASH_PAGE_ERASE)
    \o write_data_op(area, "blank") \o Finish

P2_erase_eeprom == Ready \o execute_nvm_command(P2_NVMCMD.EEPROM_ERASE) \o Finish

P2_write_nvm(store) == Ready \o execute_nvm_command(P2_NVMCMD.FLASH_WRITE) \o store \o Finish

P2_write_flash(page) == P2_write_nvm(write_data_words_op(page, "new"))

P2_write_user_row == P2_write_nvm(write_data_op("user_row", "new"))

P2_write_eeprom(area) ==
    Ready \o execute_nvm_command(P2_NVMCMD.EEPROM_ERASE_WRITE)
    \o write_data_op(area, "new") \o Finish

NvmUpdiP2 ==
    [chip_erase |-> P2_chip_erase, erase_eeprom |-> P2_erase_eeprom,
     erase_flash_page |-> [p \in {"page1", "page2"} |-> P2_erase_flash_page(p)],
     erase_user_row |-> P2_erase_flash_page("user_row"),
     write_eeprom |-> P2_write_eeprom("eeprom"), write_user_row |-> P2_write_user_row,
     write_fuse |-> [a \in {"fuses", "lockbits"} |-> P2_write_eeprom(a)],
     write_flash |-> [p \in {"page1", "page2"} |-> P2_write_flash(p)]]

\* nvmp4.py is nvmp2.py with the registers of nvmp3.py.
NvmUpdiP4 == NvmUpdiP2

-----------------------------------------------------------------------------
(* nvmp3.py: as P:0, with commands to be removed.                          *)

P3_NVMCMD ==
    [NOCMD |-> \h00, FLASH_PAGE_WRITE |-> \h04, FLASH_PAGE_ERASE |-> \h08,
     FLASH_PAGE_BUFFER_CLEAR |-> \h0F, EEPROM_PAGE_ERASE_WRITE |-> \h15,
     EEPROM_PAGE_BUFFER_CLEAR |-> \h1F, CHIP_ERASE |-> \h20, EEPROM_ERASE |-> \h30]

P3_chip_erase == Ready \o execute_nvm_command(P3_NVMCMD.CHIP_ERASE) \o Finish

P3_erase_flash_page(area) ==
    Ready \o write_data_op(area, "blank")
    \o execute_nvm_command(P3_NVMCMD.FLASH_PAGE_ERASE) \o Finish

P3_erase_eeprom == Ready \o execute_nvm_command(P3_NVMCMD.EEPROM_ERASE) \o Finish

\* The command stays when the last wait is not in time.
P3_write_nvm(load, command, clear) ==
    Ready \o execute_nvm_command(clear) \o Ready
    \o load \o execute_nvm_command(command) \o Ready \o NOCMD

P3_write_flash(area) ==
    P3_write_nvm(write_data_words_op(area, "new"), P3_NVMCMD.FLASH_PAGE_WRITE,
                 P3_NVMCMD.FLASH_PAGE_BUFFER_CLEAR)

P3_write_eeprom(area) ==
    P3_write_nvm(write_data_op(area, "new"), P3_NVMCMD.EEPROM_PAGE_ERASE_WRITE,
                 P3_NVMCMD.EEPROM_PAGE_BUFFER_CLEAR)

NvmUpdiP3 ==
    [chip_erase |-> P3_chip_erase, erase_eeprom |-> P3_erase_eeprom,
     erase_flash_page |-> [p \in {"page1", "page2"} |-> P3_erase_flash_page(p)],
     erase_user_row |-> P3_erase_flash_page("user_row"),
     write_eeprom |-> P3_write_eeprom("eeprom"),
     write_user_row |-> P3_write_flash("user_row"),
     write_fuse |-> [a \in {"fuses", "lockbits"} |-> P3_write_eeprom(a)],
     write_flash |-> [p \in {"page1", "page2"} |-> P3_write_flash(p)]]

\* nvmp5.py is nvmp3.py with one more register.
NvmUpdiP5 == NvmUpdiP3

-----------------------------------------------------------------------------

NvmDriver ==
    [none |-> NvmUpdi, P0 |-> NvmUpdiP0, P2 |-> NvmUpdiP2, P3 |-> NvmUpdiP3,
     P4 |-> NvmUpdiP4, P5 |-> NvmUpdiP5]

\* NVMCTRL_STATUS of the drivers.
NVMCTRL_STATUS == [P0 |-> 2, P2 |-> 2, P3 |-> 6, P4 |-> 6, P5 |-> 6]
=============================================================================
