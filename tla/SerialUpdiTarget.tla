-------------------------- MODULE SerialUpdiTarget --------------------------
(***************************************************************************)
(* The microcontroller as the pymcuprog reference sees it: every memory it *)
(* writes, all NVM interfaces it has a driver for, the user row mode and   *)
(* the commands that stay in NVMCTRL until they are removed.  It is        *)
(* hardware, modelled from how reference/pymcuprog/serialupdi uses it.     *)
(***************************************************************************)
EXTENDS Integers, Sequences

CONSTANT Eesave         \* a fuse: the EEPROM survives a chip erase

ASSUME EesaveAssumption == Eesave \in BOOLEAN

Variants == {"P0", "P1", "P2", "P3", "P4", "P5"}
Pages == {"page1", "page2"}
Areas == Pages \cup {"eeprom", "user_row", "fuses", "lockbits"}

\* "old" was there before, "blank" is 0xFF, "new" is what the caller writes,
\* "torn" is what nobody asked for.  Lock bits are "old" (open) or "new" (locked).
Content == {"old", "blank", "new", "torn"}

(***************************************************************************)
(*   nvm       the NVM interface that the SIB names                        *)
(*   expected  the signature is that of the pack the caller named          *)
(*   on        UPDI is enabled                                             *)
(*   rst, keys, mode   ASI_RESET_REQ, ASI_KEY_STATUS, what a reset with    *)
(*             them led to: run, prog, urow, or final (user row written)   *)
(*   locked    the lock bits as they were when the target came out of reset*)
(*   rsd       acknowledgements are off                                    *)
(*   cmd       NVMCTRL.CTRLA, which P:2 and P:4 obey until it is changed   *)
(*   err, busy, boot   write error, ms until NVMCTRL and the core are ready*)
(*   addr, buf the last address stored to and the page buffer              *)
(*   reg, dat  NVMCTRL.ADDR and DATA of P:0                                *)
(***************************************************************************)
Fresh(nvm, lockbits, expected) ==
    [nvm |-> nvm, expected |-> expected, on |-> FALSE, rst |-> FALSE,
     keys |-> {}, mode |-> "run", locked |-> lockbits = "new", rsd |-> FALSE,
     cmd |-> "NOCMD", err |-> FALSE, busy |-> 0, boot |-> 0, addr |-> "none",
     buf |-> "blank", reg |-> "none", dat |-> "none",
     mem |-> [a \in Areas |-> IF a = "lockbits" THEN lockbits ELSE "old"]]

FlashLike(t, a) == a \in Pages \/ (a = "user_row" /\ t.nvm # "P0")
WordOriented(t) == t.nvm \in {"P2", "P4"}
AddressWidth(t) == IF t.nvm = "P0" THEN 16 ELSE 24
StatusOffset(t) == IF t.nvm \in {"P0", "P2"} THEN 2 ELSE 6

Accessible(t) == t.on /\ ~t.rst /\ t.boot = 0 /\ t.mode = "prog"
LockStatus(t) == t.locked \/ t.rst \/ t.boot > 0
NvmProg(t) == t.mode = "prog" /\ ~t.rst /\ t.boot = 0
UrowProg(t) == ~t.rst /\ t.boot = 0 /\ (t.mode = "urow" \/ (t.mode = "final" /\ t.busy > 0))
Running(t) == ~t.rst /\ t.mode = "run"

-----------------------------------------------------------------------------
(* Breaks, keys, resets.                                                   *)

DoubleBreak(t) == [t EXCEPT !.on = TRUE, !.rsd = FALSE]
SetRsd(t, b) == IF t.on THEN [t EXCEPT !.rsd = b] ELSE t
TakeKey(t, key) == IF t.on THEN [t EXCEPT !.keys = @ \cup {key}] ELSE t
ClearUrowKey(t) == IF t.on THEN [t EXCEPT !.keys = @ \ {"NVMUs&te"}] ELSE t

Disable(t) == IF t.on THEN [t EXCEPT !.on = FALSE, !.keys = {}, !.rsd = FALSE] ELSE t

HoldReset(t) ==
    IF t.on THEN [t EXCEPT !.rst = TRUE, !.cmd = "NOCMD", !.err = FALSE, !.buf = "blank"]
    ELSE t

\* Chip erase: flash, lock bits and, unless kept, the EEPROM.
Erased(t) ==
    {"page1", "page2", "lockbits"} \cup IF Eesave THEN {} ELSE {"eeprom"}
Blanked(t, S) == [a \in Areas |-> IF a \in S THEN "blank" ELSE t.mem[a]]

\* Leaving reset consumes the keys but that of the user row, which is cleared
\* by a store to ASI_KEY_STATUS.
ReleaseReset(t, ms) ==
    IF ~(t.on /\ t.rst) THEN t
    ELSE LET mem == IF "NVMErase" \in t.keys THEN Blanked(t, Erased(t)) ELSE t.mem
             locked == mem.lockbits = "new"
         IN  [t EXCEPT !.rst = FALSE, !.boot = ms, !.mem = mem, !.locked = locked,
                       !.keys = @ \cap {"NVMUs&te"},
                       !.mode = CASE "NVMProg" \in t.keys /\ ~locked -> "prog"
                                  [] "NVMUs&te" \in t.keys -> "urow"
                                  [] OTHER -> "run"]

\* ASI_SYS_CTRLA.UROW_FINAL: the page loaded in user row mode is written.
UrowFinal(t, ms) ==
    IF t.on /\ t.mode = "urow" /\ t.boot = 0
    THEN [t EXCEPT !.mode = "final", !.busy = ms, !.mem.user_row = t.buf]
    ELSE t

-----------------------------------------------------------------------------
(* NVMCTRL.                                                                *)

\* Programming flash only clears bits.
Programmed(old, c) == IF c = "blank" THEN old ELSE IF old = "blank" THEN c ELSE "torn"

Refuse(t) == [t EXCEPT !.err = TRUE]

\* A store to memory.  P:2 and P:4 do at once what the command in CTRLA says,
\* the others load the page buffer.
Store(t, a, c, ms) ==
    IF t.mode = "urow" THEN [t EXCEPT !.buf = c]
    ELSE IF ~WordOriented(t) THEN [t EXCEPT !.addr = a, !.buf = IF c = "blank" THEN @ ELSE c]
    ELSE CASE t.cmd = "FLASH_WRITE" /\ FlashLike(t, a) ->
                [t EXCEPT !.mem[a] = Programmed(@, c), !.busy = ms]
           [] t.cmd = "FLASH_PAGE_ERASE" /\ FlashLike(t, a) ->
                [t EXCEPT !.mem[a] = "blank", !.busy = ms]
           [] t.cmd = "EEPROM_ERASE_WRITE" /\ ~FlashLike(t, a) ->
                [t EXCEPT !.mem[a] = c, !.busy = ms]
           [] OTHER -> Refuse(t)

\* The page commands act on the page last stored to, and empty the buffer.
PageCommand(t, ok, c, ms) ==
    IF t.addr = "none" \/ ~ok THEN Refuse(t)
    ELSE [t EXCEPT !.mem[t.addr] = c, !.busy = ms, !.buf = "blank"]

Obey(t, cmd, ms) ==
    LET here == IF t.addr = "none" THEN "old" ELSE t.mem[t.addr]
        flash == FlashLike(t, t.addr)       \* of the page stored to
    IN  CASE cmd = "CHIP_ERASE" -> [t EXCEPT !.mem = Blanked(t, Erased(t)), !.busy = ms]
          [] cmd = "EEPROM_ERASE" -> [t EXCEPT !.mem.eeprom = "blank", !.busy = ms]
          [] WordOriented(t) -> t
          [] cmd = "PAGE_BUFFER_CLEAR" -> [t EXCEPT !.buf = "blank"]
          [] cmd = "PAGE_WRITE" -> PageCommand(t, flash, Programmed(here, t.buf), ms)
          [] cmd = "PAGE_ERASE" -> PageCommand(t, flash \/ t.nvm = "P0", "blank", ms)
          [] cmd = "EEPROM_ERASE_WRITE" -> PageCommand(t, ~flash, t.buf, ms)
          [] cmd = "WRITE_FUSE" ->
                IF t.reg = "none" \/ t.dat = "none" THEN Refuse(t)
                ELSE [t EXCEPT !.mem[t.reg] = t.dat, !.busy = ms]
          [] OTHER -> t

\* What a code means to the target: P:0, P:2 and P:4, the others.
Decode(t, code) ==
    LET paged == t.nvm # "P0" /\ ~WordOriented(t)
    IN  CASE code = \h00 -> "NOCMD"
          [] t.nvm = "P0" /\ code \in 1..7 ->
                <<"PAGE_WRITE", "PAGE_ERASE", "EEPROM_ERASE_WRITE", "PAGE_BUFFER_CLEAR",
                  "CHIP_ERASE", "EEPROM_ERASE", "WRITE_FUSE">>[code]
          [] t.nvm # "P0" /\ code = \h20 -> "CHIP_ERASE"
          [] t.nvm # "P0" /\ code = \h30 -> "EEPROM_ERASE"
          [] WordOriented(t) /\ code = \h02 -> "FLASH_WRITE"
          [] WordOriented(t) /\ code = \h08 -> "FLASH_PAGE_ERASE"
          [] WordOriented(t) /\ code = \h13 -> "EEPROM_ERASE_WRITE"
          [] paged /\ code = \h04 -> "PAGE_WRITE"
          [] paged /\ code = \h08 -> "PAGE_ERASE"
          [] paged /\ code \in {\h0F, \h1F} -> "PAGE_BUFFER_CLEAR"
          [] paged /\ code = \h15 -> "EEPROM_ERASE_WRITE"
          [] OTHER -> "other"

\* A store to CTRLA.  A new command is refused while the last one runs and, by
\* P:2 and P:4, as long as the last one has not been removed.
TakeCommand(t, code, ms) ==
    LET cmd == Decode(t, code)
    IN  IF cmd = "NOCMD" THEN [t EXCEPT !.cmd = "NOCMD"]
        ELSE IF t.busy > 0 \/ (WordOriented(t) /\ t.cmd # "NOCMD") \/ cmd = "other" THEN Refuse(t)
        ELSE Obey([t EXCEPT !.cmd = IF t.nvm = "P0" THEN "NOCMD" ELSE cmd], cmd, ms)

-----------------------------------------------------------------------------
(* Time.                                                                   *)

Less(n, ms) == IF n > ms THEN n - ms ELSE 0
Elapse(t, ms) == [t EXCEPT !.boot = Less(@, ms), !.busy = Less(@, ms)]
Settle(t) == [t EXCEPT !.boot = 0, !.busy = 0]
=============================================================================
