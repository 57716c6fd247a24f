----------------------------- MODULE UpdiTarget -----------------------------
(***************************************************************************)
(* The microcontroller at the other end of the UPDI wire, reduced to what  *)
(* the programmer can tell apart.  Its state is one record and every       *)
(* operator below is the effect of one UPDI instruction on that record.    *)
(*                                                                         *)
(* The host-test emulator (host_test/updi_emu.c) is the source's own model *)
(* of a target: keys, reset requests and NVMCTRL commands follow it.  What *)
(* the emulator leaves out and the programmer's code waits for, checks or  *)
(* comments on (boot and busy times, write errors, UPDIDIS, loss of power) *)
(* is hardware, modelled from how src/updi uses it.                        *)
(***************************************************************************)
EXTENDS Integers

CONSTANTS
    NPages,     \* number of flash pages
    Data        \* contents a page of an image can have, 0xFF pages excepted

ASSUME NPagesAssumption == NPages \in Nat \ {0}
ASSUME DataAssumption == Data \cap {"old", "blank", "torn"} = {}

Pages == 1..NPages

\* "P0" and "P3" have an entry in the device table; "other" answers with a
\* signature that has none; "none" is a wire with no target on it.
Chips == {"P0", "P3", "other", "none"}

\* "old" is what the page held when the target was plugged in, "blank" is
\* 0xFF, "torn" is anything nobody asked for.
Content == Data \cup {"old", "blank", "torn"}

(***************************************************************************)
(*   dis       UPDI is disabled: instructions are not decoded              *)
(*   rst       held in reset by ASI_RESET_REQ                              *)
(*   nvmKey, eraseKey   the bits of ASI_KEY_STATUS                         *)
(*   prog      NVM programming mode (ASI_SYS_STATUS.NVMPROG)               *)
(*   locked    the lock bits                                               *)
(*   rsd       CTRLA.RSD: acknowledgements are switched off                *)
(*   wrerr     NVMCTRL.STATUS write error                                  *)
(*   boot      ms until ASI_SYS_STATUS is valid after a reset              *)
(*   busy      ms until NVMCTRL.STATUS is no longer busy                   *)
(*   buf       the NVM page buffer                                         *)
(*   page      the page the last store was to, which page commands go to;  *)
(*             0 if it was to no page of the flash                         *)
(*   fuse, fuseReg   a fuse, and the register or buffer a write goes through *)
(***************************************************************************)
Targets ==
    [chip : Chips, dis : BOOLEAN, rst : BOOLEAN, nvmKey : BOOLEAN,
     eraseKey : BOOLEAN, prog : BOOLEAN, locked : BOOLEAN, rsd : BOOLEAN,
     wrerr : BOOLEAN, boot : Nat, busy : Nat, buf : Content,
     page : Pages \cup {0}, flash : [Pages -> Content], fuse : {"old", "new"},
     fuseReg : {"none", "new"}]

Filled(c) == [p \in Pages |-> c]

\* A target whose application runs; nobody has talked UPDI to it yet.
Fresh(chip, locked) ==
    [chip |-> chip, dis |-> TRUE, rst |-> FALSE, nvmKey |-> FALSE,
     eraseKey |-> FALSE, prog |-> FALSE, locked |-> locked, rsd |-> FALSE,
     wrerr |-> FALSE, boot |-> 0, busy |-> 0, buf |-> "blank",
     page |-> 0, flash |-> Filled("old"), fuse |-> "old", fuseReg |-> "none"]

-----------------------------------------------------------------------------
(* What the programmer can observe.                                        *)

Responds(t) == ~t.dis

\* Until the core has started, the lock bits are not known and read as locked.
LockStatus(t) == t.locked \/ t.rst \/ t.boot > 0
NvmProgStatus(t) == t.prog /\ t.boot = 0

\* Loads and stores reach memory only in programming mode.
Accessible(t) == Responds(t) /\ NvmProgStatus(t) /\ ~t.rst
Acknowledges(t) == Accessible(t) /\ ~t.rsd

Running(t) == t.chip = "none" \/ (~t.rst /\ ~t.prog /\ t.dis)

-----------------------------------------------------------------------------
(* BREAK, CTRLA/CTRLB, keys and resets.                                    *)

Break(t) == [t EXCEPT !.dis = @ /\ t.chip = "none"]
DoubleBreak(t) == [Break(t) EXCEPT !.rsd = FALSE]

SetRsd(t, b) == IF Responds(t) THEN [t EXCEPT !.rsd = b] ELSE t

\* CTRLB.UPDIDIS releases the keys and the UPDI registers.
Disable(t) ==
    IF Responds(t)
    THEN [t EXCEPT !.dis = TRUE, !.rsd = FALSE, !.nvmKey = FALSE, !.eraseKey = FALSE]
    ELSE t

TakeKey(t, key) ==
    IF Responds(t)
    THEN [t EXCEPT !.nvmKey = @ \/ key = "NVMProg", !.eraseKey = @ \/ key = "NVMErase"]
    ELSE t

\* The registers of NVMCTRL, the address among them, are reset with the rest.
HoldReset(t) ==
    IF Responds(t)
    THEN [t EXCEPT !.rst = TRUE, !.prog = FALSE, !.wrerr = FALSE, !.page = 0]
    ELSE t

\* Leaving reset consumes the keys: NVMErase erases and unlocks, NVMProg
\* enters programming mode unless the target is locked.
ReleaseReset(t, ms) ==
    IF Responds(t) /\ t.rst
    THEN LET locked == t.locked /\ ~t.eraseKey
         IN  [t EXCEPT !.rst = FALSE, !.boot = ms, !.locked = locked,
                       !.flash = IF t.eraseKey THEN Filled("blank") ELSE @,
                       !.prog = t.nvmKey /\ ~locked,
                       !.nvmKey = FALSE, !.eraseKey = FALSE]
    ELSE t

-----------------------------------------------------------------------------
(* Stores to NVMCTRL and to the memories.  ms is how long NVMCTRL is busy. *)

ChipErase(t, ms)   == [t EXCEPT !.busy = ms, !.flash = Filled("blank")]
ClearBuffer(t)     == [t EXCEPT !.buf = "blank"]

\* Stores to the flash go to the page buffer and select the page; a byte of
\* 0xFF leaves the buffer as it is.
LoadBuffer(t, p, c) == [t EXCEPT !.page = p, !.buf = c]
SelectPage(t, p)    == [t EXCEPT !.page = p]

\* A page command has no operand: it goes to the page that was selected.
ErasePage(t, ms) ==
    [t EXCEPT !.busy = ms, !.flash = [p \in Pages |-> IF p = t.page THEN "blank" ELSE @[p]]]

\* Programming can only clear bits: a page that was not erased is ruined.
Programmed(old, c) == IF old = "blank" THEN c ELSE IF c = "blank" THEN old ELSE "torn"
WritePage(t, ms) ==
    [t EXCEPT !.busy = ms,
              !.flash = [p \in Pages |-> IF p = t.page THEN Programmed(@[p], t.buf) ELSE @[p]]]

\* A fuse is no page: its address in place of the page's, and its value.
AddressFuse(t)   == [t EXCEPT !.page = 0]
LoadFuse(t)      == [AddressFuse(t) EXCEPT !.fuseReg = "new"]
ClearFuse(t)     == [t EXCEPT !.fuseReg = "none"]
WriteFuse(t, ms) ==
    [t EXCEPT !.busy = ms, !.fuse = IF t.fuseReg = "new" THEN "new" ELSE @]

\* NVMCTRL refuses a command: nothing is written, STATUS says so.
Refuse(t) == [t EXCEPT !.wrerr = TRUE]

-----------------------------------------------------------------------------
(* Time and power.                                                         *)

Less(n, ms) == IF n > ms THEN n - ms ELSE 0
Elapse(t, ms) == [t EXCEPT !.boot = Less(@, ms), !.busy = Less(@, ms)]

\* After as much time as a person takes for anything.
Settle(t) == [t EXCEPT !.boot = 0, !.busy = 0]

\* Power lost and back.  The pages in S, if NVMCTRL was busy, are ruined.
PowerUp(t, S) ==
    [t EXCEPT !.dis = TRUE, !.rst = FALSE, !.nvmKey = FALSE,
              !.eraseKey = FALSE, !.prog = FALSE, !.rsd = FALSE,
              !.wrerr = FALSE, !.boot = 0, !.busy = 0, !.buf = "blank",
              !.page = 0, !.fuseReg = "none",
              !.flash = [p \in Pages |-> IF p \in S THEN "torn" ELSE @[p]]]
=============================================================================
