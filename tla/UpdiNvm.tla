------------------------------- MODULE UpdiNvm -------------------------------
(***************************************************************************)
(* updi/updi_nvm.c, and updi_link_activate of updi/updi_link.c, as a       *)
(* machine that executes one call at a time.  pc is the place inside the   *)
(* function being executed, "ret" when none is: then ret is the status the *)
(* last one returned and val what it read.  Every step is one call of the  *)
(* link layer, so the target can be anywhere between two steps; power can  *)
(* fail there, and the time the link calls take passes for both sides.     *)
(*                                                                         *)
(* The code is single-threaded: this machine and its caller alternate.     *)
(***************************************************************************)
EXTENDS UpdiLink

CONSTANTS
    ChipsUsed,      \* the chips that get plugged in
    MaxFaults,      \* bound: how often the wire or the power fails in all
    HasClock,       \* the transport has a millis() (it may be NULL)
    MaxPollIters,   \* NVM_MAX_POLL_ITERS
    BootTimes,      \* ms a target may take to start after a reset
    UnlockTimes,    \* ms it may take when the reset runs a chip erase
    EraseTimes,     \* ms NVMCTRL may take for a chip erase
    WriteTimes      \* ms NVMCTRL may take for a page or a fuse

ASSUME NvmAssumption ==
    /\ ChipsUsed \subseteq Chips
    /\ MaxFaults \in Nat /\ HasClock \in BOOLEAN
    /\ MaxPollIters \in Nat \ {0}
    /\ BootTimes \subseteq Nat /\ UnlockTimes \subseteq Nat
    /\ EraseTimes \subseteq Nat /\ WriteTimes \subseteq Nat

VARIABLES
    tgt,        \* the target
    faults,     \* faults still to come
    pc,         \* place in the function being executed
    ret,        \* status of the last link call, and of the last function
    val,        \* what the last function read
    poll,       \* ms and iterations the poll loop being executed has taken
    arg,        \* page address and page content the caller passed
    dev         \* UpdiNvm.device

nvmVars == <<tgt, faults, pc, ret, val, poll, arg, dev>>

Locations ==
    {"ret", "activate", "ctrlb", "ctrla", "check", "double_break", "ctrlb2",
     "ctrla2", "check2", "sib",
     "enter", "hold", "nvm_key", "nvm_key_status", "apply", "release",
     "wait_unlocked", "confirm", "leave", "leave_release", "leave_disable",
     "unlock", "erase_key_status", "erase_apply", "erase_release",
     "erase_wait", "signature", "read", "fuse",
     "chip_erase", "chip_erase_cmd", "chip_erase_wait",
     "erase_page", "erase_page_select", "erase_page_cmd", "erase_page_wait",
     "write_page", "write_clear", "write_clear_wait", "write_fill",
     "write_cmd", "write_wait", "nocmd",
     "write_fuse_p3", "ee_clear", "ee_clear_wait", "ee_fill", "ee_cmd",
     "ee_wait", "write_fuse_p0", "fuse_addr", "fuse_addr_high", "fuse_data",
     "fuse_cmd", "fuse_wait"}

NoPoll == [ms |-> 0, iters |-> 0]

-----------------------------------------------------------------------------
(* How the C functions are put together.                                   *)

\* The outcome of a link call takes place, if it is not one fault too many.
Take(o) ==
    /\ o.fault <= faults
    /\ faults' = faults - o.fault
    /\ tgt' = o.tgt

\* s = f(...); if(s != UpdiOk) return s;
Try(here, outcomes, there) ==
    /\ pc = here
    /\ \E o \in outcomes :
        /\ Take(o)
        /\ ret' = o.st
        /\ pc' = IF o.st = "Ok" THEN there ELSE "ret"
    /\ UNCHANGED <<val, poll, arg, dev>>

\* f(...);  the status is ignored.
Ignore(here, outcomes, there) ==
    /\ pc = here
    /\ \E o \in outcomes : Take(o)
    /\ pc' = there
    /\ UNCHANGED <<ret, val, poll, arg, dev>>

\* s = f(...); if(s != UpdiOk) return s; if(!bit) return UpdiErrProtocol;
TryBit(here, bit, there) ==
    /\ pc = here
    /\ \E o \in Ldcs(tgt) :
        /\ Take(o)
        /\ ret' = IF o.st = "Ok" /\ ~bit THEN "ErrProtocol" ELSE o.st
        /\ pc' = IF ret' = "Ok" THEN there ELSE "ret"
    /\ UNCHANGED <<val, poll, arg, dev>>

\* The end of one iteration of a poll loop that cost ms: out of time?
Expired(ms, timeout) ==
    \/ HasClock /\ poll.ms + ms >= timeout
    \/ poll.iters + 1 >= MaxPollIters

\* A bug: start and iters are set inside the loop.
PollAgainRestarts(ms) == poll' = NoPoll

PollAgain(ms) ==
    poll' = [ms |-> IF HasClock THEN poll.ms + ms ELSE 0,
             iters |-> poll.iters + 1]

\* if(!wait_unlocked(nvm, timeout)) return failure;
WaitUnlocked(here, timeout, there, failure) ==
    /\ pc = here
    /\ \E o \in Ldcs(tgt) :
        LET unlocked == o.st = "Ok" /\ ~LockStatus(tgt)
            expired  == ~unlocked /\ Expired(CostOf(o.st), timeout)
        IN  /\ Take([o EXCEPT !.tgt = Elapse(@, CostOf(o.st))])
            /\ ret' = IF expired THEN failure ELSE "Ok"
            /\ pc' = IF unlocked THEN there ELSE IF expired THEN "ret" ELSE here
            /\ IF unlocked \/ expired THEN poll' = NoPoll
                                      ELSE PollAgain(CostOf(o.st))
    /\ UNCHANGED <<val, arg, dev>>

\* What a read of NVMCTRL.STATUS that ended with st says.
NvmStatusNeverError(st) ==      \* a bug: the wrong status_wrerr_mask
    IF st = "Ok" /\ tgt.busy > 0 THEN "Busy" ELSE st

NvmStatus(st) ==
    IF st # "Ok" THEN st
    ELSE IF tgt.wrerr THEN "ErrNvm"
    ELSE IF tgt.busy > 0 THEN "Busy"
    ELSE "Ok"

\* s = wait_nvm_ready(nvm, timeout): on to onOk, or with its error to onError.
WaitReady(here, timeout, onOk, onError) ==
    /\ pc = here
    /\ \E o \in LdByte(tgt) :
        LET status == NvmStatus(o.st)
            again  == status = "Busy" /\ ~Expired(CostOf(o.st), timeout)
        IN  /\ Take([o EXCEPT !.tgt = Elapse(@, CostOf(o.st))])
            /\ ret' = IF status # "Busy" THEN status
                      ELSE IF again THEN "Ok" ELSE "ErrTimeout"
            /\ pc' = IF again THEN here ELSE IF ret' = "Ok" THEN onOk ELSE onError
            /\ IF again THEN PollAgain(CostOf(o.st)) ELSE poll' = NoPoll
    /\ UNCHANGED <<val, arg, dev>>

\* execute_nvm_command: u is the target when NVMCTRL takes the command; it can
\* refuse it, which the status register shows afterwards.
Command(here, u, there) ==
    Try(here, StByte(tgt, u) \cup
              {[o EXCEPT !.fault = 1] : o \in StByte(tgt, Refuse(tgt))}, there)

-----------------------------------------------------------------------------
(* updi_link_activate, updi_nvm_read_sib_info                              *)

InitialBreak == Ignore("activate", Send(tgt, Break(tgt)), "ctrlb")

\* init_session_params: its status is ignored, its early return is not.
InitCtrlB(here, ctrla, check) ==
    /\ pc = here
    /\ \E o \in Stcs(tgt, tgt) :
        /\ Take(o)
        /\ pc' = IF o.st = "Ok" THEN ctrla ELSE check
    /\ UNCHANGED <<ret, val, poll, arg, dev>>

\* A bug: the first STCS is trusted to have enabled acknowledgements.
InitCtrlAKeepsRsd(here, check) == Ignore(here, Stcs(tgt, tgt), check)

InitCtrlA(here, check) == Ignore(here, Stcs(tgt, SetRsd(tgt, FALSE)), check)

\* check_datalink, the first time; the second time its failure is a timeout.
CheckDatalink ==
    /\ pc = "check"
    /\ \E o \in Ldcs(tgt) :
        /\ Take(o)
        /\ ret' = "Ok"
        /\ pc' = IF o.st = "Ok" THEN "ret" ELSE "double_break"
    /\ UNCHANGED <<val, poll, arg, dev>>

SendDoubleBreak ==
    Ignore("double_break", {Out(DoubleBreak(tgt), "Ok", 0), Out(tgt, "Ok", 1)},
           "ctrlb2")

CheckDatalinkAgain ==
    /\ pc = "check2"
    /\ \E o \in Ldcs(tgt) :
        /\ Take(o)
        /\ ret' = IF o.st = "Ok" THEN "Ok" ELSE "ErrTimeout"
    /\ pc' = "ret"
    /\ UNCHANGED <<val, poll, arg, dev>>

ReadSibInfo == Try("sib", ReadSib(tgt), "ret")

Activate ==
    \/ InitialBreak
    \/ InitCtrlB("ctrlb", "ctrla", "check") \/ InitCtrlA("ctrla", "check")
    \/ CheckDatalink \/ SendDoubleBreak
    \/ InitCtrlB("ctrlb2", "ctrla2", "check2") \/ InitCtrlA("ctrla2", "check2")
    \/ CheckDatalinkAgain \/ ReadSibInfo

-----------------------------------------------------------------------------
(* updi_nvm_enter_progmode, _leave_progmode, _unlock                       *)

\* if(updi_nvm_in_progmode(nvm)) return UpdiOk;
AlreadyInProgmode ==
    /\ pc = "enter"
    /\ \E o \in Ldcs(tgt) :
        /\ Take(o)
        /\ pc' = IF o.st = "Ok" /\ NvmProgStatus(tgt) THEN "ret" ELSE "hold"
    /\ ret' = "Ok"
    /\ UNCHANGED <<val, poll, arg, dev>>

\* if(!updi_nvm_in_progmode(nvm)) return UpdiErrProtocol;
ConfirmProgmode ==
    /\ pc = "confirm"
    /\ \E o \in Ldcs(tgt) :
        /\ Take(o)
        /\ ret' = IF o.st = "Ok" /\ NvmProgStatus(tgt) THEN "Ok" ELSE "ErrProtocol"
    /\ pc' = "ret"
    /\ UNCHANGED <<val, poll, arg, dev>>

EnterProgmode ==
    \/ AlreadyInProgmode
    \/ Try("hold", Stcs(tgt, HoldReset(tgt)), "nvm_key")
    \/ Try("nvm_key", Key(tgt, "NVMProg"), "nvm_key_status")
    \/ TryBit("nvm_key_status", tgt.nvmKey, "apply")
    \/ Ignore("apply", Stcs(tgt, HoldReset(tgt)), "release")
    \/ \E ms \in IF tgt.eraseKey THEN UnlockTimes ELSE BootTimes :
          Ignore("release", Stcs(tgt, ReleaseReset(tgt, ms)), "wait_unlocked")
    \/ WaitUnlocked("wait_unlocked", 100, "confirm", "ErrLocked")
    \/ ConfirmProgmode

\* A bug: nvm_reset(nvm, false) is forgotten.
LeaveProgmodeHalted ==
    \/ Ignore("leave", Stcs(tgt, HoldReset(tgt)), "leave_disable")
    \/ Try("leave_disable", Stcs(tgt, Disable(tgt)), "ret")

LeaveProgmode ==
    \/ Ignore("leave", Stcs(tgt, HoldReset(tgt)), "leave_release")
    \/ \E ms \in IF tgt.eraseKey THEN UnlockTimes ELSE BootTimes :
          Ignore("leave_release", Stcs(tgt, ReleaseReset(tgt, ms)), "leave_disable")
    \/ Try("leave_disable", Stcs(tgt, Disable(tgt)), "ret")

Unlock ==
    \/ Try("unlock", Key(tgt, "NVMErase"), "erase_key_status")
    \/ TryBit("erase_key_status", tgt.eraseKey, "erase_apply")
    \/ Ignore("erase_apply", Stcs(tgt, HoldReset(tgt)), "erase_release")
    \/ \E ms \in IF tgt.eraseKey THEN UnlockTimes ELSE BootTimes :
          Ignore("erase_release", Stcs(tgt, ReleaseReset(tgt, ms)), "erase_wait")
    \/ WaitUnlocked("erase_wait", 500, "ret", "ErrNvm")

-----------------------------------------------------------------------------
(* Reads: signature, flash, one fuse                                       *)

Read(here, outcomes, value) ==
    /\ pc = here
    /\ \E o \in outcomes :
        /\ Take(o)
        /\ ret' = o.st
        /\ val' = IF o.st = "Ok" THEN value ELSE val
    /\ pc' = "ret"
    /\ UNCHANGED <<poll, arg, dev>>

Reads ==
    \/ Read("signature", ReadData(tgt), tgt.chip)
    \/ Read("read", ReadData(tgt), tgt.flash[arg.page])
    \/ Read("fuse", LdByte(tgt), tgt.fuse)

-----------------------------------------------------------------------------
(* Erases and writes                                                       *)

\* P:3 writes NOCMD once a command has been waited for, whatever came of it.
Finish == IF dev = "P3" THEN "nocmd" ELSE "ret"
ClearCommand == Ignore("nocmd", StByte(tgt, tgt), "ret")

EraseChip ==
    \/ WaitReady("chip_erase", 100, "chip_erase_cmd", "ret")
    \/ \E ms \in EraseTimes :
          Command("chip_erase_cmd", ChipErase(tgt, ms), "chip_erase_wait")
    \/ WaitReady("chip_erase_wait", 500, Finish, Finish)

\* A bug: no dummy store selects the page.
EraseFlashPageUnselected ==
    \/ WaitReady("erase_page", 100, "erase_page_cmd", "ret")
    \/ \E ms \in WriteTimes :
          Command("erase_page_cmd", ErasePage(tgt, ms), "erase_page_wait")
    \/ WaitReady("erase_page_wait", 100, Finish, Finish)

EraseFlashPage ==
    \/ WaitReady("erase_page", 100, "erase_page_select", "ret")
    \/ Try("erase_page_select", StByte(tgt, SelectPage(tgt, arg.page)), "erase_page_cmd")
    \/ \E ms \in WriteTimes :
          Command("erase_page_cmd", ErasePage(tgt, ms), "erase_page_wait")
    \/ WaitReady("erase_page_wait", 100, Finish, Finish)

\* A bug: what the last command left is not waited for.
WriteFlashPageAtOnce ==
    \/ /\ pc = "write_page"
       /\ pc' = "write_clear"
       /\ UNCHANGED <<tgt, faults, ret, val, poll, arg, dev>>
    \/ Command("write_clear", ClearBuffer(tgt), "write_fill")
    \/ Try("write_fill", WriteDataWords(tgt, arg.page, arg.data), "write_cmd")
    \/ \E ms \in WriteTimes :
          Command("write_cmd", WritePage(tgt, ms), "write_wait")
    \/ WaitReady("write_wait", 100, Finish, Finish)

WriteFlashPage ==
    \/ WaitReady("write_page", 100, "write_clear", "ret")
    \/ Command("write_clear", ClearBuffer(tgt), "write_clear_wait")
    \/ WaitReady("write_clear_wait", 100, "write_fill", "ret")
    \/ Try("write_fill", WriteDataWords(tgt, arg.page, arg.data), "write_cmd")
    \/ \E ms \in WriteTimes :
          Command("write_cmd", WritePage(tgt, ms), "write_wait")
    \/ WaitReady("write_wait", 100, Finish, Finish)

\* P:3 writes a fuse through the EEPROM page buffer, P:0 through ADDR and DATA.
WriteFuseP3 ==
    \/ WaitReady("write_fuse_p3", 100, "ee_clear", "ret")
    \/ Command("ee_clear", ClearFuse(tgt), "ee_clear_wait")
    \/ WaitReady("ee_clear_wait", 100, "ee_fill", "ret")
    \/ Try("ee_fill", StByte(tgt, LoadFuse(tgt)), "ee_cmd")
    \/ \E ms \in WriteTimes : Command("ee_cmd", WriteFuse(tgt, ms), "ee_wait")
    \/ WaitReady("ee_wait", 100, "nocmd", "nocmd")

WriteFuseP0 ==
    \/ WaitReady("write_fuse_p0", 100, "fuse_addr", "ret")
    \/ Try("fuse_addr", StByte(tgt, tgt), "fuse_addr_high")
    \/ Try("fuse_addr_high", StByte(tgt, AddressFuse(tgt)), "fuse_data")
    \/ Try("fuse_data", StByte(tgt, LoadFuse(tgt)), "fuse_cmd")
    \/ \E ms \in WriteTimes : Command("fuse_cmd", WriteFuse(tgt, ms), "fuse_wait")
    \/ WaitReady("fuse_wait", 100, "ret", "ret")

-----------------------------------------------------------------------------
(* The machine *)

NvmStep ==
    \/ Activate \/ EnterProgmode \/ LeaveProgmode \/ Unlock \/ Reads
    \/ EraseChip \/ EraseFlashPage \/ WriteFlashPage
    \/ WriteFuseP3 \/ WriteFuseP0 \/ ClearCommand

\* The target loses power for a moment; a page being written may be ruined.
PowerCycle ==
    /\ faults > 0
    /\ tgt.chip # "none"
    /\ \E S \in IF tgt.busy > 0 THEN SUBSET Pages ELSE {{}} : tgt' = PowerUp(tgt, S)
    /\ faults' = faults - 1
    /\ UNCHANGED <<pc, ret, val, poll, arg, dev>>

\* The caller calls a function; page and data are what it passes.
Invoke(entry, page, data) ==
    /\ pc = "ret"
    /\ pc' = entry
    /\ arg' = [page |-> page, data |-> data]
    /\ UNCHANGED <<tgt, faults, ret, val, poll>>

\* Nothing that is not there is locked.
FreshTargets ==
    {Fresh(c, l) : c \in ChipsUsed, l \in BOOLEAN} \ {Fresh("none", TRUE)}

NvmInit ==
    /\ tgt \in FreshTargets
    /\ faults = MaxFaults
    /\ pc = "ret"
    /\ ret = "Ok"
    /\ val = "old"
    /\ poll = NoPoll
    /\ arg = [page |-> 1, data |-> "blank"]
    /\ dev = "NULL"

\* The status of a call is an UpdiStatus, and the target one of Targets.
NvmTypeOK ==
    /\ tgt \in Targets
    /\ faults \in 0..MaxFaults
    /\ pc \in Locations
    /\ ret \in Statuses
    /\ val \in Content \cup Chips \cup {"new"}
    /\ poll \in [ms : Nat, iters : Nat]
    /\ arg \in [page : Pages, data : Data \cup {"blank"}]
    /\ dev \in {"P0", "P3", "NULL"}
=============================================================================
