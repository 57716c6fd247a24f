------------------------- MODULE UpdiRecoveryProofs -------------------------
(***************************************************************************)
(* Theorems about recovery: what an operation that nothing disturbs does   *)
(* with a target that earlier, disturbed ones left in any state they can:  *)
(* Connect reports what is on the wire and Flash succeeds, however much    *)
(* went wrong before.  And what a single fault can do at worst: a key for  *)
(* a chip erase that it leaves armed never runs during a successful Flash, *)
(* nor during one whose file is refused.  And that after any operation     *)
(* reported as good the application runs, with at most two faults.         *)
(***************************************************************************)
EXTENDS UpdiWorkerProofs

(***************************************************************************)
(* That the targets are fast enough for the waits of updi_nvm.c: with the  *)
(* clock, for its timeout in ms, and for the number of polls.              *)
(***************************************************************************)
Fits(ms, timeout) ==
    \/ ms = 0
    \/ /\ HasClock => ms + PollMs <= timeout
       /\ ms <= (MaxPollIters - 1) * PollMs

\* wait_unlocked of updi_nvm_enter_progmode: 100 ms, after a reset that starts
\* the core, and after one that runs a chip erase first.
BootsFit == \A ms \in BootTimes : Fits(ms, 100)
UnlocksFit == \A ms \in UnlockTimes : Fits(ms, 100)

\* wait_nvm_ready of the chip erase, 500 ms, and of a page, 100 ms.
NvmFits == (\A ms \in EraseTimes : Fits(ms, 500)) /\ (\A ms \in WriteTimes : Fits(ms, 100))

-----------------------------------------------------------------------------
(* What holds whatever is lost and however often                           *)

PollPlaces ==
    {"wait_unlocked", "erase_wait", "chip_erase", "chip_erase_wait", "write_page",
     "write_clear_wait", "write_wait"}

\* A poll loop starts with no time used; nothing that is not there answers; a
\* target in reset is not in programming mode; faults are used up; a target that
\* was not locked when an operation started is not.
GroundInv ==
    /\ pc \notin PollPlaces => poll = NoPoll
    /\ tgt.chip = "none" => tgt.dis
    /\ tgt.prog => ~tgt.rst
    /\ faults <= budget
    /\ op # "None" /\ ~wasLocked => ~tgt.locked

-----------------------------------------------------------------------------
(* The way in, when nothing is lost                                        *)

\* What is left of a wait fits into what is left of the loop.
InTime(p, ms, timeout) ==
    \/ ms = 0
    \/ /\ HasClock => p.ms + ms + PollMs <= timeout
       /\ p.iters * PollMs + ms <= (MaxPollIters - 1) * PollMs

\* A target that answers and acknowledges; one in programming mode.
Linked == tgt.chip # "none" /\ ~tgt.dis /\ ~tgt.rsd
InProgmode == tgt.prog /\ tgt.boot = 0

\* updi_link_activate finds the target at the first attempt, or nothing at the
\* second one.
ActivateQuiet ==
    /\ tgt.chip = "none" /\ pc = "ret" => ret = "ErrTimeout"
    /\ tgt.chip # "none" =>
          /\ pc \in {"activate", "ctrlb", "ctrla", "check", "ret"}
          /\ pc # "activate" => ~tgt.dis
          /\ pc \in {"check", "ret"} => ~tgt.rsd
          /\ pc = "ret" => ret = "Ok"

SibQuiet == Linked /\ pc \in {"sib", "ret"} /\ (pc = "ret" => ret = "Ok")

\* updi_nvm_enter_progmode succeeds, unless the target is locked.
EnterQuiet ==
    /\ Linked
    /\ pc \in {"nvm_key_status", "apply", "release"} => tgt.nvmKey
    /\ pc = "release" => tgt.rst
    /\ pc = "wait_unlocked" =>
          /\ ~tgt.rst
          /\ tgt.locked \/ (tgt.prog /\ InTime(poll, tgt.boot, 100))
    /\ pc = "confirm" => InProgmode
    /\ pc = "ret" => \/ ret = "Ok" /\ InProgmode
                     \/ ret = "ErrLocked" /\ tgt.locked

SignatureQuiet == Linked /\ InProgmode /\ (pc = "ret" => ret = "Ok")

ConnectQuiet ==
    /\ wpc = "activate" => ActivateQuiet
    /\ wpc = "sib" => SibQuiet
    /\ wpc = "enter" => EnterQuiet
    /\ wpc = "signature" => SignatureQuiet

-----------------------------------------------------------------------------
(* Undisturbed operations after any number of faults                       *)

\* updi_nvm_unlock erases and unlocks.
UnlockQuiet ==
    /\ Linked /\ op \in EraseOps
    /\ pc \in {"erase_key_status", "erase_apply", "erase_release"} => tgt.eraseKey
    /\ pc = "erase_release" => tgt.rst
    /\ pc = "erase_wait" => ~tgt.locked /\ ~tgt.rst /\ InTime(poll, tgt.boot, 500)
    /\ pc = "ret" => ret = "Ok" /\ ~tgt.locked

Verdict ==
    IF tgt.chip = "none" THEN "ErrTimeout"
    ELSE IF tgt.locked THEN "ErrLocked"
    ELSE IF ~Known(tgt.chip) THEN "ErrUnsupported"
    ELSE "Ok"

\* What Connect reports.
ReportQuiet ==
    /\ op = "Connect" => wpc # "unlock"
    /\ wpc = "disconnect" /\ op = "Connect" =>
          result = "Ok" /\ Known(tgt.chip) /\ ~tgt.locked
    /\ wpc = "idle" /\ op = "Connect" /\ transport = "ready" => result = Verdict

QuietInv == Undisturbed => ConnectQuiet /\ ReportQuiet

\* updi_nvm_chip_erase succeeds, unless it finds a write error.
EraseQuiet ==
    /\ pc = "chip_erase" => tgt.busy = 0
    /\ pc = "chip_erase_cmd" => ~tgt.wrerr
    /\ pc = "chip_erase_wait" => ~tgt.wrerr /\ InTime(poll, tgt.busy, 500)
    /\ pc \in {"nocmd", "ret"} => ret = IF tgt.wrerr THEN "ErrNvm" ELSE "Ok"

\* The session of an operation: unlocked once if need be, then in programming mode.
SessionQuiet ==
    /\ wpc = "unlock" => UnlockQuiet
    /\ retried /\ wpc \in {"transport", "connect", "activate", "sib", "enter", "signature"} =>
          ~tgt.locked
    /\ wpc \in {"body", "parse", "erase", "write", "write_page", "verify", "verify_page"} =>
          Linked /\ InProgmode
    /\ wpc = "erase" => EraseQuiet

\* The pages up to n hold the image.
WrittenUpTo(n) == \A p \in Pages : p <= n /\ p <= file.len => tgt.flash[p] = file.page[p]

\* updi_nvm_write_flash_page succeeds.
WriteQuiet ==
    /\ arg.page = cursor /\ arg.data = file.page[cursor]
    /\ pc = "write_cmd" => tgt.page = arg.page /\ tgt.buf = arg.data
    /\ pc = "write_wait" => InTime(poll, tgt.busy, 100)
    /\ pc \in {"write_wait", "nocmd", "ret"} => tgt.flash[cursor] = arg.data
    /\ pc \in {"nocmd", "ret"} => ret = "Ok"

\* Flash succeeds with a file that is not refused and a supported target.
FlashQuiet ==
    /\ wpc \in {"write", "write_page"} => ~tgt.wrerr /\ WrittenUpTo(cursor - 1)
    /\ wpc = "write_page" => WriteQuiet
    /\ wpc \in {"verify", "verify_page"} => WrittenUpTo(file.len)
    /\ wpc = "verify_page" => cursor <= file.len /\ (pc = "ret" => ret = "Ok")
    /\ wpc = "disconnect" => result = "Ok"
    /\ wpc = "idle" /\ transport = "ready" /\ file # BadFile /\ Known(tgt.chip) =>
          result = "Ok" \/ tgt.wrerr

QuietFlashInv == Undisturbed => SessionQuiet /\ (op = "Flash" => FlashQuiet)

-----------------------------------------------------------------------------
(* A single fault                                                          *)

\* An unlock that is going to run the key it armed.
Unlocking ==
    /\ wpc = "unlock" /\ pc \in {"erase_key_status", "erase_apply", "erase_release"}
    /\ pc = "erase_release" => tgt.rst

\* A key for a chip erase that stays armed does so because of the fault, and in a
\* locked target.
KeyInv ==
    tgt.eraseKey =>
        /\ ~tgt.dis
        /\ Unlocking \/ (faults < MaxFaults /\ tgt.locked)
        /\ ~tgt.locked => faults = 0

\* Only updi_nvm_enter_progmode says that the target is locked; a target that is
\* not gets unlocked after the fault.
LockInv ==
    /\ wpc \in {"activate", "sib", "signature"} /\ pc = "ret" => ret # "ErrLocked"
    /\ wpc = "unlock" /\ pc = "unlock" => tgt.locked \/ faults = 0

\* When the target starts in time after every reset that is still to come.
Prompt == Undisturbed /\ (~wasLocked \/ faults = MaxFaults)
PromptInv == Prompt => ConnectQuiet
UnlockInv == Undisturbed /\ ~wasLocked => wpc # "unlock"

\* A Flash whose file is refused does not get to the flash.
RefusedInv ==
    op = "Flash" /\ file = BadFile =>
        Calm /\ wpc \notin {"erase", "write", "write_page", "verify", "verify_page", "disconnect"}

\* What a Flash that reports UpdiOk has left.
ProgrammedInv ==
    wpc \in {"disconnect", "idle"} /\ op = "Flash" /\ result = "Ok" =>
        file # BadFile /\ Calm /\ EqualUpTo(file.len) /\ ~tgt.locked

SingleFaultInv == KeyInv /\ LockInv /\ PromptInv /\ UnlockInv /\ RefusedInv /\ ProgrammedInv

-----------------------------------------------------------------------------
(* The ground                                                              *)

\* A step of a function uses a fault up or none, and a poll loop that ends
\* forgets what it has used.
PollStarts == pc \notin PollPlaces => poll = NoPoll
Spent == faults' <= faults /\ PollStarts'

LEMMA FaultsLeft == ASSUME NvmTypeOK PROVE faults \in Nat /\ MaxFaults \in Nat
BY NvmAssumption DEF NvmTypeOK

LEMMA TakeSpends ==
    ASSUME NEW o, o.fault \in {0, 1}, Take(o), faults \in Nat
    PROVE  faults' <= faults
BY DEF Take

LEMMA TrySpends ==
    ASSUME NEW outs \in SUBSET Outcomes, NEW here, NEW there, faults \in Nat, PollStarts,
           Try(here, outs, there) \/ Ignore(here, outs, there), here \notin PollPlaces
    PROVE  Spent
<1>1. PICK o \in outs : Take(o)
  BY DEF Try, Ignore
<1>2. faults' <= faults
  BY <1>1, TakeSpends DEF Outcomes
<1> QED BY <1>2 DEF Spent, PollStarts, Try, Ignore

LEMMA LdcsSpends ==
    ASSUME NEW o \in Ldcs(tgt), Take(o), faults \in Nat, PollStarts, pc \notin PollPlaces, poll' = poll
    PROVE  Spent
<1>1. o.fault \in {0, 1}
  BY DEF Ldcs, Load, Out
<1> QED BY <1>1, TakeSpends DEF Spent, PollStarts

LEMMA WaitSpends ==
    ASSUME NEW here \in PollPlaces, NEW timeout, NEW onOk, NEW onError, faults \in Nat,
           WaitUnlocked(here, timeout, onOk, onError) \/ WaitReady(here, timeout, onOk, onError)
    PROVE  Spent
<1>1. PICK o \in Ldcs(tgt) \cup LdByte(tgt) : Take([o EXCEPT !.tgt = Elapse(@, CostOf(o.st))])
  BY DEF WaitUnlocked, WaitReady
<1>2. [o EXCEPT !.tgt = Elapse(@, CostOf(o.st))].fault \in {0, 1}
  BY DEF Ldcs, LdByte, Load, Out
<1>3. faults' <= faults
  BY <1>1, <1>2 DEF Take
<1>4. pc' = here \/ poll' = NoPoll
  BY DEF WaitUnlocked, WaitReady
<1> QED BY <1>3, <1>4 DEF Spent, PollStarts

LEMMA CommandSpends ==
    ASSUME NvmTypeOK, NEW u \in Targets, NEW here, NEW there, PollStarts,
           Command(here, u, there), here \notin PollPlaces
    PROVE  Spent
<1> DEFINE refused == {[o EXCEPT !.fault = 1] : o \in StByte(tgt, Refuse(tgt))}
<1>1. tgt \in Targets /\ Refuse(tgt) \in Targets /\ faults \in Nat
  <2>1. tgt \in Targets /\ faults \in Nat
    BY FaultsLeft DEF NvmTypeOK
  <2> QED BY <2>1 DEF Refuse, Targets
<1>2. StByte(tgt, u) \in SUBSET Outcomes /\ StByte(tgt, Refuse(tgt)) \in SUBSET Outcomes
  BY <1>1, CallOutcomes
<1>3. refused \in SUBSET Outcomes
  BY <1>2 DEF Outcomes
<1>4. Try(here, StByte(tgt, u) \cup refused, there)
  BY DEF Command
<1> HIDE DEF refused
<1> QED BY <1>1, <1>2, <1>3, <1>4, TrySpends

\* The places that are no poll loops.
LEMMA NotPolling ==
    /\ ActivatePlaces \cap PollPlaces = {} /\ ReadPlaces \cap PollPlaces = {}
    /\ {"hold", "enter", "nvm_key", "nvm_key_status", "apply", "release", "confirm", "leave",
        "leave_release", "leave_disable", "unlock", "erase_key_status", "erase_apply",
        "erase_release", "chip_erase_cmd", "write_clear", "write_fill", "write_cmd", "nocmd",
        "ret"} \cap PollPlaces = {}
    /\ {"wait_unlocked", "erase_wait", "chip_erase", "chip_erase_wait", "write_page",
        "write_clear_wait", "write_wait"} \subseteq PollPlaces
BY DEF ActivatePlaces, ReadPlaces, PollPlaces

LEMMA ProgmodeSpends ==
    ASSUME NvmTypeOK, PollStarts, Activate \/ EnterProgmode \/ LeaveProgmode \/ Unlock
    PROVE  Spent
<1>1. /\ tgt \in Targets /\ faults \in Nat
      /\ Break(tgt) \in Targets /\ DoubleBreak(tgt) \in Targets /\ SetRsd(tgt, FALSE) \in Targets
      /\ HoldReset(tgt) \in Targets /\ Disable(tgt) \in Targets
      /\ \A ms \in Nat : ReleaseReset(tgt, ms) \in Targets
  BY FaultsLeft, ControlType, 0 \in Nat, FALSE \in BOOLEAN, "NVMProg" \in {"NVMProg", "NVMErase"}
     DEF NvmTypeOK
<1>2. ASSUME NEW here, NEW there, here \notin PollPlaces,
             \/ \E ms \in IF tgt.eraseKey THEN UnlockTimes ELSE BootTimes :
                   Ignore(here, Stcs(tgt, ReleaseReset(tgt, ms)), there)
             \/ Ignore(here, Stcs(tgt, HoldReset(tgt)), there)
      PROVE  Spent
  <2>1. CASE Ignore(here, Stcs(tgt, HoldReset(tgt)), there)
    BY <1>1, <1>2, <2>1, CallOutcomes, TrySpends
  <2>2. CASE \E ms \in IF tgt.eraseKey THEN UnlockTimes ELSE BootTimes :
               Ignore(here, Stcs(tgt, ReleaseReset(tgt, ms)), there)
    <3>1. PICK ms \in Nat : Ignore(here, Stcs(tgt, ReleaseReset(tgt, ms)), there)
      BY <2>2, NvmAssumption
    <3> QED BY <1>1, <1>2, <3>1, CallOutcomes, TrySpends
  <2> QED BY <1>2, <2>1, <2>2
<1>3. CASE Activate
  <2>1. pc \notin PollPlaces
    BY <1>3, ControlFlow, NotPolling
  <2>2. ASSUME NEW here, NEW ctrla, NEW check, InitCtrlB(here, ctrla, check)
        PROVE  Spent
    <3>1. PICK o \in Stcs(tgt, tgt) : Take(o)
      BY <2>2 DEF InitCtrlB
    <3>2. o.fault \in {0, 1}
      BY DEF Stcs, Send, Out
    <3> QED BY <1>1, <2>1, <2>2, <3>1, <3>2, TakeSpends DEF InitCtrlB, Spent, PollStarts
  <2>3. ASSUME NEW here, NEW check, InitCtrlA(here, check)
        PROVE  Spent
    BY <1>1, <2>1, <2>3, CallOutcomes, TrySpends DEF InitCtrlA, Ignore
  <2>4. CASE InitialBreak
    BY <1>1, <2>1, <2>4, CallOutcomes, TrySpends DEF InitialBreak, Ignore
  <2>5. CASE CheckDatalink \/ CheckDatalinkAgain
    BY <1>1, <2>1, <2>5, LdcsSpends DEF CheckDatalink, CheckDatalinkAgain
  <2>6. CASE SendDoubleBreak
    <3>1. {Out(DoubleBreak(tgt), "Ok", 0), Out(tgt, "Ok", 1)} \in SUBSET Outcomes
      BY <1>1 DEF Out, Outcomes, Statuses
    <3> QED BY <1>1, <2>1, <2>6, <3>1, TrySpends DEF SendDoubleBreak, Ignore
  <2>7. CASE ReadSibInfo
    BY <1>1, <2>1, <2>7, CallOutcomes, TrySpends DEF ReadSibInfo, Try
  <2> QED BY <1>3, <2>2, <2>3, <2>4, <2>5, <2>6, <2>7 DEF Activate
<1>4. CASE EnterProgmode
  <2>1. CASE AlreadyInProgmode \/ ConfirmProgmode
    BY <1>1, <2>1, LdcsSpends, NotPolling DEF AlreadyInProgmode, ConfirmProgmode
  <2>2. CASE \/ Try("hold", Stcs(tgt, HoldReset(tgt)), "nvm_key")
             \/ Try("nvm_key", Key(tgt, "NVMProg"), "nvm_key_status")
    BY <1>1, <2>2, CallOutcomes, TrySpends, NotPolling
  <2>3. CASE TryBit("nvm_key_status", tgt.nvmKey, "apply")
    BY <1>1, <2>3, LdcsSpends, NotPolling DEF TryBit
  <2>4. CASE \/ Ignore("apply", Stcs(tgt, HoldReset(tgt)), "release")
             \/ \E ms \in IF tgt.eraseKey THEN UnlockTimes ELSE BootTimes :
                   Ignore("release", Stcs(tgt, ReleaseReset(tgt, ms)), "wait_unlocked")
    BY <1>2, <2>4, NotPolling
  <2>5. CASE WaitUnlocked("wait_unlocked", 100, "confirm", "ErrLocked")
    BY <1>1, <2>5, WaitSpends, NotPolling
  <2> QED BY <1>4, <2>1, <2>2, <2>3, <2>4, <2>5 DEF EnterProgmode
<1>5. CASE LeaveProgmode
  <2>1. CASE \/ Ignore("leave", Stcs(tgt, HoldReset(tgt)), "leave_release")
             \/ \E ms \in IF tgt.eraseKey THEN UnlockTimes ELSE BootTimes :
                   Ignore("leave_release", Stcs(tgt, ReleaseReset(tgt, ms)), "leave_disable")
    BY <1>2, <2>1, NotPolling
  <2>2. CASE Try("leave_disable", Stcs(tgt, Disable(tgt)), "ret")
    BY <1>1, <2>2, CallOutcomes, TrySpends, NotPolling
  <2> QED BY <1>5, <2>1, <2>2 DEF LeaveProgmode
<1>6. CASE Unlock
  <2>1. CASE Try("unlock", Key(tgt, "NVMErase"), "erase_key_status")
    BY <1>1, <2>1, CallOutcomes, TrySpends, NotPolling
  <2>2. CASE TryBit("erase_key_status", tgt.eraseKey, "erase_apply")
    BY <1>1, <2>2, LdcsSpends, NotPolling DEF TryBit
  <2>3. CASE \/ Ignore("erase_apply", Stcs(tgt, HoldReset(tgt)), "erase_release")
             \/ \E ms \in IF tgt.eraseKey THEN UnlockTimes ELSE BootTimes :
                   Ignore("erase_release", Stcs(tgt, ReleaseReset(tgt, ms)), "erase_wait")
    BY <1>2, <2>3, NotPolling
  <2>4. CASE WaitUnlocked("erase_wait", 500, "ret", "ErrNvm")
    BY <1>1, <2>4, WaitSpends, NotPolling
  <2> QED BY <1>6, <2>1, <2>2, <2>3, <2>4 DEF Unlock
<1> QED BY <1>3, <1>4, <1>5, <1>6

LEMMA MemorySpends ==
    ASSUME NvmTypeOK, PollStarts, Reads \/ EraseChip \/ WriteFlashPage \/ ClearCommand
    PROVE  Spent
<1>1. tgt \in Targets /\ faults \in Nat /\ arg.page \in Pages /\ arg.data \in Content
      /\ "blank" \in Content
  BY FaultsLeft DEF NvmTypeOK, Content
<1>2. CASE Reads
  <2>1. ASSUME NEW here, NEW outs \in SUBSET Outcomes, NEW value, Read(here, outs, value)
        PROVE  faults' <= faults /\ poll' = poll
    <3>1. PICK o \in outs : Take(o)
      BY <2>1 DEF Read
    <3> QED BY <1>1, <2>1, <3>1, TakeSpends DEF Outcomes, Read
  <2>2. faults' <= faults /\ poll' = poll
    BY <1>2, <2>1, CallOutcomes DEF Reads
  <2> QED BY <1>2, <2>2, ControlFlow, NotPolling DEF Spent, PollStarts
<1>3. CASE EraseChip
  <2>1. CASE WaitReady("chip_erase", 100, "chip_erase_cmd", "ret")
             \/ WaitReady("chip_erase_wait", 500, Finish, Finish)
    BY <1>1, <2>1, WaitSpends, NotPolling
  <2>2. CASE \E ms \in EraseTimes :
               Command("chip_erase_cmd", ChipErase(tgt, ms), "chip_erase_wait")
    <3>1. PICK ms \in Nat : Command("chip_erase_cmd", ChipErase(tgt, ms), "chip_erase_wait")
      BY <2>2, NvmAssumption
    <3>2. ChipErase(tgt, ms) \in Targets
      BY <1>1, StoreType
    <3> QED BY <3>1, <3>2, CommandSpends, NotPolling
  <2> QED BY <1>3, <2>1, <2>2 DEF EraseChip
<1>4. CASE WriteFlashPage
  <2>1. CASE \/ WaitReady("write_page", 100, "write_clear", "ret")
             \/ WaitReady("write_clear_wait", 100, "write_fill", "ret")
             \/ WaitReady("write_wait", 100, Finish, Finish)
    BY <1>1, <2>1, WaitSpends, NotPolling
  <2>2. CASE Command("write_clear", ClearBuffer(tgt), "write_clear_wait")
    <3>1. ClearBuffer(tgt) \in Targets
      BY <1>1, StoreType, 0 \in Nat
    <3> QED BY <2>2, <3>1, CommandSpends, NotPolling
  <2>3. CASE Try("write_fill", WriteDataWords(tgt, arg.page, arg.data), "write_cmd")
    BY <1>1, <2>3, CallOutcomes, TrySpends, NotPolling
  <2>4. CASE \E ms \in WriteTimes :
               Command("write_cmd", WritePage(tgt, ms), "write_wait")
    <3>1. PICK ms \in Nat : Command("write_cmd", WritePage(tgt, ms), "write_wait")
      BY <2>4, NvmAssumption
    <3>2. WritePage(tgt, ms) \in Targets
      BY <1>1, StoreType
    <3> QED BY <3>1, <3>2, CommandSpends, NotPolling
  <2> QED BY <1>4, <2>1, <2>2, <2>3, <2>4 DEF WriteFlashPage
<1>5. CASE ClearCommand
  BY <1>1, <1>5, CallOutcomes, TrySpends, NotPolling DEF ClearCommand
<1> QED BY <1>2, <1>3, <1>4, <1>5

\* What a step of a function does to the target.
LEMMA MachineStep ==
    ASSUME SessionInv, NvmStep, UNCHANGED <<workerVars, history>>
    PROVE  Controlled(tgt, tgt') \/ Kept(tgt, tgt')
<1>1. NvmTypeOK /\ CallInv /\ ConnectInv /\ ContentInv /\ (tgt.prog => ~tgt.locked)
      /\ tgt \in Targets
  BY DEF SessionInv, TypeOK, NvmTypeOK, ConnectInv
<1>2. CalledStep
  BY <1>1, CallStep
<1>3. CASE Activate \/ EnterProgmode \/ LeaveProgmode \/ Unlock
  BY <1>1, <1>3, ControlStep
<1>4. CASE Reads
  BY <1>4, ReadStep DEF Kept
<1>5. CASE wpc = "erase" /\ (EraseChip \/ ClearCommand)
  BY <1>1, <1>5, EraseChipStep DEF ContentInv
<1>6. CASE wpc = "write_page" /\ (WriteFlashPage \/ ClearCommand)
  BY <1>1, <1>6, ArgumentsStay, WritePageStep DEF ContentInv, SessionInv, workerVars
<1> QED BY <1>2, <1>3, <1>4, <1>5, <1>6 DEF CalledStep

\* The worker moves between two calls, and does nothing to the target itself.
LEMMA WorkerKeeps ==
    ASSUME DoConnect \/ Operation
    PROVE  pc = "ret" /\ UNCHANGED <<tgt, faults, ret, val, poll, op, file>>
<1>1. CASE DoConnect
  <2>1. \A st : ConnectFailed(st) => UNCHANGED <<tgt, faults, ret, val, poll, op, file>>
    BY DEF ConnectFailed, Invoke, Return, nvmVars
  <2>2. CASE EnsureTransport \/ SessionConnect \/ Identified
    BY <2>1, <2>2 DEF EnsureTransport, SessionConnect, Identified, At, Invoke, nvmVars
  <2>3. CASE Activated \/ SibRead \/ Entered
    BY <2>1, <2>3 DEF Activated, SibRead, Entered, At, Call, Invoke
  <2>4. CASE Unlocked
    BY <2>4 DEF Unlocked, At, Goto, Return, nvmVars
  <2> QED BY <1>1, <2>2, <2>3, <2>4 DEF DoConnect
<1>2. CASE Operation
  <2>1. CASE Body \/ ParseHexFile \/ Erased
    BY <2>1 DEF Body, ParseHexFile, Erased, At, Call, Goto, Return, DisconnectAndReturn, Invoke,
       nvmVars
  <2>2. CASE WriteFlash \/ PageWritten \/ VerifyFlash \/ PageVerified
    BY <2>2 DEF WriteFlash, PageWritten, VerifyFlash, PageVerified, At, CallPage, Goto, Return,
       DisconnectAndReturn, Invoke, nvmVars
  <2>3. CASE DumpFlash \/ PageDumped \/ SaveDump \/ ReadFuses \/ FuseRead \/ Disconnected
    BY <2>3 DEF DumpFlash, PageDumped, SaveDump, ReadFuses, FuseRead, Disconnected, At, Call,
       CallPage, Goto, Return, DisconnectAndReturn, Invoke, nvmVars
  <2> QED BY <1>2, <2>1, <2>2, <2>3 DEF Operation
<1> QED BY <1>1, <1>2

LEMMA GroundInvNvm ==
    ASSUME SessionInv, GroundInv, NvmStep, UNCHANGED <<workerVars, history>>
    PROVE  GroundInv' /\ faults' <= faults
<1>1. NvmTypeOK /\ CallInv /\ PollStarts /\ faults \in Nat /\ budget \in Nat
  BY NvmAssumption, FaultsLeft DEF SessionInv, TypeOK, GroundInv, PollStarts
<1>2. Spent
  BY <1>1, CallStep, ProgmodeSpends, MemorySpends DEF CalledStep
<1>3. UNCHANGED <<op, budget, wasLocked>>
  BY DEF workerVars, history
<1>4. faults' \in Nat
  <2>1. NvmTypeOK'
    BY <1>1, NvmStepType
  <2> QED BY <2>1, NvmAssumption DEF NvmTypeOK
<1>5. faults' <= budget'
  BY <1>1, <1>2, <1>3, <1>4 DEF Spent, GroundInv
<1>6. Controlled(tgt, tgt') \/ Kept(tgt, tgt')
  BY MachineStep
<1>7. /\ tgt'.chip = "none" => tgt'.dis
      /\ tgt'.prog => ~tgt'.rst
      /\ op' # "None" /\ ~wasLocked' => ~tgt'.locked
  BY <1>3, <1>6 DEF GroundInv, Controlled, Kept
<1> QED BY <1>2, <1>5, <1>7 DEF GroundInv, Spent, PollStarts

LEMMA GroundInvNext ==
    ASSUME SessionInv, GroundInv, [Next]_vars
    PROVE  GroundInv'
<1>1. TypeOK /\ NvmTypeOK /\ CallInv /\ tgt \in Targets /\ faults \in Nat /\ budget \in Nat
  BY NvmAssumption, FaultsLeft DEF SessionInv, TypeOK, NvmTypeOK
<1>2. CASE NvmStep /\ UNCHANGED <<workerVars, history>>
  BY <1>2, GroundInvNvm
<1>3. CASE (DoConnect \/ Operation) /\ UNCHANGED history
  <2>1. pc = "ret" /\ UNCHANGED <<tgt, faults, poll, op, budget, wasLocked>>
    BY <1>3, WorkerKeeps DEF history
  <2>2. poll' = NoPoll
    BY <2>1, NotPolling DEF GroundInv
  <2> QED BY <2>1, <2>2 DEF GroundInv
<1>4. CASE PowerCycle /\ UNCHANGED <<workerVars, history>>
  <2>1. /\ tgt'.chip = tgt.chip /\ tgt'.locked = tgt.locked /\ tgt'.dis /\ ~tgt'.prog
        /\ faults' = faults - 1 /\ faults > 0
        /\ UNCHANGED <<pc, poll, op, budget, wasLocked>>
    BY <1>1, <1>4, PowerStep DEF PowerCycle, workerVars, history
  <2>2. faults' <= budget'
    BY <1>1, <2>1 DEF GroundInv
  <2> QED BY <2>1, <2>2 DEF GroundInv
<1>5. ASSUME NEW o \in UserOps, Start(o) PROVE GroundInv'
  <2>1. /\ tgt' = Settle(tgt) /\ budget' = faults /\ wasLocked' = tgt.locked
        /\ UNCHANGED <<faults, pc, poll>>
    BY <1>5 DEF Start
  <2>2. /\ tgt'.chip = tgt.chip /\ tgt'.dis = tgt.dis /\ tgt'.prog = tgt.prog
        /\ tgt'.rst = tgt.rst /\ tgt'.locked = tgt.locked
    BY <1>1, <2>1 DEF Settle, Targets
  <2> QED BY <1>1, <2>1, <2>2 DEF GroundInv
<1>6. CASE Relaunch
  BY <1>6 DEF Relaunch, history, GroundInv
<1>7. CASE SwapTarget
  BY <1>7 DEF SwapTarget, FreshTargets, Fresh, GroundInv
<1>8. CASE UNCHANGED vars
  BY <1>8 DEF GroundInv, vars, nvmVars, workerVars, history
<1> QED BY <1>2, <1>3, <1>4, <1>5, <1>6, <1>7, <1>8 DEF Next, WorkerStep, Environment

LEMMA GroundInvInit == Init => GroundInv
<1> SUFFICES ASSUME Init PROVE GroundInv
  OBVIOUS
<1>1. poll = NoPoll /\ op = "None" /\ faults = MaxFaults /\ budget = MaxFaults
      /\ tgt.dis = TRUE /\ tgt.prog = FALSE
  BY DEF Init, NvmInit, FreshTargets, Fresh
<1> QED BY <1>1, NvmAssumption DEF GroundInv

-----------------------------------------------------------------------------
(* Calls that nothing disturbs                                             *)

\* A frame arrives, and its echo comes back.
LEMMA QuietSend ==
    ASSUME NEW t, NEW u, NEW o \in Send(t, u), Take(o), faults \in Nat, faults' = faults
    PROVE  tgt' = u /\ o.st = "Ok"
<1>1. o.fault = 0
  BY DEF Take, Send, Out
<1> QED BY <1>1 DEF Take, Send, Out

LEMMA QuietIgnore ==
    ASSUME NEW u, NEW here, NEW there, Ignore(here, Send(tgt, u), there),
           faults \in Nat, faults' = faults
    PROVE  pc = here /\ tgt' = u /\ pc' = there /\ ret' = ret
BY QuietSend DEF Ignore

LEMMA QuietTry ==
    ASSUME NEW u, NEW here, NEW there, Try(here, Send(tgt, u), there),
           faults \in Nat, faults' = faults
    PROVE  pc = here /\ tgt' = u /\ pc' = there /\ ret' = "Ok"
BY QuietSend DEF Try

\* A load is answered by a target that is there to answer.
LEMMA QuietLoad ==
    ASSUME NEW answers \in BOOLEAN, NEW o \in Load(tgt, answers), Take(o),
           faults \in Nat, faults' = faults
    PROVE  tgt' = tgt /\ o.st = IF answers THEN "Ok" ELSE "ErrTimeout"
<1>1. o.fault = 0
  BY DEF Take, Load, Out
<1> QED BY <1>1 DEF Take, Load, Out

LEMMA QuietTryBit ==
    ASSUME NEW here, NEW bit, NEW there, TryBit(here, bit, there), ~tgt.dis, bit,
           faults \in Nat, faults' = faults
    PROVE  pc = here /\ tgt' = tgt /\ pc' = there /\ ret' = "Ok"
BY QuietLoad, TRUE \in BOOLEAN, Responds(tgt) = TRUE DEF TryBit, Ldcs, Responds

-----------------------------------------------------------------------------
(* Polling in time                                                         *)

LEMMA FewerPolls ==
    ASSUME NEW i \in Nat, NEW m \in Nat, NEW p \in Nat \ {0}, NEW b \in Nat, b > 0,
           i * p + b <= m * p
    PROVE  i < m
<1> SUFFICES ASSUME m <= i PROVE FALSE
  OBVIOUS
<1>1. PICK d \in Nat : i = m + d
  BY i - m \in Nat
<1>2. i * p = m * p + d * p /\ d * p \in Nat /\ m * p \in Nat
  BY <1>1
<1> QED BY <1>2

LEMMA FitsInTime == ASSUME NEW ms \in Nat, NEW timeout, Fits(ms, timeout)
                    PROVE  InTime(NoPoll, ms, timeout)
<1>1. 0 * PollMs = 0
  BY PollAssumption
<1> QED BY <1>1, PollAssumption DEF Fits, InTime, NoPoll

\* A poll that was in time and finds the target not yet ready is not the last one,
\* and the next one is in time.
LEMMA PollInTime ==
    ASSUME NvmTypeOK, NEW b \in Nat, b > 0, NEW timeout \in Nat, InTime(poll, b, timeout)
    PROVE  /\ ~Expired(PollMs, timeout)
           /\ PollAgain(PollMs) => InTime(poll', Less(b, PollMs), timeout)
<1> DEFINE P == PollMs
           i == poll.iters
           M == MaxPollIters - 1
           used == i * P
           all == M * P
<1>1. P \in Nat /\ P > 0 /\ i \in Nat /\ M \in Nat /\ poll.ms \in Nat /\ HasClock \in BOOLEAN
      /\ MaxPollIters = M + 1
  BY PollAssumption, NvmAssumption DEF NvmTypeOK
<1>2. used \in Nat /\ all \in Nat /\ (i + 1) * P = used + P
  BY <1>1
<1>3. (HasClock => poll.ms + b + P <= timeout) /\ used + b <= all
  BY DEF InTime
<1>4. i < M
  BY <1>1, <1>3, FewerPolls
<1>5. ~Expired(PollMs, timeout)
  BY <1>1, <1>3, <1>4 DEF Expired
<1>6. ASSUME PollAgain(PollMs) PROVE InTime(poll', Less(b, PollMs), timeout)
  <2>1. poll'.iters = i + 1 /\ (HasClock => poll'.ms = poll.ms + P)
    BY <1>6 DEF PollAgain
  <2>2. (i + 1) * P + (b - P) = used + b
    BY <1>1, <1>2
  <2>3. CASE b <= P
    BY <1>1, <2>3 DEF Less, InTime
  <2>4. CASE b > P
    <3>1. Less(b, P) = b - P
      BY <2>4 DEF Less
    <3>2. HasClock => poll'.ms + (b - P) + P <= timeout
      BY <1>1, <1>3, <2>1
    <3>3. poll'.iters * P + (b - P) <= all
      BY <1>3, <2>1, <2>2
    <3> QED BY <3>1, <3>2, <3>3 DEF InTime
  <2> QED BY <1>1, <2>3, <2>4
<1> QED BY <1>5, <1>6

\* wait_unlocked with a target that is there.
LEMMA QuietWaitUnlocked ==
    ASSUME NvmTypeOK, NEW here, NEW timeout \in Nat, NEW there, NEW failure,
           WaitUnlocked(here, timeout, there, failure), ~tgt.dis, faults' = faults
    PROVE  /\ pc = here /\ tgt' = Elapse(tgt, PollMs)
           /\ \/ ~LockStatus(tgt) /\ pc' = there /\ ret' = "Ok"
              \/ LockStatus(tgt) /\ pc' = "ret" /\ ret' = failure /\ Expired(PollMs, timeout)
              \/ LockStatus(tgt) /\ pc' = here /\ PollAgain(PollMs)
<1>1. faults \in Nat /\ Responds(tgt) = TRUE
  BY FaultsLeft DEF Responds
<1>2. PICK o \in Load(tgt, TRUE) :
        LET unlocked == o.st = "Ok" /\ ~LockStatus(tgt)
            expired  == ~unlocked /\ Expired(CostOf(o.st), timeout)
        IN  /\ Take([o EXCEPT !.tgt = Elapse(@, CostOf(o.st))])
            /\ ret' = IF expired THEN failure ELSE "Ok"
            /\ pc' = IF unlocked THEN there ELSE IF expired THEN "ret" ELSE here
            /\ IF unlocked \/ expired THEN poll' = NoPoll
                                      ELSE PollAgain(CostOf(o.st))
  BY <1>1 DEF WaitUnlocked, Ldcs
<1>3. [o EXCEPT !.tgt = Elapse(@, CostOf(o.st))].fault = o.fault
      /\ [o EXCEPT !.tgt = Elapse(@, CostOf(o.st))].tgt = Elapse(tgt, CostOf(o.st))
  BY DEF Load, Out
<1>4. o.fault = 0
  BY <1>1, <1>2, <1>3 DEF Take, Load, Out
<1>5. o.st = "Ok" /\ CostOf(o.st) = PollMs
  BY <1>4 DEF Load, Out, CostOf
<1>6. tgt' = Elapse(tgt, PollMs)
  BY <1>2, <1>3, <1>5 DEF Take
<1> QED BY <1>2, <1>5, <1>6 DEF WaitUnlocked

\* When the target starts in time it answers.
LEMMA UnlockedInTime ==
    ASSUME NvmTypeOK, NEW here, NEW timeout \in Nat, NEW there, NEW failure,
           WaitUnlocked(here, timeout, there, failure), ~tgt.dis, faults' = faults,
           ~tgt.locked, ~tgt.rst, InTime(poll, tgt.boot, timeout)
    PROVE  /\ pc = here /\ tgt' = Elapse(tgt, PollMs)
           /\ \/ tgt.boot = 0 /\ pc' = there /\ ret' = "Ok"
              \/ tgt.boot > 0 /\ pc' = here /\ InTime(poll', tgt'.boot, timeout)
<1>1. tgt.boot \in Nat /\ (LockStatus(tgt) <=> tgt.boot > 0)
      /\ Elapse(tgt, PollMs).boot = Less(tgt.boot, PollMs)
  BY DEF NvmTypeOK, Targets, LockStatus, Elapse
<1>2. tgt.boot > 0 => /\ ~Expired(PollMs, timeout)
                      /\ PollAgain(PollMs) => InTime(poll', Less(tgt.boot, PollMs), timeout)
  BY <1>1, PollInTime
<1>3. /\ pc = here /\ tgt' = Elapse(tgt, PollMs)
      /\ \/ ~LockStatus(tgt) /\ pc' = there /\ ret' = "Ok"
         \/ LockStatus(tgt) /\ pc' = "ret" /\ ret' = failure /\ Expired(PollMs, timeout)
         \/ LockStatus(tgt) /\ pc' = here /\ PollAgain(PollMs)
  BY QuietWaitUnlocked
<1>4. tgt.boot = 0 \/ tgt.boot > 0
  BY <1>1
<1> QED BY <1>1, <1>2, <1>3, <1>4

-----------------------------------------------------------------------------
(* The way in                                                              *)

LEMMA QuietEffects ==
    ASSUME NEW t \in Targets
    PROVE  /\ Break(t).chip = t.chip /\ Break(t).dis = (t.dis /\ t.chip = "none")
           /\ DoubleBreak(t).chip = t.chip /\ DoubleBreak(t).dis = (t.dis /\ t.chip = "none")
           /\ SetRsd(t, FALSE).chip = t.chip /\ SetRsd(t, FALSE).dis = t.dis
           /\ ~t.dis => SetRsd(t, FALSE).rsd = FALSE
BY DEF Break, DoubleBreak, SetRsd, Responds, Targets

LEMMA ActivateQuietStep ==
    ASSUME NvmTypeOK, GroundInv, ActivateQuiet, Activate, faults' = faults
    PROVE  ActivateQuiet'
<1>1. tgt \in Targets /\ tgt.dis \in BOOLEAN /\ faults \in Nat
      /\ (tgt.chip = "none" => tgt.dis)
  BY FaultsLeft DEF NvmTypeOK, GroundInv, Targets
<1>2. CASE InitialBreak
  <2>1. pc' = "ctrlb" /\ tgt' = Break(tgt)
    BY <1>1, <1>2, QuietIgnore DEF InitialBreak
  <2> QED BY <1>1, <2>1, QuietEffects DEF ActivateQuiet
<1>3. CASE InitCtrlB("ctrlb", "ctrla", "check")
  <2>1. pc = "ctrlb" /\ pc' = "ctrla" /\ tgt' = tgt
    BY <1>1, <1>3, QuietSend DEF InitCtrlB, Stcs
  <2> QED BY <2>1 DEF ActivateQuiet
<1>4. CASE InitCtrlA("ctrla", "check")
  <2>1. pc = "ctrla" /\ pc' = "check" /\ tgt' = SetRsd(tgt, FALSE)
    BY <1>1, <1>4, QuietIgnore DEF InitCtrlA, Stcs
  <2> QED BY <1>1, <2>1, QuietEffects DEF ActivateQuiet
<1>5. CASE CheckDatalink
  <2>1. PICK o \in Ldcs(tgt) :
          Take(o) /\ ret' = "Ok" /\ pc' = IF o.st = "Ok" THEN "ret" ELSE "double_break"
    BY <1>5 DEF CheckDatalink
  <2>2. tgt' = tgt /\ o.st = IF ~tgt.dis THEN "Ok" ELSE "ErrTimeout"
    BY <1>1, <2>1, QuietLoad DEF Ldcs, Responds
  <2> QED BY <1>1, <1>5, <2>1, <2>2 DEF CheckDatalink, ActivateQuiet
<1>6. CASE SendDoubleBreak
  <2>1. pc = "double_break" /\ tgt' = DoubleBreak(tgt) /\ pc' = "ctrlb2"
    BY <1>1, <1>6 DEF SendDoubleBreak, Ignore, Take, Out
  <2> QED BY <1>1, <2>1, QuietEffects DEF ActivateQuiet
<1>7. CASE InitCtrlB("ctrlb2", "ctrla2", "check2")
  <2>1. pc = "ctrlb2" /\ pc' = "ctrla2" /\ tgt' = tgt
    BY <1>1, <1>7, QuietSend DEF InitCtrlB, Stcs
  <2> QED BY <2>1 DEF ActivateQuiet
<1>8. CASE InitCtrlA("ctrla2", "check2")
  <2>1. pc = "ctrla2" /\ pc' = "check2" /\ tgt' = SetRsd(tgt, FALSE)
    BY <1>1, <1>8, QuietIgnore DEF InitCtrlA, Stcs
  <2> QED BY <1>1, <2>1, QuietEffects DEF ActivateQuiet
<1>9. CASE CheckDatalinkAgain
  <2>1. PICK o \in Ldcs(tgt) : Take(o) /\ ret' = IF o.st = "Ok" THEN "Ok" ELSE "ErrTimeout"
    BY <1>9 DEF CheckDatalinkAgain
  <2>2. tgt' = tgt /\ o.st = IF ~tgt.dis THEN "Ok" ELSE "ErrTimeout"
    BY <1>1, <2>1, QuietLoad DEF Ldcs, Responds
  <2> QED BY <1>1, <1>9, <2>1, <2>2 DEF CheckDatalinkAgain, ActivateQuiet
<1>10. CASE ReadSibInfo
  <2>1. PICK o \in ReadSib(tgt) : Take(o) /\ ret' = o.st
    BY <1>10 DEF ReadSibInfo, Try
  <2>2. pc = "sib"
    BY <1>10 DEF ReadSibInfo, Try
  <2>3. tgt' = tgt /\ (tgt.dis => o.st = "ErrTimeout")
    BY <1>1, <2>1 DEF ReadSib, Load, Out, Take, Responds
  <2> QED BY <1>1, <2>1, <2>2, <2>3 DEF ActivateQuiet
<1> QED BY <1>2, <1>3, <1>4, <1>5, <1>6, <1>7, <1>8, <1>9, <1>10 DEF Activate

LEMMA SibQuietStep ==
    ASSUME NvmTypeOK, SibQuiet, Activate, faults' = faults
    PROVE  SibQuiet'
<1>1. tgt \in Targets /\ tgt.dis = FALSE /\ faults \in Nat /\ pc \in {"sib", "ret"}
  BY FaultsLeft DEF NvmTypeOK, SibQuiet, Linked, Targets
<1>2. ReadSibInfo
  BY <1>1 DEF Activate, InitialBreak, InitCtrlB, InitCtrlA, CheckDatalink, SendDoubleBreak,
     CheckDatalinkAgain, Ignore
<1>3. PICK o \in ReadSib(tgt) : Take(o) /\ ret' = o.st /\ pc' = "ret"
  BY <1>2 DEF ReadSibInfo, Try
<1>4. tgt' = tgt /\ o.st = "Ok"
  BY <1>1, <1>3 DEF ReadSib, Load, Out, Take, Responds
<1> QED BY <1>3, <1>4 DEF SibQuiet, Linked

LEMMA SignatureQuietStep ==
    ASSUME NvmTypeOK, GroundInv, SignatureQuiet, Reads, pc = "signature", faults' = faults
    PROVE  SignatureQuiet'
<1>1. tgt.dis \in BOOLEAN /\ faults \in Nat
  BY FaultsLeft DEF NvmTypeOK, Targets
<1>2. Acknowledges(tgt)
  BY DEF SignatureQuiet, Linked, InProgmode, GroundInv, Acknowledges, Accessible, Responds,
     NvmProgStatus
<1>3. Read("signature", ReadData(tgt), tgt.chip)
  BY DEF Reads, Read
<1>4. tgt' = tgt /\ ret' = "Ok"
  BY <1>1, <1>2, <1>3 DEF Read, ReadData, Out, Take
<1> QED BY <1>4 DEF SignatureQuiet, Linked, InProgmode

\* What keys, resets and time do to a target that answers.
SameLink(t, u) == u.chip = t.chip /\ u.dis = t.dis /\ u.rsd = t.rsd

LEMMA ResetEffects ==
    ASSUME NEW t \in Targets, ~t.dis
    PROVE  /\ SameLink(t, HoldReset(t)) /\ HoldReset(t).rst = TRUE /\ HoldReset(t).prog = FALSE
           /\ HoldReset(t).locked = t.locked /\ HoldReset(t).flash = t.flash
           /\ HoldReset(t).nvmKey = t.nvmKey /\ HoldReset(t).eraseKey = t.eraseKey
           /\ SameLink(t, TakeKey(t, "NVMProg")) /\ TakeKey(t, "NVMProg").nvmKey = TRUE
           /\ TakeKey(t, "NVMProg").eraseKey = t.eraseKey
           /\ TakeKey(t, "NVMProg").locked = t.locked /\ TakeKey(t, "NVMProg").flash = t.flash
           /\ SameLink(t, TakeKey(t, "NVMErase")) /\ TakeKey(t, "NVMErase").eraseKey = TRUE
           /\ TakeKey(t, "NVMErase").locked = t.locked /\ TakeKey(t, "NVMErase").flash = t.flash
<1>1. /\ SameLink(t, HoldReset(t)) /\ HoldReset(t).rst = TRUE /\ HoldReset(t).prog = FALSE
      /\ HoldReset(t).locked = t.locked /\ HoldReset(t).flash = t.flash
      /\ HoldReset(t).nvmKey = t.nvmKey /\ HoldReset(t).eraseKey = t.eraseKey
  BY DEF SameLink, HoldReset, Responds, Targets
<1>2. /\ SameLink(t, TakeKey(t, "NVMProg")) /\ TakeKey(t, "NVMProg").nvmKey = TRUE
      /\ TakeKey(t, "NVMProg").eraseKey = t.eraseKey
      /\ TakeKey(t, "NVMProg").locked = t.locked /\ TakeKey(t, "NVMProg").flash = t.flash
      /\ SameLink(t, TakeKey(t, "NVMErase")) /\ TakeKey(t, "NVMErase").eraseKey = TRUE
      /\ TakeKey(t, "NVMErase").locked = t.locked /\ TakeKey(t, "NVMErase").flash = t.flash
  BY DEF SameLink, TakeKey, Responds, Targets
<1> QED BY <1>1, <1>2

LEMMA WaitEffects ==
    ASSUME NEW t \in Targets, NEW ms \in Nat
    PROVE  /\ SameLink(t, Elapse(t, ms)) /\ Elapse(t, ms).rst = t.rst
           /\ Elapse(t, ms).prog = t.prog /\ Elapse(t, ms).locked = t.locked
           /\ Elapse(t, ms).boot = Less(t.boot, ms) /\ Elapse(t, ms).busy = Less(t.busy, ms)
           /\ Elapse(t, ms).flash = t.flash /\ Elapse(t, ms).buf = t.buf
           /\ Elapse(t, ms).eraseKey = t.eraseKey /\ Elapse(t, ms).wrerr = t.wrerr
BY DEF SameLink, Elapse, Targets

LEMMA ReleaseEffects ==
    ASSUME NEW t \in Targets, ~t.dis, t.rst, NEW ms \in Nat
    PROVE  LET u == ReleaseReset(t, ms)
               locked == t.locked /\ ~t.eraseKey
           IN  /\ SameLink(t, u) /\ u.rst = FALSE /\ u.boot = ms /\ u.locked = locked
               /\ u.prog = (t.nvmKey /\ ~locked) /\ u.nvmKey = FALSE /\ u.eraseKey = FALSE
               /\ u.flash = IF t.eraseKey THEN Filled("blank") ELSE t.flash
BY DEF SameLink, ReleaseReset, Responds, Targets

\* The time the target takes to start after the reset that programming mode needs.
StartTimes == IF tgt.eraseKey THEN UnlockTimes ELSE BootTimes
EntersInTime == pc = "release" => \A ms \in StartTimes : Fits(ms, 100)

LEMMA EnterQuietStep ==
    ASSUME NvmTypeOK, GroundInv, EnterQuiet, EntersInTime, EnterProgmode, faults' = faults
    PROVE  EnterQuiet'
<1>1. tgt \in Targets /\ tgt.dis = FALSE /\ faults \in Nat /\ Linked /\ 0 \in Nat
      /\ tgt.prog \in BOOLEAN /\ tgt.boot \in Nat
  BY FaultsLeft DEF NvmTypeOK, EnterQuiet, Linked, Targets
<1>2. ASSUME SameLink(tgt, tgt') PROVE Linked'
  BY <1>1, <1>2 DEF SameLink, Linked
<1>3. ASSUME NEW o \in Ldcs(tgt), Take(o)
      PROVE  tgt' = tgt /\ o.st = "Ok" /\ Linked'
  <2>1. tgt' = tgt /\ o.st = "Ok"
    BY <1>1, <1>3, QuietLoad DEF Ldcs, Responds
  <2> QED BY <1>1, <2>1 DEF Linked
<1>4. CASE AlreadyInProgmode
  <2>1. tgt' = tgt /\ ret' = "Ok" /\ Linked' /\ pc' = IF NvmProgStatus(tgt) THEN "ret" ELSE "hold"
    BY <1>3, <1>4 DEF AlreadyInProgmode
  <2> QED BY <1>1, <2>1 DEF EnterQuiet, InProgmode, NvmProgStatus
<1>5. CASE Try("hold", Stcs(tgt, HoldReset(tgt)), "nvm_key")
  <2>1. tgt' = HoldReset(tgt) /\ pc' = "nvm_key"
    BY <1>1, <1>5, QuietTry DEF Stcs
  <2> QED BY <1>1, <1>2, <2>1, ResetEffects DEF EnterQuiet
<1>6. CASE Try("nvm_key", Key(tgt, "NVMProg"), "nvm_key_status")
  <2>1. tgt' = TakeKey(tgt, "NVMProg") /\ pc' = "nvm_key_status"
    BY <1>1, <1>6, QuietTry DEF Key
  <2> QED BY <1>1, <1>2, <2>1, ResetEffects DEF EnterQuiet
<1>7. CASE TryBit("nvm_key_status", tgt.nvmKey, "apply")
  <2>1. tgt.nvmKey
    BY <1>7 DEF TryBit, EnterQuiet
  <2>2. tgt' = tgt /\ pc' = "apply"
    BY <1>1, <1>7, <2>1, QuietTryBit
  <2> QED BY <1>1, <2>1, <2>2 DEF EnterQuiet, Linked
<1>8. CASE Ignore("apply", Stcs(tgt, HoldReset(tgt)), "release")
  <2>1. pc = "apply" /\ tgt' = HoldReset(tgt) /\ pc' = "release"
    BY <1>1, <1>8, QuietIgnore DEF Stcs
  <2>2. tgt'.rst /\ tgt'.nvmKey
    BY <1>1, <2>1, ResetEffects DEF EnterQuiet
  <2> QED BY <1>1, <1>2, <2>1, <2>2, ResetEffects DEF EnterQuiet
<1>9. CASE \E ms \in IF tgt.eraseKey THEN UnlockTimes ELSE BootTimes :
             Ignore("release", Stcs(tgt, ReleaseReset(tgt, ms)), "wait_unlocked")
  <2>1. PICK ms \in StartTimes : Ignore("release", Stcs(tgt, ReleaseReset(tgt, ms)), "wait_unlocked")
    BY <1>9 DEF StartTimes
  <2>2. pc = "release" /\ tgt' = ReleaseReset(tgt, ms) /\ pc' = "wait_unlocked" /\ ms \in Nat
    BY <1>1, <2>1, NvmAssumption, QuietIgnore DEF Stcs, StartTimes
  <2>3. tgt.rst /\ tgt.nvmKey = TRUE
    BY <2>2 DEF EnterQuiet, NvmTypeOK, Targets
  <2>4. SameLink(tgt, tgt') /\ tgt'.rst = FALSE /\ tgt'.boot = ms /\ tgt'.prog = ~tgt'.locked
    BY <1>1, <2>2, <2>3, ReleaseEffects
  <2>5. poll' = NoPoll
    BY <2>1, <2>2, NotPolling DEF GroundInv, Ignore
  <2>6. InTime(poll', tgt'.boot, 100)
    BY <2>1, <2>2, <2>4, <2>5, FitsInTime DEF EntersInTime
  <2> QED BY <1>2, <2>2, <2>4, <2>6 DEF EnterQuiet
<1>10. CASE WaitUnlocked("wait_unlocked", 100, "confirm", "ErrLocked")
  <2>1. pc = "wait_unlocked" /\ ~tgt.rst /\ (tgt.locked \/ (tgt.prog /\ InTime(poll, tgt.boot, 100)))
    BY <1>10 DEF WaitUnlocked, EnterQuiet
  <2>2. tgt' = Elapse(tgt, PollMs) /\ PollMs \in Nat
    BY <1>1, <1>10, PollAssumption, QuietWaitUnlocked
  <2>3. /\ Linked' /\ tgt'.rst = tgt.rst /\ tgt'.prog = tgt.prog /\ tgt'.locked = tgt.locked
        /\ tgt'.boot = Less(tgt.boot, PollMs)
    <3>1. /\ SameLink(tgt, tgt') /\ tgt'.rst = tgt.rst /\ tgt'.prog = tgt.prog
          /\ tgt'.locked = tgt.locked /\ tgt'.boot = Less(tgt.boot, PollMs)
      BY <1>1, <2>2, WaitEffects
    <3> QED BY <1>2, <3>1
  <2>4. CASE tgt.locked
    <3>1. (pc' = "ret" /\ ret' = "ErrLocked") \/ pc' = "wait_unlocked"
      BY <1>1, <1>10, <2>4, QuietWaitUnlocked DEF LockStatus
    <3> QED BY <2>1, <2>3, <2>4, <3>1 DEF EnterQuiet
  <2>5. CASE ~tgt.locked
    <3>1. \/ tgt.boot = 0 /\ pc' = "confirm"
          \/ tgt.boot > 0 /\ pc' = "wait_unlocked" /\ InTime(poll', tgt'.boot, 100)
      BY <1>1, <1>10, <2>1, <2>5, UnlockedInTime
    <3>2. tgt.boot = 0 => tgt'.boot = 0
      BY <2>3, PollAssumption DEF Less
    <3> QED BY <2>1, <2>3, <2>5, <3>1, <3>2 DEF EnterQuiet, InProgmode
  <2> QED BY <2>4, <2>5
<1>11. CASE ConfirmProgmode
  <2>1. tgt' = tgt /\ Linked' /\ pc' = "ret" /\ pc = "confirm"
        /\ ret' = IF NvmProgStatus(tgt) THEN "Ok" ELSE "ErrProtocol"
    BY <1>3, <1>11 DEF ConfirmProgmode
  <2> QED BY <2>1 DEF EnterQuiet, InProgmode, NvmProgStatus
<1> QED BY <1>4, <1>5, <1>6, <1>7, <1>8, <1>9, <1>10, <1>11 DEF EnterProgmode

\* A step of a function keeps the way in undisturbed.
LEMMA ConnectQuietNvm ==
    ASSUME SessionInv, GroundInv, ConnectQuiet, EntersInTime, NvmStep,
           UNCHANGED <<workerVars, history>>, faults' = faults
    PROVE  ConnectQuiet'
<1>1. NvmTypeOK /\ CallInv /\ wpc' = wpc
  BY DEF SessionInv, TypeOK, workerVars
<1>2. CalledStep
  BY <1>1, CallStep
<1>3. CASE Activate /\ wpc = "activate"
  BY <1>1, <1>3, ActivateQuietStep DEF ConnectQuiet
<1>4. CASE Activate /\ wpc = "sib"
  BY <1>1, <1>4, SibQuietStep DEF ConnectQuiet
<1>5. CASE EnterProgmode /\ wpc = "enter"
  BY <1>1, <1>5, EnterQuietStep DEF ConnectQuiet
<1>6. CASE Reads /\ pc = "signature" /\ wpc = "signature"
  BY <1>1, <1>6, SignatureQuietStep DEF ConnectQuiet
<1>7. CASE wpc \notin {"activate", "sib", "enter", "signature"}
  BY <1>1, <1>7 DEF ConnectQuiet
<1> QED BY <1>2, <1>3, <1>4, <1>5, <1>6, <1>7 DEF CalledStep

\* So does a step of the worker.
LEMMA ConnectQuietWorker ==
    ASSUME SessionInv, ConnectQuiet, DoConnect \/ Operation
    PROVE  ConnectQuiet'
<1>1. CASE DoConnect
  <2>1. ASSUME NEW st, ConnectFailed(st) PROVE ConnectQuiet'
    BY <2>1 DEF ConnectFailed, Invoke, Return, ConnectQuiet
  <2>2. CASE EnsureTransport \/ Identified \/ Unlocked
    BY <2>1, <2>2 DEF EnsureTransport, Identified, Unlocked, At, Goto, Return, nvmVars, ConnectQuiet
  <2>3. CASE SessionConnect
    BY <2>3 DEF SessionConnect, Invoke, ConnectQuiet, ActivateQuiet
  <2>4. CASE Activated
    BY <2>1, <2>4 DEF Activated, At, Call, Invoke, ConnectQuiet, ActivateQuiet, SibQuiet, Linked
  <2>5. CASE SibRead
    BY <2>1, <2>5 DEF SibRead, At, Invoke, ConnectQuiet, SibQuiet, EnterQuiet, Linked
  <2>6. CASE Entered
    BY <2>1, <2>6 DEF Entered, At, Call, Invoke, ConnectQuiet, EnterQuiet, SignatureQuiet, Linked,
       InProgmode
  <2> QED BY <1>1, <2>2, <2>3, <2>4, <2>5, <2>6 DEF DoConnect
<1>2. CASE Operation
  <2>1. CASE Body \/ ParseHexFile \/ Erased \/ SaveDump \/ ReadFuses \/ FuseRead \/ Disconnected
    BY <2>1 DEF Body, ParseHexFile, Erased, SaveDump, ReadFuses, FuseRead, Disconnected, Call, Goto,
       Return, DisconnectAndReturn, ConnectQuiet
  <2>2. CASE WriteFlash \/ PageWritten \/ VerifyFlash \/ PageVerified \/ DumpFlash \/ PageDumped
    BY <2>2 DEF WriteFlash, PageWritten, VerifyFlash, PageVerified, DumpFlash, PageDumped, CallPage,
       Goto, Return, DisconnectAndReturn, ConnectQuiet
  <2> QED BY <1>2, <2>1, <2>2 DEF Operation
<1> QED BY <1>1, <1>2

-----------------------------------------------------------------------------
(* What Connect reports                                                    *)

LEMMA ReportQuietNvm ==
    ASSUME SessionInv, ReportQuiet, NvmStep, UNCHANGED <<workerVars, history>>
    PROVE  ReportQuiet'
<1>1. UNCHANGED <<wpc, op, result, transport>>
  BY DEF workerVars
<1>2. wpc # "idle"
  BY CallStep DEF SessionInv, CalledStep
<1>3. Controlled(tgt, tgt') \/ Kept(tgt, tgt')
  BY MachineStep
<1>4. tgt'.chip = tgt.chip /\ (~tgt.locked => ~tgt'.locked)
  BY <1>3 DEF Controlled, Kept
<1> QED BY <1>1, <1>2, <1>4 DEF ReportQuiet

LEMMA ReportQuietWorker ==
    ASSUME SessionInv, GroundInv, ConnectQuiet, ReportQuiet, DoConnect \/ Operation
    PROVE  ReportQuiet'
<1>1. pc = "ret" /\ UNCHANGED <<tgt, op>> /\ CallInv /\ ConnectInv /\ tgt \in Targets
  BY WorkerKeeps DEF SessionInv, TypeOK, NvmTypeOK
<1>2. CASE op # "Connect"
  BY <1>1, <1>2 DEF ReportQuiet
<1>3. CASE op = "Connect" /\ DoConnect
  <2>1. ASSUME NEW st, ConnectFailed(st), st = Verdict PROVE ReportQuiet'
    BY <1>1, <1>3, <2>1 DEF ConnectFailed, Return, EraseOps, ReportQuiet, Verdict
  <2>2. CASE EnsureTransport
    BY <2>2 DEF EnsureTransport, At, ReportQuiet
  <2>3. CASE SessionConnect
    BY <2>3 DEF SessionConnect, ReportQuiet
  <2>4. CASE Activated
    <3>1. wpc = "activate" /\ (ret # "Ok" => tgt.chip = "none" /\ ret = "ErrTimeout")
      BY <1>1, <2>4 DEF Activated, At, ConnectQuiet, ActivateQuiet
    <3> QED BY <2>1, <2>4, <3>1 DEF Activated, Call, Verdict, ReportQuiet
  <2>5. CASE SibRead
    <3>1. ret = "Ok"
      BY <2>5 DEF SibRead, At, ConnectQuiet, SibQuiet
    <3> QED BY <2>5, <3>1 DEF SibRead, ReportQuiet
  <2>6. CASE Entered
    <3>1. ret # "Ok" => ret = "ErrLocked" /\ tgt.locked /\ tgt.chip # "none"
      BY <2>6 DEF Entered, At, ConnectQuiet, EnterQuiet, Linked
    <3> QED BY <2>1, <2>6, <3>1 DEF Entered, Call, Verdict, ReportQuiet
  <2>7. CASE Identified
    <3>1. ret = "Ok" /\ val = tgt.chip /\ ~tgt.locked /\ tgt.chip # "none"
      BY <1>1, <2>7
         DEF Identified, At, ConnectQuiet, SignatureQuiet, Linked, ConnectInv, InSession
    <3>2. CASE Known(val)
      BY <2>7, <3>1, <3>2 DEF Identified, ReportQuiet
    <3>3. CASE ~Known(val)
      <4>1. ConnectFailed("ErrUnsupported")
        BY <2>7, <3>1, <3>3 DEF Identified
      <4> QED BY <2>1, <3>1, <3>3, <4>1 DEF Verdict
    <3> QED BY <3>2, <3>3
  <2>8. CASE Unlocked
    BY <1>3, <2>8 DEF Unlocked, At, ReportQuiet
  <2> QED BY <1>3, <2>2, <2>3, <2>4, <2>5, <2>6, <2>7, <2>8 DEF DoConnect
<1>4. CASE op = "Connect" /\ Operation
  <2>1. wpc \in {"body", "disconnect"}
    BY <1>1, <1>4 DEF Operation, Body, ParseHexFile, Erased, WriteFlash, PageWritten, VerifyFlash,
       PageVerified, DumpFlash, PageDumped, SaveDump, ReadFuses, FuseRead, Disconnected, At, CallInv
  <2>2. CASE wpc = "body"
    <3>1. Body
      BY <1>4, <2>2 DEF Operation, Body, ParseHexFile, Erased, WriteFlash, PageWritten,
         VerifyFlash, PageVerified, DumpFlash, PageDumped, SaveDump, ReadFuses, FuseRead,
         Disconnected, At
    <3>2. wpc' = "disconnect" /\ result' = "Ok"
      BY <1>4, <3>1 DEF Body, DisconnectAndReturn
    <3>3. device = tgt.chip /\ ~tgt.locked /\ device \in {"P0", "P3", "NULL"}
      BY <1>1, <2>2 DEF SessionInv, TypeOK, ConnectInv, SessionPlaces, InSession
    <3>4. Known(tgt.chip)
      BY <1>1, <3>3 DEF Known, Targets, Chips
    <3> QED BY <1>1, <3>2, <3>3, <3>4 DEF ReportQuiet
  <2>3. CASE wpc = "disconnect"
    <3>1. Disconnected
      BY <1>4, <2>3 DEF Operation, Body, ParseHexFile, Erased, WriteFlash, PageWritten,
         VerifyFlash, PageVerified, DumpFlash, PageDumped, SaveDump, ReadFuses, FuseRead,
         Disconnected, At
    <3>2. result = "Ok" /\ Known(tgt.chip) /\ ~tgt.locked
      BY <1>4, <2>3 DEF ReportQuiet
    <3> QED BY <1>1, <3>1, <3>2 DEF Disconnected, ReportQuiet, Verdict, Known
  <2> QED BY <2>1, <2>2, <2>3
<1> QED BY <1>2, <1>3, <1>4

\* Whatever the environment does, there is nothing to report, or it disturbs.
LEMMA QuietInvNext ==
    ASSUME BootsFit, UnlocksFit, SessionInv, GroundInv, QuietInv, [Next]_vars
    PROVE  QuietInv'
<1>1. faults \in Nat /\ budget \in Nat /\ NvmTypeOK /\ faults <= budget
  BY FaultsLeft, NvmAssumption DEF SessionInv, TypeOK, GroundInv
<1>2. CASE NvmStep /\ UNCHANGED <<workerVars, history>>
  <2> SUFFICES ASSUME Undisturbed' PROVE ConnectQuiet' /\ ReportQuiet'
    BY DEF QuietInv
  <2>1. faults' = budget /\ faults' <= faults /\ faults' \in Nat
    <3>1. NvmTypeOK'
      BY <1>1, <1>2, NvmStepType
    <3> QED BY <1>2, <3>1, NvmAssumption, GroundInvNvm DEF Undisturbed, history, NvmTypeOK
  <2>2. faults' = faults /\ Undisturbed
    BY <1>1, <2>1 DEF Undisturbed
  <2>3. EntersInTime
    BY DEF EntersInTime, StartTimes, BootsFit, UnlocksFit
  <2> QED BY <1>2, <2>2, <2>3, ConnectQuietNvm, ReportQuietNvm DEF QuietInv
<1>3. CASE (DoConnect \/ Operation) /\ UNCHANGED history
  <2>1. UNCHANGED <<faults, budget>>
    BY <1>3, WorkerKeeps DEF history
  <2> QED BY <1>3, <2>1, ConnectQuietWorker, ReportQuietWorker DEF QuietInv, Undisturbed
<1>4. CASE PowerCycle /\ UNCHANGED <<workerVars, history>>
  <2>1. faults' = faults - 1 /\ budget' = budget
    BY <1>4 DEF PowerCycle, history
  <2> QED BY <1>1, <2>1 DEF QuietInv, Undisturbed
<1>5. ASSUME NEW o \in UserOps, Start(o) PROVE QuietInv'
  BY <1>5 DEF Start, QuietInv, ConnectQuiet, ReportQuiet
<1>6. CASE Relaunch \/ SwapTarget
  BY <1>6 DEF Relaunch, SwapTarget, QuietInv, ConnectQuiet, ReportQuiet
<1>7. CASE UNCHANGED vars
  BY <1>7 DEF QuietInv, Undisturbed, ConnectQuiet, ActivateQuiet, SibQuiet, EnterQuiet,
     SignatureQuiet, Linked, InProgmode, ReportQuiet, Verdict, vars, nvmVars, workerVars, history
<1> QED BY <1>2, <1>3, <1>4, <1>5, <1>6, <1>7 DEF Next, WorkerStep, Environment

(***************************************************************************)
(* An undisturbed Connect tells what is on the wire: nothing, a locked     *)
(* target, one that is not supported, or one that is, in whatever state    *)
(* any number of earlier faults left it, provided that it starts within    *)
(* the 100 ms of wait_unlocked, also when a key that was left armed makes  *)
(* its reset a chip erase.                                                 *)
(***************************************************************************)
THEOREM ConnectTells ==
    ASSUME BootsFit, UnlocksFit
    PROVE  Spec => []ConnectReportsTarget
<1> DEFINE Inv == SessionInv /\ GroundInv /\ QuietInv
<1>1. Init => Inv
  BY SessionInvInit, GroundInvInit DEF Init, QuietInv, ConnectQuiet, ReportQuiet
<1>2. Inv /\ [Next]_vars => Inv'
  BY SessionInvNext, GroundInvNext, QuietInvNext
<1>3. Inv => ConnectReportsTarget
  BY DEF QuietInv, ReportQuiet, Verdict, ConnectReportsTarget, Over
<1> QED BY <1>1, <1>2, <1>3, PTL DEF Spec

-----------------------------------------------------------------------------
(* A single fault: the key                                                 *)

\* An instruction does not arm the key and, unless the key is armed, leaves the
\* flash alone; while it stays armed the lock stays, too.
KeyStays(t, u) ==
    /\ u.eraseKey => t.eraseKey /\ u.locked = t.locked /\ (t.dis \/ ~u.dis)
    /\ ~t.eraseKey => u.flash = t.flash /\ u.locked = t.locked

LEMMA KeyEffects ==
    ASSUME NEW t \in Targets, NEW u \in Instructions(t)
    PROVE  KeyStays(t, u)
<1>1. KeyStays(t, t) /\ KeyStays(t, Break(t)) /\ KeyStays(t, DoubleBreak(t))
  BY DEF KeyStays, Break, DoubleBreak, Targets
<1>2. KeyStays(t, SetRsd(t, FALSE)) /\ KeyStays(t, Disable(t))
  BY DEF KeyStays, SetRsd, Disable, Targets
<1>3. KeyStays(t, TakeKey(t, "NVMProg")) /\ KeyStays(t, HoldReset(t))
  BY DEF KeyStays, TakeKey, HoldReset, Targets
<1>4. ASSUME NEW ms \in Nat PROVE KeyStays(t, ReleaseReset(t, ms))
  <2>1. CASE ~(Responds(t) /\ t.rst)
    BY <1>1, <2>1 DEF ReleaseReset
  <2>2. CASE Responds(t) /\ t.rst
    <3>1. ~t.dis /\ t.rst
      BY <2>2 DEF Responds
    <3>2. /\ ReleaseReset(t, ms).eraseKey = FALSE
          /\ ReleaseReset(t, ms).locked = (t.locked /\ ~t.eraseKey)
          /\ ReleaseReset(t, ms).flash = IF t.eraseKey THEN Filled("blank") ELSE t.flash
      BY <3>1, ReleaseEffects
    <3>3. t.locked \in BOOLEAN
      BY DEF Targets
    <3> QED BY <3>2, <3>3 DEF KeyStays
  <2> QED BY <2>1, <2>2
<1>5. ASSUME NEW ms \in Nat PROVE KeyStays(t, Elapse(t, ms))
  BY DEF KeyStays, Elapse, Targets
<1> QED BY <1>1, <1>2, <1>3, <1>4, <1>5 DEF Instructions

\* A fault-free step of the unlock uses the key it armed.
LEMMA UnlockingStep ==
    ASSUME NvmTypeOK, wpc = "unlock", wpc' = wpc, Unlocking, ~tgt.dis, tgt.eraseKey, Unlock,
           faults' = faults
    PROVE  Unlocking' \/ ~tgt'.eraseKey
<1>1. /\ pc \in {"erase_key_status", "erase_apply", "erase_release"}
      /\ pc = "erase_release" => tgt.rst
      /\ tgt \in Targets /\ faults \in Nat
  <2>1. tgt \in Targets /\ faults \in Nat
    BY FaultsLeft DEF NvmTypeOK
  <2> QED BY <2>1 DEF Unlocking
<1>2. CASE TryBit("erase_key_status", tgt.eraseKey, "erase_apply")
  <2>1. tgt' = tgt /\ pc' = "erase_apply"
    BY <1>1, <1>2, QuietTryBit
  <2> QED BY <2>1 DEF Unlocking
<1>3. CASE Ignore("erase_apply", Stcs(tgt, HoldReset(tgt)), "erase_release")
  <2>1. tgt' = HoldReset(tgt) /\ pc' = "erase_release"
    BY <1>1, <1>3, QuietIgnore DEF Stcs
  <2> QED BY <1>1, <2>1, ResetEffects DEF Unlocking
<1>4. CASE \E ms \in IF tgt.eraseKey THEN UnlockTimes ELSE BootTimes :
             Ignore("erase_release", Stcs(tgt, ReleaseReset(tgt, ms)), "erase_wait")
  <2>1. PICK ms \in Nat : Ignore("erase_release", Stcs(tgt, ReleaseReset(tgt, ms)), "erase_wait")
    BY <1>4, NvmAssumption
  <2>2. pc = "erase_release" /\ tgt' = ReleaseReset(tgt, ms)
    BY <1>1, <2>1, QuietIgnore DEF Stcs
  <2> QED BY <1>1, <2>2, ReleaseEffects
<1> QED BY <1>1, <1>2, <1>3, <1>4 DEF Unlock, Try, WaitUnlocked

\* It arms the key of a target that is locked, or after the fault.
LEMMA ArmingStep ==
    ASSUME NvmTypeOK, KeyInv, LockInv, wpc = "unlock", wpc' = wpc, pc = "unlock", Unlock,
           tgt' = TakeKey(tgt, "NVMErase"), MaxFaults <= 1, faults' \in Nat, faults' <= faults
    PROVE  KeyInv'
<1>1. tgt \in Targets /\ faults \in 0..MaxFaults /\ MaxFaults \in Nat
      /\ (tgt.locked \/ faults = 0)
  <2>1. tgt \in Targets /\ faults \in 0..MaxFaults /\ MaxFaults \in Nat
    BY FaultsLeft DEF NvmTypeOK
  <2> QED BY <2>1 DEF LockInv
<1>2. CASE tgt.dis
  BY <1>1, <1>2 DEF TakeKey, Responds, KeyInv
<1>3. CASE ~tgt.dis
  <2>1. tgt'.locked = tgt.locked /\ tgt'.dis = tgt.dis
    BY <1>1, <1>3, ResetEffects DEF SameLink
  <2>2. CASE faults' = faults
    <3>1. pc' = "erase_key_status"
      BY <1>1, <2>2, QuietTry DEF Unlock, Key, Try, TryBit, Ignore, WaitUnlocked
    <3> QED BY <1>1, <1>3, <2>1, <2>2, <3>1 DEF KeyInv, Unlocking
  <2>3. CASE faults' # faults
    <3>1. faults = 1 /\ MaxFaults = 1 /\ faults' = 0
      BY <1>1, <2>3
    <3> QED BY <1>1, <1>3, <2>1, <3>1 DEF KeyInv
  <2> QED BY <2>2, <2>3
<1> QED BY <1>2, <1>3

-----------------------------------------------------------------------------
(* A single fault: what the functions and the worker keep                  *)

\* What a step of a function does to the target, by the kind of function.
LEMMA MachineResult ==
    ASSUME SessionInv, NvmStep, UNCHANGED <<workerVars, history>>
    PROVE  \/ tgt' \in InstructionsAt(pc, tgt)
           \/ pc = "unlock" /\ tgt' = TakeKey(tgt, "NVMErase")
           \/ Kept(tgt, tgt') /\ wpc \in {"erase", "write_page"}
<1>1. NvmTypeOK /\ CallInv /\ ContentInv
  BY DEF SessionInv, TypeOK
<1>2. CalledStep
  BY <1>1, CallStep
<1>3. CASE Activate \/ EnterProgmode \/ LeaveProgmode \/ Unlock
  BY <1>1, <1>3, ControlResult
<1>4. CASE Reads
  BY <1>4, ReadStep DEF InstructionsAt
<1>5. CASE wpc = "erase" /\ (EraseChip \/ ClearCommand)
  BY <1>1, <1>5, EraseChipStep DEF ContentInv
<1>6. CASE wpc = "write_page" /\ (WriteFlashPage \/ ClearCommand)
  BY <1>1, <1>6, ArgumentsStay, WritePageStep DEF ContentInv, SessionInv, workerVars
<1> QED BY <1>2, <1>3, <1>4, <1>5, <1>6 DEF CalledStep

\* With at most one fault, a step that meets it meets the last one.
LEMMA OneFault ==
    ASSUME SessionInv, GroundInv, MaxFaults <= 1, NvmStep, UNCHANGED <<workerVars, history>>
    PROVE  /\ tgt \in Targets /\ faults \in Nat /\ MaxFaults \in Nat /\ faults' \in Nat
           /\ faults <= MaxFaults /\ faults' <= faults
           /\ faults' # faults => faults = 1 /\ MaxFaults = 1 /\ faults' = 0
<1>1. NvmTypeOK /\ NvmTypeOK'
  BY NvmStepType DEF SessionInv, TypeOK
<1>2. faults \in 0..MaxFaults /\ faults' \in 0..MaxFaults /\ MaxFaults \in Nat /\ tgt \in Targets
  BY <1>1, NvmAssumption DEF NvmTypeOK
<1>3. faults' <= faults
  BY GroundInvNvm
<1> QED BY <1>2, <1>3

LEMMA KeyInvNvm ==
    ASSUME SessionInv, GroundInv, KeyInv, LockInv, MaxFaults <= 1, NvmStep,
           UNCHANGED <<workerVars, history>>
    PROVE  KeyInv'
<1>1. NvmTypeOK /\ CallInv /\ wpc' = wpc
  BY DEF SessionInv, TypeOK, workerVars
<1>2. /\ tgt \in Targets /\ faults \in Nat /\ MaxFaults \in Nat /\ faults' \in Nat
      /\ faults <= MaxFaults /\ faults' <= faults
      /\ faults' # faults => faults = 1 /\ MaxFaults = 1 /\ faults' = 0
  BY OneFault
<1>3. CalledStep
  BY <1>1, CallStep
<1>4. CASE pc = "unlock" /\ tgt' = TakeKey(tgt, "NVMErase")
  <2>1. wpc = "unlock" /\ Unlock
    <3>1. wpc = "unlock"
      BY <1>1, <1>4, Callers DEF CallInv, UnlockPlaces
    <3> QED BY <1>3, <3>1 DEF CalledStep
  <2> QED BY <1>1, <1>2, <1>4, <2>1, ArmingStep
<1>5. CASE tgt'.eraseKey => tgt.eraseKey /\ tgt'.locked = tgt.locked /\ (tgt.dis \/ ~tgt'.dis)
  <2> SUFFICES ASSUME tgt'.eraseKey
               PROVE  /\ ~tgt'.dis
                      /\ Unlocking' \/ (faults' < MaxFaults' /\ tgt'.locked)
                      /\ ~tgt'.locked => faults' = 0
    BY DEF KeyInv
  <2>1. /\ tgt.eraseKey /\ tgt'.locked = tgt.locked /\ ~tgt.dis /\ ~tgt'.dis
        /\ Unlocking \/ (faults < MaxFaults /\ tgt.locked)
        /\ ~tgt.locked => faults = 0
    BY <1>5 DEF KeyInv
  <2>2. CASE faults' # faults
    BY <1>2, <2>1, <2>2
  <2>3. CASE faults' = faults /\ ~Unlocking
    BY <1>2, <2>1, <2>3
  <2>4. CASE faults' = faults /\ Unlocking
    <3>1. wpc = "unlock" /\ Unlock
      BY <1>3, <2>4 DEF CalledStep, Unlocking
    <3>2. Unlocking'
      BY <1>1, <2>1, <2>4, <3>1, UnlockingStep
    <3> QED BY <2>1, <2>4, <3>2
  <2> QED BY <2>2, <2>3, <2>4
<1>6. CASE tgt' \in Instructions(tgt)
  BY <1>2, <1>5, <1>6, KeyEffects DEF KeyStays
<1>7. CASE Kept(tgt, tgt')
  BY <1>5, <1>7 DEF Kept
<1> QED BY <1>4, <1>6, <1>7, MachineResult, InstructionsFrom

\* The functions of the way in that do not say that the target is locked.
LEMMA LockInvNvm ==
    ASSUME SessionInv, LockInv, NvmStep, UNCHANGED <<workerVars, history>>
    PROVE  LockInv'
<1>1. CallInv /\ wpc' = wpc
  BY DEF SessionInv, workerVars
<1>2. CalledStep
  BY <1>1, CallStep
<1>3. ASSUME Activate, pc' = "ret" PROVE ret' # "ErrLocked"
  BY <1>3 DEF Activate, InitialBreak, InitCtrlB, InitCtrlA, CheckDatalink, SendDoubleBreak,
     CheckDatalinkAgain, ReadSibInfo, Ignore, Try, ReadSib, Load, Out
<1>4. ASSUME Reads, pc = "signature" PROVE ret' # "ErrLocked"
  BY <1>4 DEF Reads, Read, ReadData, Out
<1>5. ASSUME Unlock PROVE pc' # "unlock"
  BY <1>5 DEF Unlock, Try, TryBit, Ignore, WaitUnlocked
<1> QED BY <1>1, <1>2, <1>3, <1>4, <1>5 DEF CalledStep, LockInv

\* Until the fault, programming mode is refused only by a locked target.
LEMMA LockedOrFault ==
    ASSUME SessionInv, GroundInv, PromptInv, MaxFaults <= 1,
           wpc = "enter", pc = "ret", ret = "ErrLocked"
    PROVE  /\ tgt.locked \/ faults = 0
           /\ Prompt => tgt.locked
<1>1. faults \in 0..MaxFaults /\ budget \in 0..MaxFaults /\ MaxFaults \in Nat /\ faults <= budget
  BY NvmAssumption DEF SessionInv, TypeOK, NvmTypeOK, GroundInv
<1>2. Prompt => tgt.locked
  BY DEF PromptInv, ConnectQuiet, EnterQuiet
<1>3. faults # 0 => Prompt
  BY <1>1 DEF Prompt, Undisturbed
<1> QED BY <1>2, <1>3

\* The worker unlocks when it was told that the target is locked.
LEMMA UnlockCalled ==
    ASSUME LockInv, DoConnect \/ Operation, wpc' = "unlock"
    PROVE  wpc = "enter" /\ pc = "ret" /\ ret = "ErrLocked"
<1>1. CASE DoConnect
  <2>1. \A st : ConnectFailed(st) => st = "ErrLocked"
    BY DEF ConnectFailed, Return
  <2>2. ~EnsureTransport /\ ~SessionConnect /\ ~Unlocked
    BY DEF EnsureTransport, SessionConnect, Unlocked, Goto, Return
  <2>3. ~Activated /\ ~SibRead /\ ~Identified
    BY <2>1 DEF Activated, SibRead, Identified, Call, At, LockInv
  <2> QED BY <1>1, <2>1, <2>2, <2>3 DEF DoConnect, Entered, Call, At
<1>2. ~Operation
  <2>1. ~Body /\ ~ParseHexFile /\ ~Erased /\ ~SaveDump /\ ~ReadFuses /\ ~FuseRead /\ ~Disconnected
    BY DEF Body, ParseHexFile, Erased, SaveDump, ReadFuses, FuseRead, Disconnected, Call, Goto,
       Return, DisconnectAndReturn
  <2>2. ~WriteFlash /\ ~PageWritten /\ ~VerifyFlash /\ ~PageVerified /\ ~DumpFlash /\ ~PageDumped
    BY DEF WriteFlash, PageWritten, VerifyFlash, PageVerified, DumpFlash, PageDumped, CallPage,
       Goto, Return, DisconnectAndReturn
  <2> QED BY <2>1, <2>2 DEF Operation
<1> QED BY <1>1, <1>2

\* The functions are called at their first place.
LEMMA CallPlaces ==
    ASSUME DoConnect \/ Operation, wpc' \in {"activate", "sib", "signature", "unlock"}
    PROVE  pc' # "ret"
<1>1. CASE DoConnect
  <2>1. \A st : ConnectFailed(st) /\ wpc' = "unlock" => pc' = "unlock"
    BY DEF ConnectFailed, Invoke, Return
  <2>2. \A st : ConnectFailed(st) => wpc' \in {"unlock", "idle"}
    BY DEF ConnectFailed, Return
  <2>3. ~EnsureTransport /\ ~Unlocked
    BY DEF EnsureTransport, Unlocked, Goto, Return
  <2> QED BY <1>1, <2>1, <2>2, <2>3 DEF DoConnect, SessionConnect, Activated, SibRead, Entered,
          Identified, Call, Invoke
<1>2. ~Operation
  <2>1. ~Body /\ ~ParseHexFile /\ ~Erased /\ ~SaveDump /\ ~ReadFuses /\ ~FuseRead /\ ~Disconnected
    BY DEF Body, ParseHexFile, Erased, SaveDump, ReadFuses, FuseRead, Disconnected, Call, Goto,
       Return, DisconnectAndReturn
  <2>2. ~WriteFlash /\ ~PageWritten /\ ~VerifyFlash /\ ~PageVerified /\ ~DumpFlash /\ ~PageDumped
    BY DEF WriteFlash, PageWritten, VerifyFlash, PageVerified, DumpFlash, PageDumped, CallPage,
       Goto, Return, DisconnectAndReturn
  <2> QED BY <2>1, <2>2 DEF Operation
<1> QED BY <1>1, <1>2

LEMMA KeyAndLockWorker ==
    ASSUME SessionInv, GroundInv, KeyInv, LockInv, PromptInv, MaxFaults <= 1, DoConnect \/ Operation
    PROVE  KeyInv' /\ LockInv'
<1>1. pc = "ret" /\ UNCHANGED <<tgt, faults>>
  BY WorkerKeeps
<1>2. KeyInv'
  BY <1>1 DEF KeyInv, Unlocking
<1>3. wpc' = "unlock" => tgt.locked \/ faults = 0
  BY <1>1, UnlockCalled, LockedOrFault
<1> QED BY <1>1, <1>2, <1>3, CallPlaces DEF LockInv

LEMMA PromptInvNvm ==
    ASSUME BootsFit, SessionInv, GroundInv, KeyInv, PromptInv, NvmStep,
           UNCHANGED <<workerVars, history>>
    PROVE  PromptInv'
<1> SUFFICES ASSUME Prompt' PROVE ConnectQuiet'
  BY DEF PromptInv
<1>1. /\ NvmTypeOK /\ NvmTypeOK' /\ CallInv /\ faults <= budget /\ faults' <= faults
      /\ UNCHANGED <<budget, wasLocked>> /\ budget \in 0..MaxFaults
  BY NvmStepType, GroundInvNvm DEF SessionInv, TypeOK, GroundInv, history
<1>2. faults' = faults /\ Prompt
  <2>1. faults \in 0..MaxFaults /\ faults' \in 0..MaxFaults /\ MaxFaults \in Nat
    BY <1>1, NvmAssumption DEF NvmTypeOK
  <2>2. faults' = budget /\ (~wasLocked \/ faults' = MaxFaults)
    BY <1>1 DEF Prompt, Undisturbed
  <2>3. faults' = faults
    BY <1>1, <2>1, <2>2
  <2> QED BY <1>1, <2>2, <2>3 DEF Prompt, Undisturbed
<1>3. pc = "release" => ~tgt.eraseKey
  <2> SUFFICES ASSUME pc = "release", tgt.eraseKey PROVE FALSE
    OBVIOUS
  <2>1. wpc = "enter"
    BY <1>1, Callers DEF CallInv, EnterPlaces, LeavePlaces, ProgmodePlaces
  <2>2. faults < MaxFaults /\ tgt.locked
    BY <2>1 DEF KeyInv, Unlocking
  <2>3. op # "None"
    BY <1>1, <2>1 DEF CallInv, Ops
  <2>4. faults # MaxFaults
    BY <1>1, <2>2, NvmAssumption DEF NvmTypeOK
  <2> QED BY <1>2, <2>2, <2>3, <2>4 DEF Prompt, GroundInv
<1>4. EntersInTime
  BY <1>3 DEF EntersInTime, StartTimes, BootsFit
<1> QED BY <1>2, <1>4, ConnectQuietNvm DEF PromptInv

LEMMA PromptAndUnlockWorker ==
    ASSUME SessionInv, GroundInv, LockInv, PromptInv, UnlockInv, MaxFaults <= 1,
           DoConnect \/ Operation, UNCHANGED history
    PROVE  PromptInv' /\ UnlockInv'
<1>1. UNCHANGED <<tgt, faults, budget, wasLocked>>
  BY WorkerKeeps DEF history
<1>2. PromptInv'
  BY <1>1, ConnectQuietWorker DEF PromptInv, Prompt, Undisturbed
<1>3. wpc' = "unlock" => ~(Undisturbed /\ ~wasLocked)
  <2> SUFFICES ASSUME wpc' = "unlock", Undisturbed, ~wasLocked PROVE FALSE
    OBVIOUS
  <2>1. wpc = "enter" /\ pc = "ret" /\ ret = "ErrLocked"
    BY UnlockCalled
  <2>2. tgt.locked
    BY <2>1, LockedOrFault DEF Prompt
  <2>3. op # "None"
    BY <2>1 DEF SessionInv, CallInv, Ops
  <2> QED BY <2>2, <2>3 DEF GroundInv
<1> QED BY <1>1, <1>2, <1>3 DEF UnlockInv, Undisturbed

LEMMA UnlockInvNvm ==
    ASSUME SessionInv, GroundInv, UnlockInv, NvmStep, UNCHANGED <<workerVars, history>>
    PROVE  UnlockInv'
<1>1. /\ NvmTypeOK /\ NvmTypeOK' /\ faults <= budget /\ faults' <= faults
      /\ UNCHANGED <<wpc, budget, wasLocked>> /\ budget \in 0..MaxFaults
  BY NvmStepType, GroundInvNvm DEF SessionInv, TypeOK, GroundInv, workerVars, history
<1>2. faults' = budget => faults = budget
  <2>1. faults \in 0..MaxFaults /\ faults' \in 0..MaxFaults /\ MaxFaults \in Nat
    BY <1>1, NvmAssumption DEF NvmTypeOK
  <2> QED BY <1>1, <2>1
<1> QED BY <1>1, <1>2 DEF UnlockInv, Undisturbed

-----------------------------------------------------------------------------
(* A single fault: a file that is refused                                  *)

FlashPlaces == {"erase", "write", "write_page", "verify", "verify_page", "disconnect"}

LEMMA RefusedInvWorker ==
    ASSUME SessionInv, RefusedInv, DoConnect \/ Operation
    PROVE  RefusedInv'
<1>1. CallInv /\ UNCHANGED <<tgt, op, file>>
  BY WorkerKeeps DEF SessionInv
<1> SUFFICES ASSUME op = "Flash", file = BadFile PROVE Calm' /\ wpc' \notin FlashPlaces
  BY <1>1 DEF RefusedInv, FlashPlaces
<1>2. Calm /\ wpc \notin FlashPlaces
  BY DEF RefusedInv, FlashPlaces
<1>3. wpc' \notin FlashPlaces
  <2>1. CASE DoConnect
    <3>1. \A st : ConnectFailed(st) => wpc' \in {"unlock", "idle"}
      BY DEF ConnectFailed, Return
    <3>2. wpc' \notin FlashPlaces
      BY <2>1, <3>1 DEF DoConnect, EnsureTransport, SessionConnect, Activated, SibRead, Entered,
         Identified, Unlocked, Call, Goto, Return, FlashPlaces
    <3> QED BY <3>2
  <2>2. CASE Operation
    <3>1. Body \/ ParseHexFile
      BY <1>1, <1>2, <2>2 DEF Operation, Erased, WriteFlash, PageWritten, VerifyFlash,
         PageVerified, DumpFlash, PageDumped, SaveDump, ReadFuses, FuseRead, Disconnected, At,
         FlashPlaces, CallInv
    <3>2. CASE Body
      BY <3>2 DEF Body, Goto, FlashPlaces
    <3>3. CASE ParseHexFile
      BY <3>3 DEF ParseHexFile, Return, FlashPlaces
    <3> QED BY <3>1, <3>2, <3>3
  <2> QED BY <2>1, <2>2
<1> QED BY <1>1, <1>2, <1>3 DEF Calm

LEMMA RefusedInvNvm ==
    ASSUME SessionInv, RefusedInv, NvmStep, UNCHANGED <<workerVars, history>>
    PROVE  RefusedInv'
<1>1. UNCHANGED <<wpc, op, file>>
  BY DEF workerVars
<1> SUFFICES ASSUME op = "Flash", file = BadFile PROVE Calm'
  BY <1>1 DEF RefusedInv
<1>2. Calm /\ wpc \notin {"erase", "write_page"} /\ NvmTypeOK /\ tgt \in Targets
      /\ (tgt.prog => ~tgt.locked)
  BY DEF RefusedInv, SessionInv, TypeOK, NvmTypeOK, ConnectInv
<1>3. Controlled(tgt, tgt')
  <2>1. CalledStep
    BY CallStep DEF SessionInv
  <2>2. CASE Activate \/ EnterProgmode \/ LeaveProgmode \/ Unlock
    BY <1>2, <2>2, ControlStep
  <2>3. CASE Reads
    BY <1>2, <2>3, ReadStep DEF Controlled
  <2> QED BY <1>2, <2>1, <2>2, <2>3 DEF CalledStep
<1> QED BY <1>2, <1>3 DEF Controlled, Calm

\* An instruction that does not run a key leaves the flash alone.
LEMMA FlashStays ==
    ASSUME SessionInv, NvmStep, UNCHANGED <<workerVars, history>>, ~tgt.eraseKey,
           wpc \notin {"erase", "write_page"}
    PROVE  tgt'.flash = tgt.flash /\ tgt'.locked = tgt.locked
<1>1. tgt \in Targets
  BY DEF SessionInv, TypeOK, NvmTypeOK
<1>2. CASE tgt' \in Instructions(tgt)
  BY <1>1, <1>2, KeyEffects DEF KeyStays
<1>3. CASE tgt' = TakeKey(tgt, "NVMErase")
  BY <1>1, <1>3 DEF TakeKey, Targets
<1> QED BY <1>2, <1>3, MachineResult, InstructionsFrom

-----------------------------------------------------------------------------
(* A single fault: what a Flash that reports UpdiOk has left               *)

LEMMA ProgrammedInvNvm ==
    ASSUME SessionInv, KeyInv, ProgrammedInv, NvmStep, UNCHANGED <<workerVars, history>>
    PROVE  ProgrammedInv'
<1>1. UNCHANGED <<wpc, op, result, file>>
  BY DEF workerVars
<1> SUFFICES ASSUME wpc \in {"disconnect", "idle"}, op = "Flash", result = "Ok"
             PROVE  file # BadFile /\ Calm' /\ EqualUpTo(file.len)' /\ ~tgt'.locked
  BY <1>1 DEF ProgrammedInv
<1>2. file # BadFile /\ Calm /\ EqualUpTo(file.len) /\ ~tgt.locked
  BY DEF ProgrammedInv
<1>3. ~tgt.eraseKey
  BY <1>2 DEF KeyInv, Unlocking
<1>4. tgt'.flash = tgt.flash /\ tgt'.locked = tgt.locked
  BY <1>3, FlashStays
<1>5. Calm'
  <2>1. CalledStep /\ NvmTypeOK /\ (tgt.prog => ~tgt.locked)
    BY CallStep DEF SessionInv, TypeOK, ConnectInv
  <2>2. LeaveProgmode
    BY <2>1 DEF CalledStep
  <2>3. Controlled(tgt, tgt')
    BY <2>1, <2>2, ControlStep
  <2> QED BY <1>2, <2>3 DEF Controlled, Calm
<1> QED BY <1>1, <1>2, <1>4, <1>5 DEF EqualUpTo

LEMMA ProgrammedInvWorker ==
    ASSUME SessionInv, ProgrammedInv, DoConnect \/ Operation
    PROVE  ProgrammedInv'
<1>1. CallInv /\ ConnectInv /\ ContentInv' /\ UNCHANGED <<tgt, op, file>>
  BY WorkerKeeps, ContentInvWorker DEF SessionInv
<1> SUFFICES ASSUME wpc' \in {"disconnect", "idle"}, op = "Flash", result' = "Ok"
             PROVE  file # BadFile /\ Calm /\ EqualUpTo(file.len) /\ ~tgt.locked
  BY <1>1 DEF ProgrammedInv, Calm, EqualUpTo
<1>2. ASSUME wpc \in SessionPlaces, pc' = "leave" PROVE ProgrammedInv'
  <2>1. file # BadFile /\ Calm /\ EqualUpTo(file.len)
    BY <1>1, <1>2 DEF ContentInv, Calm, EqualUpTo
  <2>2. ~tgt.locked
    BY <1>1, <1>2 DEF ConnectInv, InSession
  <2> QED BY <1>1, <2>1, <2>2 DEF ProgrammedInv, Calm, EqualUpTo
<1>3. ~DoConnect
  <2>1. \A st : ConnectFailed(st) /\ st # "Ok" => wpc' = "unlock" \/ result' # "Ok"
    BY DEF ConnectFailed, Return
  <2>2. ~EnsureTransport /\ ~SessionConnect /\ ~Unlocked
    BY DEF EnsureTransport, SessionConnect, Unlocked, Goto, Return
  <2>3. ~Activated /\ ~SibRead /\ ~Entered /\ ~Identified
    BY <2>1 DEF Activated, SibRead, Entered, Identified, Call
  <2> QED BY <2>2, <2>3 DEF DoConnect
<1>4. ~Body /\ ~ParseHexFile /\ ~Erased /\ ~WriteFlash /\ ~PageWritten
  <2>1. ~Body /\ ~ParseHexFile
    BY DEF Body, ParseHexFile, Call, Goto, Return
  <2>2. ~Erased /\ ~WriteFlash /\ ~PageWritten
    BY DEF Erased, WriteFlash, PageWritten, CallPage, Goto, Return
  <2> QED BY <2>1, <2>2
<1>5. ~DumpFlash /\ ~PageDumped /\ ~SaveDump /\ ~ReadFuses /\ ~FuseRead
  BY <1>1 DEF DumpFlash, PageDumped, SaveDump, ReadFuses, FuseRead, At, CallInv
<1>6. CASE VerifyFlash \/ PageVerified
  <2>1. wpc \in SessionPlaces /\ pc' = "leave"
    BY <1>6 DEF VerifyFlash, PageVerified, At, SessionPlaces, CallPage, Goto, DisconnectAndReturn,
       Invoke
  <2> QED BY <1>1, <1>2, <2>1 DEF ProgrammedInv, Calm, EqualUpTo
<1>7. CASE Disconnected
  BY <1>7 DEF Disconnected, At, ProgrammedInv
<1> QED BY <1>3, <1>4, <1>5, <1>6, <1>7 DEF Operation

-----------------------------------------------------------------------------
(* A single fault                                                          *)

LEMMA SingleFaultInvEnvironment ==
    ASSUME SessionInv, GroundInv, SingleFaultInv, Environment
    PROVE  SingleFaultInv'
<1>1. /\ NvmTypeOK /\ CallInv /\ tgt \in Targets /\ MaxFaults \in Nat
      /\ faults \in 0..MaxFaults /\ faults <= budget /\ budget \in 0..MaxFaults
  BY NvmAssumption DEF SessionInv, TypeOK, NvmTypeOK, GroundInv
<1>2. KeyInv /\ LockInv /\ RefusedInv /\ ProgrammedInv
  BY DEF SingleFaultInv
<1>3. CASE PowerCycle /\ UNCHANGED <<workerVars, history>>
  <2>1. /\ faults' = faults - 1 /\ faults > 0
        /\ UNCHANGED <<pc, ret, wpc, op, result, file, budget, wasLocked>>
    BY <1>3 DEF PowerCycle, workerVars, history
  <2>2. /\ tgt'.locked = tgt.locked /\ tgt'.busy = 0
        /\ tgt.busy = 0 => tgt'.flash = tgt.flash
    BY <1>1, <1>3, PowerStep
  <2>3. ~tgt'.eraseKey
    BY <1>1, <1>3 DEF PowerCycle, PowerUp, Targets
  <2>4. ~Undisturbed'
    BY <1>1, <2>1 DEF Undisturbed
  <2>5. LockInv'
    BY <1>1, <1>2, <2>1, <2>2 DEF LockInv
  <2>6. RefusedInv'
    BY <1>2, <2>1, <2>2 DEF RefusedInv, Calm
  <2>7. ProgrammedInv'
    BY <1>2, <2>1, <2>2 DEF ProgrammedInv, Calm, EqualUpTo
  <2> QED BY <2>3, <2>4, <2>5, <2>6, <2>7 DEF SingleFaultInv, KeyInv, PromptInv, Prompt, UnlockInv
<1>4. ASSUME NEW o \in UserOps, Start(o) PROVE SingleFaultInv'
  <2>1. wpc = "idle" /\ wpc' = "transport" /\ tgt' = Settle(tgt) /\ faults' = faults
    BY <1>4 DEF Start
  <2>2. /\ tgt'.eraseKey = tgt.eraseKey /\ tgt'.dis = tgt.dis /\ tgt'.locked = tgt.locked
        /\ tgt'.busy = 0
    BY <1>1, <2>1 DEF Settle, Targets
  <2>3. KeyInv'
    BY <1>2, <2>1, <2>2 DEF KeyInv, Unlocking
  <2> QED BY <2>1, <2>2, <2>3 DEF SingleFaultInv, LockInv, PromptInv, ConnectQuiet, UnlockInv,
          RefusedInv, Calm, ProgrammedInv
<1>5. CASE Relaunch
  <2>1. wpc \in {"idle", "crashed"} /\ wpc' = "idle" /\ op' = "None" /\ UNCHANGED <<tgt, faults>>
    BY <1>5 DEF Relaunch
  <2>2. KeyInv'
    BY <1>2, <2>1 DEF KeyInv, Unlocking
  <2> QED BY <2>1, <2>2 DEF SingleFaultInv, LockInv, PromptInv, ConnectQuiet, UnlockInv,
          RefusedInv, ProgrammedInv
<1>6. CASE SwapTarget
  <2>1. wpc' = "idle" /\ op' = "None" /\ ~tgt'.eraseKey
    BY <1>6 DEF SwapTarget, FreshTargets, Fresh
  <2> QED BY <2>1 DEF SingleFaultInv, KeyInv, LockInv, PromptInv, ConnectQuiet, UnlockInv,
          RefusedInv, ProgrammedInv
<1> QED BY <1>3, <1>4, <1>5, <1>6 DEF Environment

LEMMA SingleFaultInvNext ==
    ASSUME MaxFaults <= 1, BootsFit, SessionInv, GroundInv, SingleFaultInv, [Next]_vars
    PROVE  SingleFaultInv'
<1>1. CASE NvmStep /\ UNCHANGED <<workerVars, history>>
  BY <1>1, KeyInvNvm, LockInvNvm, PromptInvNvm, UnlockInvNvm, RefusedInvNvm, ProgrammedInvNvm
     DEF SingleFaultInv
<1>2. CASE (DoConnect \/ Operation) /\ UNCHANGED history
  BY <1>2, KeyAndLockWorker, PromptAndUnlockWorker, RefusedInvWorker, ProgrammedInvWorker
     DEF SingleFaultInv
<1>3. CASE Environment
  BY <1>3, SingleFaultInvEnvironment
<1>4. CASE UNCHANGED vars
  <2>1. KeyInv' /\ LockInv'
    BY <1>4 DEF SingleFaultInv, KeyInv, Unlocking, LockInv, vars, nvmVars, workerVars
  <2>2. PromptInv' /\ UnlockInv'
    BY <1>4 DEF SingleFaultInv, PromptInv, Prompt, Undisturbed, UnlockInv, ConnectQuiet,
       ActivateQuiet, SibQuiet, EnterQuiet, SignatureQuiet, Linked, InProgmode, InTime, vars,
       nvmVars, workerVars, history
  <2>3. RefusedInv' /\ ProgrammedInv'
    BY <1>4 DEF SingleFaultInv, RefusedInv, ProgrammedInv, Calm, EqualUpTo, vars, nvmVars,
       workerVars
  <2> QED BY <2>1, <2>2, <2>3 DEF SingleFaultInv
<1> QED BY <1>1, <1>2, <1>3, <1>4 DEF Next, WorkerStep

LEMMA SingleFaultInvInit == Init => SingleFaultInv
BY DEF Init, NvmInit, FreshTargets, Fresh, SingleFaultInv, KeyInv, LockInv, PromptInv,
   ConnectQuiet, UnlockInv, RefusedInv, ProgrammedInv

(***************************************************************************)
(* With at most one fault, a Flash that reports UpdiOk has left the image  *)
(* in the flash and nothing else: leaving programming mode does not run a  *)
(* key for a chip erase.                                                   *)
(***************************************************************************)
THEOREM FlashIsProgrammed ==
    ASSUME MaxFaults <= 1, BootsFit
    PROVE  Spec => []FlashOkMeansProgrammed
<1> DEFINE Inv == SessionInv /\ GroundInv /\ SingleFaultInv
<1>1. Init => Inv
  BY SessionInvInit, GroundInvInit, SingleFaultInvInit
<1>2. Inv /\ [Next]_vars => Inv'
  BY SessionInvNext, GroundInvNext, SingleFaultInvNext
<1>3. Inv => FlashOkMeansProgrammed
  BY FlashIsImage DEF SessionInv, SingleFaultInv, ProgrammedInv, FlashOkMeansProgrammed, Over
<1> QED BY <1>1, <1>2, <1>3, PTL DEF Spec

(***************************************************************************)
(* With at most one fault, an undisturbed Flash whose file is refused      *)
(* leaves the flash of an unlocked target as it was: no step of it, nor    *)
(* what happens to the target before the next operation, changes a page.   *)
(***************************************************************************)
THEOREM RefusedKeepsFlash ==
    ASSUME MaxFaults <= 1, BootsFit
    PROVE  Spec => BadFileKeepsFlash
<1> DEFINE Inv == SessionInv /\ GroundInv /\ SingleFaultInv
           Refused == op = "Flash" /\ op' = op /\ file = BadFile /\ ~wasLocked /\ Undisturbed
<1>1. Init => Inv
  BY SessionInvInit, GroundInvInit, SingleFaultInvInit
<1>2. Inv /\ [Next]_vars => Inv'
  BY SessionInvNext, GroundInvNext, SingleFaultInvNext
<1>3. ASSUME Inv, Next, Refused PROVE tgt'.flash = tgt.flash
  <2>1. /\ Calm /\ wpc \notin {"erase", "write_page", "unlock"} /\ ~tgt.locked
        /\ NvmTypeOK /\ tgt \in Targets
    BY <1>3 DEF SingleFaultInv, RefusedInv, UnlockInv, GroundInv, SessionInv, TypeOK, NvmTypeOK
  <2>2. CASE NvmStep /\ UNCHANGED <<workerVars, history>>
    <3>1. ~tgt.eraseKey
      BY <1>3, <2>1 DEF SingleFaultInv, KeyInv, Unlocking
    <3> QED BY <1>3, <2>1, <2>2, <3>1, FlashStays
  <2>3. CASE DoConnect \/ Operation
    BY <2>3, WorkerKeeps
  <2>4. CASE PowerCycle
    BY <2>1, <2>4, PowerStep DEF Calm
  <2>5. ASSUME NEW o \in UserOps, Start(o) PROVE tgt'.flash = tgt.flash
    BY <2>1, <2>5 DEF Start, Settle, Targets
  <2>6. CASE Relaunch
    BY <2>6 DEF Relaunch
  <2>7. ~SwapTarget
    BY <1>3 DEF SwapTarget
  <2> QED BY <1>3, <2>2, <2>3, <2>4, <2>5, <2>6, <2>7 DEF Next, WorkerStep, Environment
<1>4. Inv /\ [Next]_vars => [Refused => tgt'.flash = tgt.flash]_vars
  BY <1>3
<1> QED BY <1>1, <1>2, <1>4, PTL DEF Spec, BadFileKeepsFlash

-----------------------------------------------------------------------------
(* Undisturbed: unlock, erase, write                                       *)

\* A longer wait is long enough, too.
LEMMA FitsLonger ==
    ASSUME NEW ms \in Nat, Fits(ms, 100)
    PROVE  Fits(ms, 500)
<1>1. ms + PollMs <= 100 => ms + PollMs <= 500
  BY PollAssumption
<1> QED BY <1>1 DEF Fits

\* updi_nvm_unlock
LEMMA UnlockQuietStep ==
    ASSUME UnlocksFit, NvmTypeOK, GroundInv, UnlockQuiet, Unlock, op' = op, faults' = faults
    PROVE  UnlockQuiet'
<1>1. tgt \in Targets /\ tgt.dis = FALSE /\ faults \in Nat /\ Linked /\ tgt.boot \in Nat
  BY FaultsLeft DEF NvmTypeOK, UnlockQuiet, Linked, Targets
<1>2. ASSUME SameLink(tgt, tgt') PROVE Linked' /\ op' \in EraseOps
  BY <1>1, <1>2 DEF SameLink, Linked, UnlockQuiet
<1>3. CASE Try("unlock", Key(tgt, "NVMErase"), "erase_key_status")
  <2>1. tgt' = TakeKey(tgt, "NVMErase") /\ pc' = "erase_key_status"
    BY <1>1, <1>3, QuietTry DEF Key
  <2> QED BY <1>1, <1>2, <2>1, ResetEffects DEF UnlockQuiet
<1>4. CASE TryBit("erase_key_status", tgt.eraseKey, "erase_apply")
  <2>1. tgt.eraseKey
    BY <1>4 DEF TryBit, UnlockQuiet
  <2>2. tgt' = tgt /\ pc' = "erase_apply"
    BY <1>1, <1>4, <2>1, QuietTryBit
  <2> QED BY <2>1, <2>2 DEF UnlockQuiet, Linked
<1>5. CASE Ignore("erase_apply", Stcs(tgt, HoldReset(tgt)), "erase_release")
  <2>1. pc = "erase_apply" /\ tgt' = HoldReset(tgt) /\ pc' = "erase_release"
    BY <1>1, <1>5, QuietIgnore DEF Stcs
  <2>2. tgt.eraseKey
    BY <2>1 DEF UnlockQuiet
  <2>3. SameLink(tgt, tgt') /\ tgt'.rst /\ tgt'.eraseKey
    BY <1>1, <2>1, <2>2, ResetEffects
  <2> QED BY <1>2, <2>1, <2>3 DEF UnlockQuiet
<1>6. CASE \E ms \in IF tgt.eraseKey THEN UnlockTimes ELSE BootTimes :
             Ignore("erase_release", Stcs(tgt, ReleaseReset(tgt, ms)), "erase_wait")
  <2>1. tgt.eraseKey = TRUE /\ tgt.rst
    BY <1>6 DEF Ignore, UnlockQuiet, NvmTypeOK, Targets
  <2>2. PICK ms \in UnlockTimes : Ignore("erase_release", Stcs(tgt, ReleaseReset(tgt, ms)), "erase_wait")
    BY <1>6, <2>1
  <2>3. pc = "erase_release" /\ tgt' = ReleaseReset(tgt, ms) /\ pc' = "erase_wait" /\ ms \in Nat
    BY <1>1, <2>2, NvmAssumption, QuietIgnore DEF Stcs
  <2>4. SameLink(tgt, tgt') /\ tgt'.rst = FALSE /\ tgt'.boot = ms /\ ~tgt'.locked
    BY <1>1, <2>1, <2>3, ReleaseEffects
  <2>5. poll' = NoPoll
    BY <2>2, <2>3, NotPolling DEF GroundInv, Ignore
  <2>6. InTime(poll', tgt'.boot, 500)
    BY <2>2, <2>3, <2>4, <2>5, FitsLonger, FitsInTime DEF UnlocksFit
  <2> QED BY <1>2, <2>3, <2>4, <2>6 DEF UnlockQuiet
<1>7. CASE WaitUnlocked("erase_wait", 500, "ret", "ErrNvm")
  <2>1. pc = "erase_wait" /\ ~tgt.locked /\ ~tgt.rst /\ InTime(poll, tgt.boot, 500)
    BY <1>7 DEF WaitUnlocked, UnlockQuiet
  <2>2. /\ tgt' = Elapse(tgt, PollMs) /\ PollMs \in Nat
        /\ \/ pc' = "ret" /\ ret' = "Ok"
           \/ pc' = "erase_wait" /\ InTime(poll', tgt'.boot, 500)
    BY <1>1, <1>7, <2>1, PollAssumption, 500 \in Nat, UnlockedInTime
  <2>3. SameLink(tgt, tgt') /\ tgt'.rst = tgt.rst /\ tgt'.locked = tgt.locked
    BY <1>1, <2>2, WaitEffects
  <2> QED BY <1>2, <2>1, <2>2, <2>3 DEF UnlockQuiet
<1> QED BY <1>3, <1>4, <1>5, <1>6, <1>7 DEF Unlock

\* A target in programming mode takes what is stored.
LEMMA QuietStore ==
    ASSUME NvmTypeOK, GroundInv, Linked, InProgmode, NEW u, NEW here, NEW there, faults' = faults,
           Try(here, StByte(tgt, u), there) \/ Command(here, u, there)
    PROVE  pc = here /\ tgt' = u /\ pc' = there /\ ret' = "Ok"
<1> DEFINE refused == {[o EXCEPT !.fault = 1] : o \in StByte(tgt, Refuse(tgt))}
<1>1. Acknowledges(tgt) /\ faults \in Nat
  BY FaultsLeft DEF Linked, InProgmode, GroundInv, Acknowledges, Accessible, Responds, NvmProgStatus
<1>2. PICK o \in StByte(tgt, u) \cup refused :
        /\ pc = here /\ Take(o) /\ ret' = o.st /\ pc' = IF o.st = "Ok" THEN there ELSE "ret"
  BY DEF Try, Command
<1>3. o.fault = 0
  <2>1. o.fault \in {0, 1}
    BY <1>1 DEF StByte, Out
  <2> QED BY <1>1, <1>2, <2>1 DEF Take
<1>4. o \in StByte(tgt, u)
  <2>1. \A r \in refused : r.fault = 1
    BY <1>1 DEF StByte, Out
  <2> QED BY <1>3, <2>1
<1>5. o.tgt = u /\ o.st = "Ok"
  BY <1>1, <1>3, <1>4 DEF StByte, Out
<1> QED BY <1>2, <1>5 DEF Take

\* So does its page buffer.
LEMMA QuietFill ==
    ASSUME NvmTypeOK, GroundInv, Linked, InProgmode, NEW p, NEW c, NEW here, NEW there, faults' = faults,
           Try(here, WriteDataWords(tgt, p, c), there)
    PROVE  pc = here /\ tgt' = LoadBuffer(tgt, p, c) /\ pc' = there
<1>1. Acknowledges(tgt) /\ faults \in Nat
  BY FaultsLeft DEF Linked, InProgmode, GroundInv, Acknowledges, Accessible, Responds, NvmProgStatus
<1>2. PICK o \in WriteDataWords(tgt, p, c) :
        pc = here /\ Take(o) /\ pc' = IF o.st = "Ok" THEN there ELSE "ret"
  BY DEF Try
<1>3. o.fault = 0
  <2>1. o.fault \in {0, 1}
    BY <1>1 DEF WriteDataWords, Out
  <2> QED BY <1>1, <1>2, <2>1 DEF Take
<1>4. o.tgt = LoadBuffer(tgt, p, c) /\ o.st = "Ok"
  BY <1>1, <1>3 DEF WriteDataWords, Out
<1> QED BY <1>2, <1>4 DEF Take

\* wait_nvm_ready with a target in programming mode.
LEMMA QuietWaitReady ==
    ASSUME NvmTypeOK, GroundInv, Linked, InProgmode, NEW here, NEW timeout \in Nat, NEW onOk,
           NEW onError, WaitReady(here, timeout, onOk, onError), faults' = faults
    PROVE  /\ pc = here /\ tgt' = Elapse(tgt, PollMs)
           /\ tgt.wrerr => pc' = onError /\ ret' = "ErrNvm"
           /\ ~tgt.wrerr /\ InTime(poll, tgt.busy, timeout) =>
                 \/ tgt.busy = 0 /\ pc' = onOk /\ ret' = "Ok"
                 \/ tgt.busy > 0 /\ pc' = here /\ InTime(poll', tgt'.busy, timeout)
<1>1. /\ Accessible(tgt) = TRUE /\ faults \in Nat /\ tgt \in Targets /\ tgt.busy \in Nat
      /\ PollMs \in Nat
  BY FaultsLeft, PollAssumption DEF Linked, InProgmode, GroundInv, Accessible, Responds,
     NvmProgStatus, NvmTypeOK, Targets
<1>2. PICK o \in Load(tgt, TRUE) :
        LET status == NvmStatus(o.st)
            again  == status = "Busy" /\ ~Expired(CostOf(o.st), timeout)
        IN  /\ Take([o EXCEPT !.tgt = Elapse(@, CostOf(o.st))])
            /\ ret' = IF status # "Busy" THEN status
                      ELSE IF again THEN "Ok" ELSE "ErrTimeout"
            /\ pc' = IF again THEN here ELSE IF ret' = "Ok" THEN onOk ELSE onError
            /\ IF again THEN PollAgain(CostOf(o.st)) ELSE poll' = NoPoll
  BY <1>1 DEF WaitReady, LdByte
<1>3. [o EXCEPT !.tgt = Elapse(@, CostOf(o.st))].fault = o.fault
      /\ [o EXCEPT !.tgt = Elapse(@, CostOf(o.st))].tgt = Elapse(tgt, CostOf(o.st))
  BY DEF Load, Out
<1>4. o.fault = 0
  BY <1>1, <1>2, <1>3 DEF Take, Load, Out
<1>5. o.st = "Ok" /\ CostOf(o.st) = PollMs
  BY <1>4 DEF Load, Out, CostOf
<1>6. tgt' = Elapse(tgt, PollMs) /\ tgt'.busy = Less(tgt.busy, PollMs)
  <2>1. tgt' = Elapse(tgt, PollMs)
    BY <1>2, <1>3, <1>5 DEF Take
  <2> QED BY <1>1, <2>1, WaitEffects
<1>7. CASE tgt.wrerr
  BY <1>2, <1>5, <1>6, <1>7 DEF NvmStatus, WaitReady
<1>8. CASE ~tgt.wrerr /\ tgt.busy = 0
  BY <1>2, <1>5, <1>6, <1>8 DEF NvmStatus, WaitReady
<1>9. CASE ~tgt.wrerr /\ tgt.busy > 0
  <2>1. NvmStatus(o.st) = "Busy"
    BY <1>5, <1>9 DEF NvmStatus
  <2>2. ASSUME InTime(poll, tgt.busy, timeout)
        PROVE  pc' = here /\ InTime(poll', tgt'.busy, timeout)
    <3>1. /\ ~Expired(PollMs, timeout)
          /\ PollAgain(PollMs) => InTime(poll', Less(tgt.busy, PollMs), timeout)
      BY <1>1, <1>9, <2>2, PollInTime
    <3> QED BY <1>2, <1>5, <1>6, <2>1, <3>1
  <2> QED BY <1>6, <1>9, <2>2 DEF WaitReady
<1> QED BY <1>1, <1>7, <1>8, <1>9

\* What an erase, a write and the time they take leave as it was.
StaysIn(t, u) == SameLink(t, u) /\ u.prog = t.prog /\ (t.boot = 0 => u.boot = 0)

LEMMA StaysInMode ==
    ASSUME StaysIn(tgt, tgt'), Linked, InProgmode
    PROVE  Linked' /\ InProgmode'
BY DEF StaysIn, SameLink, Linked, InProgmode

LEMMA StoreEffects ==
    ASSUME NEW t \in Targets, NEW ms \in Nat, NEW c \in Content, NEW p \in Pages
    PROVE  /\ StaysIn(t, t)
           /\ StaysIn(t, Elapse(t, ms)) /\ StaysIn(t, ClearBuffer(t))
           /\ StaysIn(t, LoadBuffer(t, p, c))
           /\ StaysIn(t, ChipErase(t, ms)) /\ StaysIn(t, WritePage(t, ms))
           /\ ClearBuffer(t).wrerr = t.wrerr /\ ClearBuffer(t).flash = t.flash
           /\ LoadBuffer(t, p, c).wrerr = t.wrerr /\ LoadBuffer(t, p, c).flash = t.flash
           /\ LoadBuffer(t, p, c).buf = c /\ LoadBuffer(t, p, c).page = p
           /\ ChipErase(t, ms).wrerr = t.wrerr /\ ChipErase(t, ms).busy = ms
           /\ WritePage(t, ms).wrerr = t.wrerr /\ WritePage(t, ms).busy = ms
           /\ t.page = p /\ t.flash[p] = "blank" => WritePage(t, ms).flash[p] = t.buf
<1>1. StaysIn(t, t) /\ StaysIn(t, Elapse(t, ms))
  BY DEF StaysIn, SameLink, Elapse, Less, Targets
<1>2. StaysIn(t, ClearBuffer(t)) /\ ClearBuffer(t).wrerr = t.wrerr /\ ClearBuffer(t).flash = t.flash
  BY DEF StaysIn, SameLink, ClearBuffer, Targets
<1>3. /\ StaysIn(t, LoadBuffer(t, p, c)) /\ LoadBuffer(t, p, c).wrerr = t.wrerr
      /\ LoadBuffer(t, p, c).flash = t.flash /\ LoadBuffer(t, p, c).buf = c
      /\ LoadBuffer(t, p, c).page = p
  BY DEF StaysIn, SameLink, LoadBuffer, Targets
<1>4. /\ StaysIn(t, ChipErase(t, ms)) /\ ChipErase(t, ms).wrerr = t.wrerr
      /\ ChipErase(t, ms).busy = ms
  BY DEF StaysIn, SameLink, ChipErase, Targets
<1>5. /\ StaysIn(t, WritePage(t, ms)) /\ WritePage(t, ms).wrerr = t.wrerr
      /\ WritePage(t, ms).busy = ms
  BY DEF StaysIn, SameLink, WritePage, Targets
<1>6. t.page = p /\ t.flash[p] = "blank" => WritePage(t, ms).flash[p] = t.buf
  BY DEF WritePage, Programmed, Targets
<1> QED BY <1>1, <1>2, <1>3, <1>4, <1>5, <1>6

\* updi_nvm_chip_erase
LEMMA EraseQuietStep ==
    ASSUME NvmFits, NvmTypeOK, GroundInv, Linked, InProgmode, EraseQuiet,
           EraseChip \/ ClearCommand, faults' = faults
    PROVE  Linked' /\ InProgmode' /\ EraseQuiet'
<1>1. tgt \in Targets /\ PollMs \in Nat /\ 100 \in Nat /\ 500 \in Nat /\ "blank" \in Content
      /\ 1 \in Pages
  BY PollAssumption, NPagesAssumption DEF NvmTypeOK, Content, Pages
<1>2. /\ StaysIn(tgt, tgt) /\ StaysIn(tgt, Elapse(tgt, PollMs))
      /\ Elapse(tgt, PollMs).wrerr = tgt.wrerr
      /\ tgt.busy = 0 => Elapse(tgt, PollMs).busy = 0
  BY <1>1, StoreEffects, ElapseKeeps
<1>3. CASE WaitReady("chip_erase", 100, "chip_erase_cmd", "ret")
  <2>1. pc = "chip_erase" /\ tgt' = Elapse(tgt, PollMs) /\ (tgt.wrerr => pc' = "ret" /\ ret' = "ErrNvm")
        /\ (~tgt.wrerr /\ InTime(poll, tgt.busy, 100) =>
               \/ tgt.busy = 0 /\ pc' = "chip_erase_cmd" /\ ret' = "Ok"
               \/ tgt.busy > 0 /\ pc' = "chip_erase" /\ InTime(poll', tgt'.busy, 100))
    BY <1>1, <1>3, QuietWaitReady
  <2>2. tgt.busy = 0 /\ InTime(poll, tgt.busy, 100)
    BY <2>1 DEF EraseQuiet, InTime
  <2> QED BY <1>2, <2>1, <2>2, StaysInMode DEF EraseQuiet
<1>4. CASE \E ms \in EraseTimes :
             Command("chip_erase_cmd", ChipErase(tgt, ms), "chip_erase_wait")
  <2>1. PICK ms \in EraseTimes : Command("chip_erase_cmd", ChipErase(tgt, ms), "chip_erase_wait")
    BY <1>4
  <2>2. pc = "chip_erase_cmd" /\ tgt' = ChipErase(tgt, ms) /\ pc' = "chip_erase_wait" /\ ms \in Nat
    BY <2>1, NvmAssumption, QuietStore
  <2>3. StaysIn(tgt, tgt') /\ tgt'.wrerr = tgt.wrerr /\ tgt'.busy = ms
    BY <1>1, <2>2, StoreEffects
  <2>4. poll' = NoPoll
    BY <2>1, <2>2, NotPolling DEF GroundInv, Command, Try
  <2>5. InTime(poll', tgt'.busy, 500)
    BY <2>1, <2>2, <2>3, <2>4, <1>1, FitsInTime DEF NvmFits
  <2> QED BY <2>2, <2>3, <2>5, StaysInMode DEF EraseQuiet
<1>5. CASE WaitReady("chip_erase_wait", 500, Finish, Finish)
  <2>1. /\ pc = "chip_erase_wait" /\ tgt' = Elapse(tgt, PollMs)
        /\ ~tgt.wrerr /\ InTime(poll, tgt.busy, 500) =>
               \/ tgt.busy = 0 /\ pc' = Finish /\ ret' = "Ok"
               \/ tgt.busy > 0 /\ pc' = "chip_erase_wait" /\ InTime(poll', tgt'.busy, 500)
    BY <1>1, <1>5, QuietWaitReady
  <2>2. ~tgt.wrerr /\ InTime(poll, tgt.busy, 500)
    BY <2>1 DEF EraseQuiet
  <2>3. Finish \in {"nocmd", "ret"}
    BY DEF Finish
  <2> QED BY <1>2, <2>1, <2>2, <2>3, StaysInMode DEF EraseQuiet
<1>6. CASE ClearCommand
  BY <1>6, ClearCommandStep DEF EraseQuiet, Linked, InProgmode
<1> QED BY <1>3, <1>4, <1>5, <1>6 DEF EraseChip

\* updi_nvm_write_flash_page
LEMMA WriteQuietStep ==
    ASSUME NvmFits, TypeOK, GroundInv, Linked, InProgmode, Writing, WriteQuiet, ~tgt.wrerr,
           WrittenUpTo(cursor - 1), WriteFlashPage \/ ClearCommand, UNCHANGED <<arg, cursor, file>>,
           faults' = faults
    PROVE  Linked' /\ InProgmode' /\ WriteQuiet' /\ ~tgt'.wrerr /\ WrittenUpTo(cursor - 1)'
<1>1. /\ tgt \in Targets /\ PollMs \in Nat /\ 100 \in Nat /\ NvmTypeOK /\ arg.page \in Pages
      /\ arg.data \in Content /\ arg.page = cursor /\ cursor \in Nat
  BY PollAssumption DEF TypeOK, NvmTypeOK, Content, Writing
<1>2. /\ StaysIn(tgt, Elapse(tgt, PollMs)) /\ Elapse(tgt, PollMs).wrerr = tgt.wrerr
      /\ Elapse(tgt, PollMs).flash = tgt.flash
  BY <1>1, StoreEffects, ElapseKeeps
<1>3. ASSUME StaysIn(tgt, tgt'), tgt'.wrerr = tgt.wrerr, tgt'.flash = tgt.flash
      PROVE  Linked' /\ InProgmode' /\ ~tgt'.wrerr /\ WrittenUpTo(cursor - 1)'
  BY <1>3, StaysInMode DEF WrittenUpTo
<1>4. arg'.page = cursor' /\ arg'.data = file'.page[cursor']
  BY DEF WriteQuiet
<1>5. ASSUME NEW here \in BeforeWrite, NEW there \in BeforeWrite \ {"write_cmd"}, here # "write_cmd",
             WaitReady(here, 100, there, "ret")
      PROVE  Linked' /\ InProgmode' /\ WriteQuiet' /\ ~tgt'.wrerr /\ WrittenUpTo(cursor - 1)'
  <2>1. pc = here /\ tgt' = Elapse(tgt, PollMs)
        /\ (~tgt.wrerr /\ InTime(poll, tgt.busy, 100) =>
               \/ tgt.busy = 0 /\ pc' = there /\ ret' = "Ok"
               \/ tgt.busy > 0 /\ pc' = here /\ InTime(poll', tgt'.busy, 100))
    BY <1>1, <1>5, QuietWaitReady
  <2>2. tgt.busy = 0 /\ InTime(poll, tgt.busy, 100)
    BY <1>5, <2>1 DEF Writing, Calm, InTime
  <2>3. pc' = there
    BY <2>1, <2>2
  <2> QED BY <1>2, <1>3, <1>4, <1>5, <2>1, <2>3 DEF WriteQuiet, BeforeWrite
<1>6. CASE Command("write_clear", ClearBuffer(tgt), "write_clear_wait")
  <2>1. tgt' = ClearBuffer(tgt) /\ pc' = "write_clear_wait"
    BY <1>1, <1>6, QuietStore
  <2>2. StaysIn(tgt, tgt') /\ tgt'.wrerr = tgt.wrerr /\ tgt'.flash = tgt.flash
    BY <1>1, <2>1, StoreEffects
  <2> QED BY <1>3, <1>4, <2>1, <2>2 DEF WriteQuiet
<1>7. CASE Try("write_fill", WriteDataWords(tgt, arg.page, arg.data), "write_cmd")
  <2>1. tgt' = LoadBuffer(tgt, arg.page, arg.data) /\ pc' = "write_cmd"
    BY <1>1, <1>7, QuietFill
  <2>2. /\ StaysIn(tgt, tgt') /\ tgt'.wrerr = tgt.wrerr /\ tgt'.flash = tgt.flash
        /\ tgt'.page = arg.page /\ tgt'.buf = arg.data
    BY <1>1, <2>1, StoreEffects
  <2> QED BY <1>3, <1>4, <2>1, <2>2 DEF WriteQuiet
<1>8. CASE \E ms \in WriteTimes :
             Command("write_cmd", WritePage(tgt, ms), "write_wait")
  <2>1. PICK ms \in WriteTimes : Command("write_cmd", WritePage(tgt, ms), "write_wait")
    BY <1>8
  <2>2. pc = "write_cmd" /\ tgt' = WritePage(tgt, ms) /\ pc' = "write_wait" /\ ms \in Nat
    BY <1>1, <2>1, NvmAssumption, QuietStore
  <2>3. tgt.page = cursor /\ tgt.buf = arg.data /\ tgt.flash[cursor] = "blank"
    <3>1. BlankAfter(cursor - 1) /\ cursor > cursor - 1
      BY <1>1, <2>2 DEF Writing, BeforeWrite
    <3> QED BY <1>1, <2>2, <3>1 DEF WriteQuiet, BlankAfter
  <2>4. /\ StaysIn(tgt, tgt') /\ tgt'.wrerr = tgt.wrerr /\ tgt'.busy = ms
        /\ tgt'.flash[cursor] = arg.data
    BY <1>1, <2>2, <2>3, StoreEffects
  <2>5. WrittenUpTo(cursor - 1)'
    <3> SUFFICES ASSUME NEW p \in Pages, p <= cursor - 1, p <= file.len
                 PROVE  tgt'.flash[p] = file.page[p]
      BY DEF WrittenUpTo
    <3>1. p # tgt.page
      BY <1>1, <2>3 DEF Pages
    <3> QED BY <1>1, <2>2, <3>1, PageCommandOthers DEF WrittenUpTo
  <2>6. poll' = NoPoll
    BY <2>1, <2>2, NotPolling DEF GroundInv, Command, Try
  <2>7. InTime(poll', tgt'.busy, 100)
    BY <1>1, <2>1, <2>2, <2>4, <2>6, FitsInTime DEF NvmFits
  <2> QED BY <1>4, <2>2, <2>4, <2>5, <2>7, StaysInMode DEF WriteQuiet
<1>9. CASE WaitReady("write_wait", 100, Finish, Finish)
  <2>1. /\ pc = "write_wait" /\ tgt' = Elapse(tgt, PollMs)
        /\ ~tgt.wrerr /\ InTime(poll, tgt.busy, 100) =>
               \/ tgt.busy = 0 /\ pc' = Finish /\ ret' = "Ok"
               \/ tgt.busy > 0 /\ pc' = "write_wait" /\ InTime(poll', tgt'.busy, 100)
    BY <1>1, <1>9, QuietWaitReady
  <2>2. InTime(poll, tgt.busy, 100) /\ tgt.flash[cursor] = arg.data
    BY <2>1 DEF WriteQuiet
  <2>3. Finish \in {"nocmd", "ret"}
    BY DEF Finish
  <2> QED BY <1>2, <1>3, <1>4, <2>1, <2>2, <2>3 DEF WriteQuiet
<1>10. CASE ClearCommand
  <2>1. pc = "nocmd" /\ pc' = "ret" /\ tgt' = tgt /\ ret' = ret
    BY <1>10, ClearCommandStep
  <2> QED BY <1>4, <2>1 DEF WriteQuiet, WrittenUpTo, Linked, InProgmode
<1>11. /\ {"write_page", "write_clear_wait"} \subseteq BeforeWrite \ {"write_cmd"}
       /\ {"write_clear", "write_fill"} \subseteq BeforeWrite \ {"write_cmd"}
  BY DEF BeforeWrite
<1> QED BY <1>5, <1>6, <1>7, <1>8, <1>9, <1>10, <1>11 DEF WriteFlashPage

-----------------------------------------------------------------------------
(* Undisturbed: Flash                                                      *)

LEMMA QuietFlashNvm ==
    ASSUME UnlocksFit, NvmFits, SessionInv, GroundInv, SessionQuiet, op = "Flash" => FlashQuiet,
           NvmStep, UNCHANGED <<workerVars, history>>, faults' = faults
    PROVE  SessionQuiet' /\ (op = "Flash" => FlashQuiet')
<1>1. /\ NvmTypeOK /\ TypeOK /\ CallInv /\ ContentInv /\ (tgt.prog => ~tgt.locked)
      /\ CalledStep /\ tgt \in Targets
      /\ UNCHANGED <<wpc, op, result, retried, transport, file, cursor, arg>>
  BY CallStep, ArgumentsStay DEF SessionInv, TypeOK, NvmTypeOK, ConnectInv, workerVars
<1>2. CASE Activate \/ EnterProgmode \/ (Reads /\ wpc = "signature")
  <2>1. wpc \in {"activate", "sib", "enter", "signature"}
    <3>1. CASE Activate \/ EnterProgmode
      <4>1. pc # "ret" /\ pc \in PlacesOf(wpc)
        BY <3>1, ControlFlow, ProgmodeFlow DEF ActivatePlaces, EnterPlaces, ProgmodePlaces, LeavePlaces, CallInv,
           SessionInv
      <4>2. pc \in ActivatePlaces \cup EnterPlaces
        BY <3>1, ControlFlow, ProgmodeFlow
      <4> QED BY <4>1, <4>2, Callers
    <3> QED BY <1>2, <3>1
  <2>2. ~tgt.locked => ~tgt'.locked
    BY <1>1, <1>2, ControlStep, ReadStep DEF Controlled
  <2> QED BY <1>1, <2>1, <2>2 DEF SessionQuiet, FlashQuiet
<1>3. CASE wpc \in {"disconnect", "dump_page", "fuse"}
  BY <1>1, <1>3 DEF SessionQuiet, FlashQuiet
<1>4. CASE Unlock /\ wpc = "unlock"
  BY <1>1, <1>4, UnlockQuietStep DEF SessionQuiet, FlashQuiet
<1>5. CASE Reads /\ pc = "read" /\ wpc = "verify_page"
  <2>1. Linked /\ InProgmode /\ faults \in Nat
    BY <1>1, <1>5, FaultsLeft DEF SessionQuiet
  <2>2. Acknowledges(tgt)
    BY <2>1 DEF Linked, InProgmode, GroundInv, Acknowledges, Accessible, Responds, NvmProgStatus
  <2>3. Read("read", ReadData(tgt), tgt.flash[arg.page])
    BY <1>5 DEF Reads, Read
  <2>4. tgt' = tgt /\ ret' = "Ok"
    BY <2>1, <2>2, <2>3 DEF Read, ReadData, Out, Take
  <2> QED BY <1>1, <1>5, <2>4 DEF SessionQuiet, FlashQuiet, WrittenUpTo, Linked, InProgmode
<1>6. CASE wpc = "erase" /\ (EraseChip \/ ClearCommand)
  <2>1. Linked' /\ InProgmode' /\ EraseQuiet'
    BY <1>1, <1>6, EraseQuietStep DEF SessionQuiet
  <2> QED BY <1>1, <1>6, <2>1 DEF SessionQuiet, FlashQuiet
<1>7. CASE wpc = "write_page" /\ (WriteFlashPage \/ ClearCommand)
  <2>1. op = "Flash" /\ Linked /\ InProgmode /\ FlashQuiet /\ Writing
    BY <1>1, <1>7 DEF CallInv, SessionQuiet, ContentInv
  <2>2. Linked' /\ InProgmode' /\ WriteQuiet' /\ ~tgt'.wrerr /\ WrittenUpTo(cursor - 1)'
    BY <1>1, <1>7, <2>1, WriteQuietStep DEF FlashQuiet
  <2> QED BY <1>1, <1>7, <2>1, <2>2 DEF SessionQuiet, FlashQuiet
<1> QED BY <1>1, <1>2, <1>3, <1>4, <1>5, <1>6, <1>7 DEF CalledStep

LEMMA SessionQuietWorker ==
    ASSUME SessionInv, ConnectQuiet, SessionQuiet, DoConnect \/ Operation
    PROVE  SessionQuiet'
<1>1. pc = "ret" /\ UNCHANGED <<tgt, ret, op>> /\ ContentInv
  BY WorkerKeeps DEF SessionInv
<1>2. Linked => Linked'
  BY <1>1 DEF Linked
<1>3. InProgmode => InProgmode'
  BY <1>1 DEF InProgmode
<1>4. CASE DoConnect
  <2>1. ASSUME NEW st, ConnectFailed(st), st = "ErrLocked" => Linked PROVE SessionQuiet'
    <3>1. CASE wpc' = "unlock"
      <4>1. pc' = "unlock" /\ Linked /\ op \in EraseOps
        BY <2>1, <3>1 DEF ConnectFailed, Invoke, Return
      <4> QED BY <1>1, <1>2, <3>1, <4>1 DEF SessionQuiet, UnlockQuiet
    <3>2. CASE wpc' = "idle"
      BY <3>2 DEF SessionQuiet
    <3> QED BY <2>1, <3>1, <3>2 DEF ConnectFailed, Return
  <2>2. CASE EnsureTransport
    BY <1>1, <2>2 DEF EnsureTransport, At, SessionQuiet
  <2>3. CASE SessionConnect
    BY <1>1, <2>3 DEF SessionConnect, At, SessionQuiet
  <2>4. CASE Activated
    <3>1. ret # "ErrLocked"
      BY <2>4 DEF Activated, At, ConnectQuiet, ActivateQuiet
    <3> QED BY <1>1, <2>1, <2>4, <3>1 DEF Activated, At, Call, SessionQuiet
  <2>5. CASE SibRead
    <3>1. ret = "Ok"
      BY <2>5 DEF SibRead, At, ConnectQuiet, SibQuiet
    <3> QED BY <1>1, <2>5, <3>1 DEF SibRead, At, SessionQuiet
  <2>6. CASE Entered
    <3>1. Linked
      BY <2>6 DEF Entered, At, ConnectQuiet, EnterQuiet
    <3> QED BY <1>1, <2>1, <2>6, <3>1 DEF Entered, At, Call, SessionQuiet
  <2>7. CASE Identified
    <3>1. Linked /\ InProgmode
      BY <2>7 DEF Identified, At, ConnectQuiet, SignatureQuiet
    <3> QED BY <1>2, <1>3, <2>1, <2>7, <3>1 DEF Identified, SessionQuiet
  <2>8. CASE Unlocked
    <3>1. ret = "Ok" /\ ~tgt.locked
      BY <2>8 DEF Unlocked, At, SessionQuiet, UnlockQuiet
    <3> QED BY <1>1, <2>8, <3>1 DEF Unlocked, Goto, SessionQuiet
  <2> QED BY <1>4, <2>2, <2>3, <2>4, <2>5, <2>6, <2>7, <2>8 DEF DoConnect
<1>5. ASSUME wpc \in {"body", "parse", "erase", "write", "write_page", "verify", "verify_page"},
             wpc' \notin {"unlock", "transport", "connect", "activate", "sib", "enter", "signature"},
             wpc' = "erase" => wpc # "erase" /\ wpc # "write_page" /\ pc' = "chip_erase"
      PROVE  SessionQuiet'
  <2>1. Linked' /\ InProgmode'
    BY <1>2, <1>3, <1>5 DEF SessionQuiet
  <2>2. wpc' = "erase" => EraseQuiet'
    BY <1>1, <1>5 DEF EraseQuiet, ContentInv, Calm
  <2> QED BY <1>5, <2>1, <2>2 DEF SessionQuiet
<1>6. CASE Body \/ ParseHexFile \/ Erased
  BY <1>5, <1>6 DEF Body, ParseHexFile, Erased, At, Call, Goto, Return, DisconnectAndReturn, Invoke
<1>7. CASE WriteFlash \/ PageWritten \/ VerifyFlash \/ PageVerified
  BY <1>5, <1>7 DEF WriteFlash, PageWritten, VerifyFlash, PageVerified, At, CallPage, Goto, Return,
     DisconnectAndReturn
<1>8. CASE DumpFlash \/ PageDumped \/ SaveDump \/ ReadFuses \/ FuseRead \/ Disconnected
  BY <1>8 DEF DumpFlash, PageDumped, SaveDump, ReadFuses, FuseRead, Disconnected, Call, CallPage,
     Goto, Return, DisconnectAndReturn, SessionQuiet
<1> QED BY <1>4, <1>6, <1>7, <1>8 DEF Operation

LEMMA FlashQuietWorker ==
    ASSUME SessionInv, ConnectQuiet, SessionQuiet, FlashQuiet, op = "Flash", DoConnect \/ Operation
    PROVE  FlashQuiet'
<1>1. /\ pc = "ret" /\ UNCHANGED <<tgt, ret, val, op, file>> /\ CallInv /\ ConnectInv /\ ContentInv
      /\ cursor \in Nat \ {0} /\ file.len \in Nat
  BY WorkerKeeps, NPagesAssumption DEF SessionInv, TypeOK, Images, BadFile
<1>2. CASE DoConnect
  <2>1. ASSUME NEW st, ConnectFailed(st),
               st = "ErrLocked" => ~retried, st # "ErrLocked" => ~Known(tgt.chip)
        PROVE  FlashQuiet'
    BY <1>1, <2>1 DEF ConnectFailed, Return, EraseOps, FlashQuiet
  <2>2. CASE EnsureTransport
    BY <2>2 DEF EnsureTransport, FlashQuiet
  <2>3. CASE SessionConnect
    BY <2>3 DEF SessionConnect, FlashQuiet
  <2>4. CASE Activated
    <3>1. ret # "Ok" => tgt.chip = "none" /\ ret = "ErrTimeout"
      BY <2>4 DEF Activated, At, ConnectQuiet, ActivateQuiet
    <3> QED BY <2>1, <2>4, <3>1 DEF Activated, Call, Known, FlashQuiet
  <2>5. CASE SibRead
    <3>1. ret = "Ok"
      BY <2>5 DEF SibRead, At, ConnectQuiet, SibQuiet
    <3> QED BY <2>5, <3>1 DEF SibRead, FlashQuiet
  <2>6. CASE Entered
    <3>1. ret # "Ok" => ret = "ErrLocked" /\ ~retried
      BY <2>6 DEF Entered, At, ConnectQuiet, EnterQuiet, SessionQuiet
    <3> QED BY <2>1, <2>6, <3>1 DEF Entered, Call, FlashQuiet
  <2>7. CASE Identified
    <3>1. ret = "Ok" /\ val = tgt.chip
      BY <1>1, <2>7 DEF Identified, At, ConnectQuiet, SignatureQuiet, ConnectInv
    <3> QED BY <2>1, <2>7, <3>1 DEF Identified, FlashQuiet
  <2>8. CASE Unlocked
    <3>1. ret = "Ok"
      BY <2>8 DEF Unlocked, At, SessionQuiet, UnlockQuiet
    <3> QED BY <2>8, <3>1 DEF Unlocked, Goto, FlashQuiet
  <2> QED BY <1>2, <2>2, <2>3, <2>4, <2>5, <2>6, <2>7, <2>8 DEF DoConnect
<1>3. CASE Body \/ ParseHexFile
  BY <1>1, <1>3 DEF Body, ParseHexFile, Call, Goto, Return, FlashQuiet
<1>4. CASE Erased
  <2>1. ret = IF tgt.wrerr THEN "ErrNvm" ELSE "Ok"
    BY <1>4 DEF Erased, At, SessionQuiet, EraseQuiet
  <2>2. CASE tgt.wrerr
    BY <1>1, <1>4, <2>1, <2>2 DEF Erased, Return, FlashQuiet
  <2>3. CASE ~tgt.wrerr
    <3>1. wpc' = "write" /\ cursor' = 1
      BY <1>4, <2>1, <2>3 DEF Erased, Goto
    <3> QED BY <1>1, <2>3, <3>1 DEF FlashQuiet, WrittenUpTo, Pages
  <2> QED BY <2>2, <2>3
<1>5. CASE WriteFlash
  <2>1. wpc = "write" /\ ~tgt.wrerr /\ WrittenUpTo(cursor - 1) /\ BlankAfter(cursor - 1)
    BY <1>1, <1>5 DEF WriteFlash, At, FlashQuiet, ContentInv
  <2>2. CASE cursor > file.len
    <3>1. wpc' = "verify"
      BY <1>5, <2>2 DEF WriteFlash, Goto
    <3>2. WrittenUpTo(file.len)'
      BY <1>1, <2>1, <2>2 DEF WrittenUpTo, Pages
    <3> QED BY <3>1, <3>2 DEF FlashQuiet
  <2>3. CASE ~(cursor > file.len) /\ file.page[cursor] = "blank"
    <3>1. wpc' = "write" /\ cursor' = cursor + 1
      BY <1>5, <2>3 DEF WriteFlash, Goto
    <3>2. WrittenUpTo(cursor - 1)'
      <4> SUFFICES ASSUME NEW p \in Pages, p <= cursor + 1 - 1, p <= file.len
                   PROVE  tgt.flash[p] = file.page[p]
        BY <1>1, <3>1 DEF WrittenUpTo
      <4>1. CASE p = cursor
        BY <1>1, <2>1, <2>3, <4>1 DEF BlankAfter
      <4>2. CASE p # cursor
        BY <1>1, <2>1, <4>2 DEF WrittenUpTo, Pages
      <4> QED BY <4>1, <4>2
    <3> QED BY <1>1, <2>1, <3>1, <3>2 DEF FlashQuiet
  <2>4. CASE ~(cursor > file.len) /\ file.page[cursor] # "blank"
    <3>1. /\ wpc' = "write_page" /\ cursor' = cursor /\ pc' = "write_page"
          /\ arg' = [page |-> cursor, data |-> file.page[cursor]]
      BY <1>5, <2>4 DEF WriteFlash, CallPage, Invoke
    <3>2. WriteQuiet'
      BY <1>1, <3>1 DEF WriteQuiet
    <3>3. WrittenUpTo(cursor - 1)'
      BY <1>1, <2>1, <3>1 DEF WrittenUpTo
    <3> QED BY <1>1, <2>1, <3>1, <3>2, <3>3 DEF FlashQuiet
  <2> QED BY <2>2, <2>3, <2>4
<1>6. CASE PageWritten
  <2>1. ret = "Ok" /\ ~tgt.wrerr /\ WrittenUpTo(cursor - 1) /\ tgt.flash[cursor] = file.page[cursor]
    BY <1>6 DEF PageWritten, At, FlashQuiet, WriteQuiet
  <2>2. wpc' = "write" /\ cursor' = cursor + 1
    BY <1>6, <2>1 DEF PageWritten, Goto
  <2>3. WrittenUpTo(cursor - 1)'
    <3> SUFFICES ASSUME NEW p \in Pages, p <= cursor + 1 - 1, p <= file.len
                 PROVE  tgt.flash[p] = file.page[p]
      BY <1>1, <2>2 DEF WrittenUpTo
    <3> QED BY <1>1, <2>1 DEF WrittenUpTo, Pages
  <2> QED BY <1>1, <2>1, <2>2, <2>3 DEF FlashQuiet
<1>7. CASE VerifyFlash
  <2>1. WrittenUpTo(file.len)'
    BY <1>1, <1>7 DEF VerifyFlash, At, FlashQuiet, WrittenUpTo
  <2>2. CASE cursor > file.len
    BY <1>7, <2>2 DEF VerifyFlash, DisconnectAndReturn, FlashQuiet
  <2>3. CASE ~(cursor > file.len)
    <3>1. wpc' = "verify_page" /\ cursor' = cursor /\ pc' = "read" /\ cursor <= file.len
      BY <1>1, <1>7, <2>3 DEF VerifyFlash, CallPage, Invoke
    <3> QED BY <1>1, <2>1, <3>1 DEF FlashQuiet
  <2> QED BY <2>2, <2>3
<1>8. CASE PageVerified
  <2>1. /\ ret = "Ok" /\ cursor <= file.len /\ WrittenUpTo(file.len) /\ val = tgt.flash[cursor]
        /\ cursor \in Pages
    BY <1>1, <1>8 DEF PageVerified, At, FlashQuiet, ContentInv, SessionInv, TypeOK, NvmTypeOK
  <2>2. val = file.page[cursor]
    BY <1>1, <2>1 DEF WrittenUpTo
  <2>3. wpc' = "verify"
    BY <1>8, <2>1, <2>2 DEF PageVerified, Goto
  <2> QED BY <1>1, <2>1, <2>3 DEF FlashQuiet, WrittenUpTo
<1>9. ~DumpFlash /\ ~PageDumped /\ ~SaveDump /\ ~ReadFuses /\ ~FuseRead
  BY <1>1 DEF DumpFlash, PageDumped, SaveDump, ReadFuses, FuseRead, At, CallInv
<1>10. CASE Disconnected
  BY <1>10 DEF Disconnected, At, FlashQuiet
<1> QED BY <1>2, <1>3, <1>4, <1>5, <1>6, <1>7, <1>8, <1>9, <1>10 DEF Operation

LEMMA QuietFlashInvNext ==
    ASSUME UnlocksFit, NvmFits, SessionInv, GroundInv, QuietInv, QuietFlashInv, [Next]_vars
    PROVE  QuietFlashInv'
<1>1. faults \in Nat /\ budget \in Nat /\ NvmTypeOK /\ faults <= budget
  BY FaultsLeft, NvmAssumption DEF SessionInv, TypeOK, GroundInv
<1>2. CASE NvmStep /\ UNCHANGED <<workerVars, history>>
  <2> SUFFICES ASSUME Undisturbed' PROVE SessionQuiet' /\ (op' = "Flash" => FlashQuiet')
    BY DEF QuietFlashInv
  <2>1. faults' = budget /\ faults' <= faults /\ faults' \in Nat /\ op' = op
    <3>1. NvmTypeOK'
      BY <1>1, <1>2, NvmStepType
    <3> QED BY <1>2, <3>1, NvmAssumption, GroundInvNvm
            DEF Undisturbed, history, workerVars, NvmTypeOK
  <2>2. faults' = faults /\ Undisturbed
    BY <1>1, <2>1 DEF Undisturbed
  <2> QED BY <1>2, <2>1, <2>2, QuietFlashNvm DEF QuietFlashInv
<1>3. CASE (DoConnect \/ Operation) /\ UNCHANGED history
  <2>1. UNCHANGED <<faults, budget, op>>
    BY <1>3, WorkerKeeps DEF history
  <2> QED BY <1>3, <2>1, SessionQuietWorker, FlashQuietWorker
          DEF QuietFlashInv, QuietInv, Undisturbed
<1>4. CASE PowerCycle /\ UNCHANGED <<workerVars, history>>
  <2>1. faults' = faults - 1 /\ budget' = budget
    BY <1>4 DEF PowerCycle, history
  <2> QED BY <1>1, <2>1 DEF QuietFlashInv, Undisturbed
<1>5. ASSUME NEW o \in UserOps, Start(o) PROVE QuietFlashInv'
  BY <1>5 DEF Start, QuietFlashInv, SessionQuiet, FlashQuiet
<1>6. CASE Relaunch \/ SwapTarget
  BY <1>6 DEF Relaunch, SwapTarget, QuietFlashInv, SessionQuiet
<1>7. CASE UNCHANGED vars
  <2>1. SessionQuiet' <=> SessionQuiet
    BY <1>7 DEF SessionQuiet, UnlockQuiet, EraseQuiet, InTime, Linked, InProgmode, vars, nvmVars,
       workerVars
  <2>2. FlashQuiet' <=> FlashQuiet
    BY <1>7 DEF FlashQuiet, WrittenUpTo, WriteQuiet, InTime, vars, nvmVars, workerVars
  <2>3. UNCHANGED <<op, faults, budget>>
    BY <1>7 DEF vars, nvmVars, workerVars, history
  <2> QED BY <2>1, <2>2, <2>3 DEF QuietFlashInv, Undisturbed
<1> QED BY <1>2, <1>3, <1>4, <1>5, <1>6, <1>7 DEF Next, WorkerStep, Environment

(***************************************************************************)
(* An undisturbed Flash of a file that is not refused succeeds on every    *)
(* supported target, locked or not, in whatever state any number of        *)
(* earlier faults left it, a write error in NVMCTRL excepted, provided     *)
(* that the target is as fast as the waits of updi_nvm.c expect.           *)
(***************************************************************************)
THEOREM FlashSucceeds ==
    ASSUME BootsFit, UnlocksFit, NvmFits
    PROVE  Spec => []FlashRecovers
<1> DEFINE Inv == SessionInv /\ GroundInv /\ QuietInv /\ QuietFlashInv
<1>1. Init => Inv
  <2>1. Init => QuietInv
    BY DEF Init, QuietInv, ConnectQuiet, ReportQuiet
  <2>2. Init => QuietFlashInv
    BY DEF Init, QuietFlashInv, SessionQuiet
  <2> QED BY <2>1, <2>2, SessionInvInit, GroundInvInit
<1>2. Inv /\ [Next]_vars => Inv'
  BY SessionInvNext, GroundInvNext, QuietInvNext, QuietFlashInvNext
<1>3. Inv => FlashRecovers
  BY DEF QuietFlashInv, FlashQuiet, FlashRecovers, Over
<1> QED BY <1>1, <1>2, <1>3, PTL DEF Spec

-----------------------------------------------------------------------------
(* Two faults: the application runs again                                  *)

\* Past the BREAK of an operation that nothing disturbs, until UPDI is disabled.
Reached ==
    \/ wpc \in {"sib", "enter", "signature", "unlock"} \cup SessionPlaces
    \/ wpc = "activate" /\ pc # "activate"
    \/ wpc = "disconnect" /\ pc # "ret"
AwakeInv == Undisturbed /\ Reached => tgt.chip = "none" \/ ~tgt.dis

\* The target has started when an operation begins, and when an unlock succeeded.
StartedInv ==
    /\ wpc \in {"transport", "connect", "activate", "sib"} => tgt.boot = 0
    /\ wpc = "enter" /\ pc = "enter" => tgt.boot = 0
    /\ wpc = "unlock" /\ pc = "ret" /\ ret = "Ok" => tgt.boot = 0

\* A target that is in programming mode gets an NVMProg key only when its answer
\* was lost and the reset was: no fault is left to keep the key from its use.
SpareKeyInv ==
    /\ tgt.dis => ~tgt.nvmKey
    /\ tgt.prog /\ tgt.nvmKey => pc \in {"nvm_key_status", "apply"}
    /\ tgt.prog /\ ~tgt.dis =>
          /\ pc = "hold" => faults + 1 <= MaxFaults
          /\ pc \in {"nvm_key", "nvm_key_status", "apply"} => faults + 2 <= MaxFaults

\* updi_nvm_leave_progmode resets the target without a key, then disables UPDI.
LeaveQuiet ==
    /\ pc = "leave" => ~tgt.nvmKey
    /\ pc = "leave_release" => tgt.rst /\ ~tgt.prog /\ ~tgt.nvmKey
    /\ pc = "leave_disable" => ~tgt.rst /\ ~tgt.prog
    /\ pc = "ret" => Running(tgt)
LeavingInv ==
    Undisturbed =>
        /\ wpc = "disconnect" /\ tgt.chip # "none" => LeaveQuiet
        /\ wpc = "idle" /\ op # "None" /\ result = "Ok" => Running(tgt)

RunningInv == AwakeInv /\ StartedInv /\ SpareKeyInv /\ LeavingInv

\* What an instruction does to the NVMProg key and to what it depends on.
KeyUse(p, t, u) ==
    /\ u.chip = t.chip
    /\ p # "leave_disable" /\ u.dis => t.dis
    /\ (t.dis => ~t.nvmKey) => (u.dis => ~u.nvmKey)
    /\ p # "nvm_key" /\ u.nvmKey => t.nvmKey
    /\ u.prog => t.prog \/ ~u.nvmKey
    /\ p \notin ReleasePlaces /\ t.boot = 0 => u.boot = 0

LEMMA KeyUseEffects ==
    ASSUME NEW t \in Targets, NEW p,
           NEW u, u \in InstructionsAt(p, t) \/ u = TakeKey(t, "NVMErase") \/ Kept(t, u)
    PROVE  KeyUse(p, t, u)
<1>1. KeyUse(p, t, t)
  BY DEF KeyUse
<1>2. KeyUse(p, t, Break(t)) /\ KeyUse(p, t, DoubleBreak(t)) /\ KeyUse(p, t, SetRsd(t, FALSE))
  BY DEF KeyUse, Break, DoubleBreak, SetRsd, Targets
<1>3. KeyUse(p, t, HoldReset(t)) /\ KeyUse(p, t, TakeKey(t, "NVMErase"))
  BY DEF KeyUse, HoldReset, TakeKey, Responds, Targets
<1>4. p = "leave_disable" => KeyUse(p, t, Disable(t))
  BY DEF KeyUse, Disable, Responds, Targets, ReleasePlaces
<1>5. p = "nvm_key" => KeyUse(p, t, TakeKey(t, "NVMProg"))
  BY DEF KeyUse, TakeKey, Responds, Targets, ReleasePlaces
<1>6. ASSUME NEW ms \in Nat, p \in ReleasePlaces PROVE KeyUse(p, t, ReleaseReset(t, ms))
  <2>1. CASE t.dis \/ ~t.rst
    BY <1>1, <2>1 DEF ReleaseReset, Responds
  <2>2. CASE ~t.dis /\ t.rst
    BY <1>6, <2>2, ReleaseEffects DEF KeyUse, SameLink
  <2> QED BY <2>1, <2>2
<1>7. ASSUME NEW ms \in Nat PROVE KeyUse(p, t, Elapse(t, ms))
  BY DEF KeyUse, Elapse, Less, Targets
<1>8. Kept(t, u) => KeyUse(p, t, u)
  BY DEF KeyUse, Kept
<1> QED BY <1>1, <1>2, <1>3, <1>4, <1>5, <1>6, <1>7, <1>8 DEF InstructionsAt

\* The facts about a step of a function that the proofs below have in common.
LEMMA RunningStep ==
    ASSUME SessionInv, GroundInv, NvmStep, UNCHANGED <<workerVars, history>>
    PROVE  /\ tgt \in Targets /\ NvmTypeOK /\ CalledStep /\ KeyUse(pc, tgt, tgt')
           /\ pc \in PlacesOf(wpc) /\ pc' \in PlacesOf(wpc)
           /\ UNCHANGED <<wpc, op, result, budget>>
           /\ faults \in Nat /\ faults' \in Nat /\ budget \in Nat /\ MaxFaults \in Nat
           /\ faults' <= faults /\ faults <= budget
           /\ Undisturbed' => Undisturbed /\ faults' = faults
<1>1. NvmTypeOK /\ NvmTypeOK' /\ CallInv /\ budget \in Nat /\ faults <= budget
  BY NvmStepType, NvmAssumption DEF SessionInv, TypeOK, GroundInv
<1>2. tgt \in Targets /\ faults \in Nat /\ faults' \in Nat /\ MaxFaults \in Nat
  BY <1>1, NvmAssumption DEF NvmTypeOK
<1>3. faults' <= faults
  BY GroundInvNvm
<1>4. KeyUse(pc, tgt, tgt')
  BY <1>2, MachineResult, KeyUseEffects
<1>5. UNCHANGED <<wpc, op, result, budget>>
  BY DEF workerVars, history
<1>6. Undisturbed' => Undisturbed /\ faults' = faults
  BY <1>1, <1>2, <1>3, <1>5 DEF Undisturbed
<1> QED BY <1>1, <1>2, <1>3, <1>4, <1>5, <1>6, CallStep DEF CallInv

LEMMA AwakeInvNvm ==
    ASSUME SessionInv, GroundInv, AwakeInv, NvmStep, UNCHANGED <<workerVars, history>>
    PROVE  AwakeInv'
<1> SUFFICES ASSUME Undisturbed', Reached' PROVE tgt'.chip = "none" \/ ~tgt'.dis
  BY DEF AwakeInv
<1>1. /\ tgt \in Targets /\ CalledStep /\ KeyUse(pc, tgt, tgt')
      /\ Undisturbed /\ faults' = faults /\ faults \in Nat /\ wpc' = wpc
  BY RunningStep
<1>2. CASE wpc = "activate" /\ pc = "activate"
  <2>1. InitialBreak
    BY <1>1, <1>2 DEF CalledStep, Activate, InitCtrlB, InitCtrlA, CheckDatalink, SendDoubleBreak,
       CheckDatalinkAgain, ReadSibInfo, Ignore, Try
  <2>2. tgt' = Break(tgt)
    BY <1>1, <2>1, QuietIgnore DEF InitialBreak
  <2> QED BY <1>1, <2>2, QuietEffects
<1>3. CASE pc = "leave_disable"
  <2>1. wpc = "disconnect" /\ LeaveProgmode
    BY <1>1, <1>3, RunningStep, Callers DEF CalledStep, LeavePlaces
  <2>2. pc' = "ret"
    BY <1>3, <2>1 DEF LeaveProgmode, Ignore, Try
  <2> QED BY <1>1, <2>1, <2>2 DEF Reached, SessionPlaces
<1>4. CASE pc # "leave_disable" /\ ~(wpc = "activate" /\ pc = "activate")
  <2>1. pc # "ret"
    BY ReturnedRests
  <2>2. Reached
    BY <1>1, <1>4, <2>1 DEF Reached
  <2> QED BY <1>1, <1>4, <2>2 DEF AwakeInv, KeyUse
<1> QED BY <1>2, <1>3, <1>4

LEMMA StartedInvNvm ==
    ASSUME SessionInv, GroundInv, StartedInv, NvmStep, UNCHANGED <<workerVars, history>>
    PROVE  StartedInv'
<1>1. /\ tgt \in Targets /\ CalledStep /\ KeyUse(pc, tgt, tgt') /\ wpc' = wpc
      /\ pc \in PlacesOf(wpc)
  BY RunningStep
<1>2. CASE wpc \in {"activate", "sib"}
  <2>1. pc \in ActivatePlaces \cup {"ret"}
    BY <1>1, <1>2 DEF PlacesOf
  <2>2. pc \notin ReleasePlaces
    BY <2>1 DEF ActivatePlaces, ReleasePlaces
  <2> QED BY <1>1, <1>2, <2>2 DEF StartedInv, KeyUse
<1>3. CASE wpc = "enter"
  <2>1. EnterProgmode
    BY <1>1, <1>3 DEF CalledStep
  <2>2. pc' # "enter"
    BY <2>1 DEF EnterProgmode, AlreadyInProgmode, ConfirmProgmode, Try, TryBit, Ignore,
       WaitUnlocked
  <2> QED BY <1>1, <1>3, <2>2 DEF StartedInv
<1>4. CASE wpc = "unlock"
  <2> SUFFICES ASSUME pc' = "ret", ret' = "Ok" PROVE tgt'.boot = 0
    BY <1>1, <1>4 DEF StartedInv
  <2>1. Unlock
    BY <1>1, <1>4 DEF CalledStep
  <2>2. WaitUnlocked("erase_wait", 500, "ret", "ErrNvm")
    BY <2>1 DEF Unlock, Try, TryBit, Ignore
  <2>3. PICK o \in Ldcs(tgt) :
          /\ Take([o EXCEPT !.tgt = Elapse(@, CostOf(o.st))])
          /\ ~LockStatus(tgt)
    BY <2>2 DEF WaitUnlocked
  <2>4. tgt.boot = 0
    BY <1>1, <2>3 DEF LockStatus, Targets
  <2>5. pc \notin ReleasePlaces
    BY <2>2 DEF WaitUnlocked, ReleasePlaces
  <2> QED BY <1>1, <2>4, <2>5 DEF KeyUse
<1>5. CASE wpc \notin {"activate", "sib", "enter", "unlock"}
  BY <1>1, <1>5 DEF StartedInv, CalledStep
<1> QED BY <1>2, <1>3, <1>4, <1>5

\* Keys for programming mode are a matter of updi_nvm_enter_progmode, not of a call.
LEMMA NvmKeyCaller ==
    ASSUME NEW w, NEW p \in PlacesOf(w), p \in {"hold", "nvm_key", "nvm_key_status", "apply"}
    PROVE  w = "enter"
<1>1. p \in EnterPlaces
  BY DEF EnterPlaces, LeavePlaces, ProgmodePlaces
<1> QED BY <1>1, Callers

\* Once two faults are used up, the key that is taken in programming mode is used.
LEMMA SpareKeyUsed ==
    ASSUME SessionInv, GroundInv, SpareKeyInv, MaxFaults <= 2, NvmStep,
           UNCHANGED <<workerVars, history>>, tgt'.prog, tgt'.nvmKey
    PROVE  pc' \in {"nvm_key_status", "apply"}
<1>1. /\ tgt \in Targets /\ CalledStep /\ KeyUse(pc, tgt, tgt') /\ pc \in PlacesOf(wpc)
      /\ faults \in Nat /\ faults' \in Nat /\ MaxFaults \in Nat /\ faults' <= faults
  BY RunningStep
<1>2. tgt.prog
  BY <1>1 DEF KeyUse
<1>3. pc \in {"nvm_key", "nvm_key_status", "apply"} /\ ~tgt.dis
  <2>1. CASE pc # "nvm_key"
    BY <1>1, <1>2, <2>1 DEF KeyUse, SpareKeyInv
  <2>2. CASE pc = "nvm_key"
    <3>1. ~tgt.nvmKey
      BY <1>2, <2>2 DEF SpareKeyInv
    <3>2. EnterProgmode
      BY <1>1, <2>2, NvmKeyCaller DEF CalledStep
    <3>3. Try("nvm_key", Key(tgt, "NVMProg"), "nvm_key_status")
      BY <2>2, <3>2 DEF EnterProgmode, AlreadyInProgmode, ConfirmProgmode, Try, TryBit, Ignore,
         WaitUnlocked
    <3>4. tgt' \in {tgt, TakeKey(tgt, "NVMProg")}
      BY <3>3, SendStep DEF Key
    <3> QED BY <2>2, <3>1, <3>4 DEF TakeKey, Responds
  <2> QED BY <2>1, <2>2
<1>4. faults + 2 <= MaxFaults
  BY <1>2, <1>3 DEF SpareKeyInv
<1>5. faults' = faults
  BY <1>1, <1>4
<1>6. EnterProgmode
  BY <1>1, <1>3, NvmKeyCaller DEF CalledStep
<1>7. CASE Try("nvm_key", Key(tgt, "NVMProg"), "nvm_key_status")
  BY <1>1, <1>5, <1>7, QuietTry DEF Key
<1>8. CASE TryBit("nvm_key_status", tgt.nvmKey, "apply")
  <2>1. pc = "nvm_key_status"
    BY <1>8 DEF TryBit
  <2>2. tgt.nvmKey
    BY <1>1, <2>1 DEF KeyUse
  <2> QED BY <1>1, <1>3, <1>5, <1>8, <2>2, QuietTryBit
<1>9. ~Ignore("apply", Stcs(tgt, HoldReset(tgt)), "release")
  <2> SUFFICES ASSUME Ignore("apply", Stcs(tgt, HoldReset(tgt)), "release") PROVE FALSE
    OBVIOUS
  <2>1. tgt' = HoldReset(tgt)
    BY <1>1, <1>5, QuietIgnore DEF Stcs
  <2> QED BY <1>1, <1>3, <2>1, ResetEffects
<1> QED BY <1>3, <1>6, <1>7, <1>8, <1>9
        DEF EnterProgmode, AlreadyInProgmode, ConfirmProgmode, Try, TryBit, Ignore, WaitUnlocked

\* A step that a fault goes into leaves fewer of them.
LEMMA FewerFaults ==
    ASSUME NEW f \in Nat, NEW g \in Nat, NEW m \in Nat, g <= f
    PROVE  /\ f + 2 <= m => g + 2 <= m
           /\ g # f /\ f + 1 <= m => g + 2 <= m
           /\ g # f /\ f <= m => g + 1 <= m
OBVIOUS

LEMMA SpareKeyInvNvm ==
    ASSUME SessionInv, GroundInv, StartedInv, SpareKeyInv, MaxFaults <= 2, NvmStep,
           UNCHANGED <<workerVars, history>>
    PROVE  SpareKeyInv'
<1>1. /\ tgt \in Targets /\ CalledStep /\ KeyUse(pc, tgt, tgt') /\ wpc' = wpc
      /\ pc \in PlacesOf(wpc) /\ pc' \in PlacesOf(wpc) /\ MaxFaults' = MaxFaults
      /\ faults \in Nat /\ faults' \in Nat /\ MaxFaults \in Nat /\ faults' <= faults
  BY RunningStep
<1>2. tgt'.dis => ~tgt'.nvmKey
  BY <1>1 DEF SpareKeyInv, KeyUse
<1>3. /\ faults \in Nat /\ faults' \in Nat /\ MaxFaults \in Nat /\ faults' <= faults
      /\ faults <= MaxFaults
  BY <1>1, RunningStep DEF NvmTypeOK
<1>4. tgt'.prog /\ tgt'.nvmKey => pc' \in {"nvm_key_status", "apply"}
  BY SpareKeyUsed
<1>5. ASSUME tgt'.prog, ~tgt'.dis, pc' \in {"hold", "nvm_key", "nvm_key_status", "apply"}
      PROVE  /\ pc' = "hold" => faults' + 1 <= MaxFaults
             /\ pc' # "hold" => faults' + 2 <= MaxFaults
  <2>1. wpc = "enter" /\ EnterProgmode
    BY <1>1, <1>5, NvmKeyCaller DEF CalledStep
  <2>2. CASE AlreadyInProgmode
    <3>1. PICK o \in Ldcs(tgt) :
            Take(o) /\ pc' = IF o.st = "Ok" /\ NvmProgStatus(tgt) THEN "ret" ELSE "hold"
      BY <2>2 DEF AlreadyInProgmode
    <3>2. tgt' = tgt
      BY <3>1, LdcsStep
    <3>3. NvmProgStatus(tgt)
      BY <1>5, <2>1, <2>2, <3>2 DEF AlreadyInProgmode, StartedInv, NvmProgStatus
    <3>4. o.st # "Ok"
      BY <1>5, <3>1, <3>3
    <3>5. faults' # faults
      BY <1>1, <1>5, <3>1, <3>2, <3>4, QuietLoad, TRUE \in BOOLEAN, Responds(tgt) = TRUE
         DEF Ldcs, Responds
    <3>6. pc' = "hold"
      BY <1>5, <3>1
    <3>7. faults' + 1 <= MaxFaults
      BY <1>3, <3>5, FewerFaults
    <3> QED BY <3>6, <3>7
  <2>3. CASE Try("hold", Stcs(tgt, HoldReset(tgt)), "nvm_key")
    <3>1. pc = "hold" /\ pc' = "nvm_key" /\ tgt' \in {tgt, HoldReset(tgt)}
      BY <1>5, <2>3, SendStep DEF Try, Stcs
    <3>2. tgt' = tgt
      <4>1. CASE tgt.dis
        BY <3>1, <4>1 DEF HoldReset, Responds
      <4>2. CASE ~tgt.dis
        BY <1>1, <1>5, <3>1, <4>2, ResetEffects
      <4> QED BY <4>1, <4>2
    <3>3. faults' # faults
      BY <1>1, <1>5, <2>3, <3>2, QuietTry, ResetEffects DEF Stcs
    <3>4. faults + 1 <= MaxFaults
      BY <1>5, <3>1, <3>2 DEF SpareKeyInv
    <3>5. faults' + 2 <= MaxFaults
      BY <1>3, <3>3, <3>4, FewerFaults
    <3> QED BY <3>1, <3>5
  <2>4. CASE \/ Try("nvm_key", Key(tgt, "NVMProg"), "nvm_key_status")
             \/ TryBit("nvm_key_status", tgt.nvmKey, "apply")
    <3>1. pc \in {"nvm_key", "nvm_key_status"} /\ pc' \in {"nvm_key_status", "apply"}
      BY <1>5, <2>4 DEF Try, TryBit
    <3>2. tgt' = tgt \/ tgt' = TakeKey(tgt, "NVMProg")
      BY <2>4, SendStep, LdcsStep DEF TryBit, Key
    <3>3. tgt.prog /\ ~tgt.dis
      BY <1>1, <1>5, <3>2 DEF TakeKey, Responds, Targets
    <3>4. faults + 2 <= MaxFaults
      BY <3>1, <3>3 DEF SpareKeyInv
    <3>5. faults' + 2 <= MaxFaults
      BY <1>3, <3>4, FewerFaults
    <3> QED BY <3>1, <3>5
  <2> QED BY <1>5, <2>1, <2>2, <2>3, <2>4 DEF EnterProgmode, ConfirmProgmode, Ignore, WaitUnlocked
<1> QED BY <1>1, <1>2, <1>4, <1>5 DEF SpareKeyInv

LEMMA LeavingInvNvm ==
    ASSUME SessionInv, GroundInv, AwakeInv, LeavingInv, NvmStep, UNCHANGED <<workerVars, history>>
    PROVE  LeavingInv'
<1> SUFFICES ASSUME Undisturbed'
             PROVE  /\ wpc' = "disconnect" /\ tgt'.chip # "none" => LeaveQuiet'
                    /\ wpc' = "idle" /\ op' # "None" /\ result' = "Ok" => Running(tgt')
  BY DEF LeavingInv
<1>1. /\ tgt \in Targets /\ CalledStep /\ KeyUse(pc, tgt, tgt') /\ wpc' = wpc
      /\ Undisturbed /\ faults' = faults /\ faults \in Nat
  BY RunningStep
<1>2. wpc # "idle"
  BY <1>1 DEF CalledStep
<1> SUFFICES ASSUME wpc = "disconnect", tgt'.chip # "none" PROVE LeaveQuiet'
  BY <1>1, <1>2
<1>3. LeaveProgmode /\ tgt.chip # "none" /\ LeaveQuiet
  BY <1>1 DEF CalledStep, KeyUse, LeavingInv
<1>4. ~tgt.dis
  <2>1. pc # "ret"
    BY ReturnedRests
  <2> QED BY <1>1, <1>3, <2>1 DEF AwakeInv, Reached
<1>5. CASE Ignore("leave", Stcs(tgt, HoldReset(tgt)), "leave_release")
  <2>1. pc = "leave" /\ pc' = "leave_release" /\ tgt' = HoldReset(tgt)
    BY <1>1, <1>5, QuietIgnore DEF Stcs
  <2> QED BY <1>1, <1>3, <1>4, <2>1, ResetEffects DEF LeaveQuiet
<1>6. CASE \E ms \in IF tgt.eraseKey THEN UnlockTimes ELSE BootTimes :
             Ignore("leave_release", Stcs(tgt, ReleaseReset(tgt, ms)), "leave_disable")
  <2>1. PICK ms \in Nat : Ignore("leave_release", Stcs(tgt, ReleaseReset(tgt, ms)), "leave_disable")
    BY <1>6, NvmAssumption
  <2>2. pc = "leave_release" /\ pc' = "leave_disable" /\ tgt' = ReleaseReset(tgt, ms)
    BY <1>1, <2>1, QuietIgnore DEF Stcs
  <2>3. tgt.rst /\ ~tgt.nvmKey
    BY <1>3, <2>2 DEF LeaveQuiet
  <2> QED BY <1>1, <1>4, <2>2, <2>3, ReleaseEffects DEF LeaveQuiet
<1>7. CASE Try("leave_disable", Stcs(tgt, Disable(tgt)), "ret")
  <2>1. pc = "leave_disable" /\ pc' = "ret" /\ tgt' = Disable(tgt)
    BY <1>1, <1>7, QuietTry DEF Stcs
  <2>2. ~tgt.rst /\ ~tgt.prog
    BY <1>3, <2>1 DEF LeaveQuiet
  <2>3. tgt'.dis = TRUE /\ tgt'.rst = tgt.rst /\ tgt'.prog = tgt.prog
    BY <1>1, <1>4, <2>1 DEF Disable, Responds, Targets
  <2> QED BY <2>1, <2>2, <2>3 DEF LeaveQuiet, Running
<1> QED BY <1>3, <1>5, <1>6, <1>7 DEF LeaveProgmode

\* Where the worker can go from where it is.
LEMMA WorkerMoves ==
    ASSUME SessionInv, DoConnect \/ Operation
    PROVE  /\ wpc' = "connect" =>
                 wpc = "transport" \/ (wpc = "unlock" /\ ret = "Ok")
           /\ wpc' = "activate" => wpc = "connect" /\ pc' = "activate"
           /\ wpc' = "sib" => wpc = "activate"
           /\ wpc' = "enter" => wpc = "sib" /\ pc' = "enter"
           /\ wpc' = "unlock" => pc' # "ret" /\ wpc \in {"activate", "sib", "enter", "signature"}
           /\ wpc' \in {"signature"} \cup SessionPlaces =>
                 wpc \in {"enter", "signature"} \cup SessionPlaces
           /\ wpc' = "disconnect" => wpc \in SessionPlaces /\ pc' = "leave"
           /\ wpc' = "idle" /\ result' = "Ok" => wpc = "disconnect" /\ result = "Ok"
           /\ wpc' # "transport"
<1>1. CASE DoConnect
  <2>1. ASSUME NEW st, ConnectFailed(st), st # "Ok"
        PROVE  \/ wpc' = "unlock" /\ pc' = "unlock"
               \/ wpc' = "idle" /\ result' # "Ok"
    BY <2>1 DEF ConnectFailed, Invoke, Return
  <2>2. CASE EnsureTransport
    BY <2>2 DEF EnsureTransport, At, SessionPlaces
  <2>3. CASE SessionConnect
    BY <2>3 DEF SessionConnect, At, Invoke, SessionPlaces
  <2>4. CASE Activated
    BY <2>1, <2>4 DEF Activated, At, Call, Invoke, SessionPlaces
  <2>5. CASE SibRead
    BY <2>1, <2>5 DEF SibRead, At, Invoke, SessionPlaces
  <2>6. CASE Entered
    BY <2>1, <2>6 DEF Entered, At, Call, Invoke, SessionPlaces
  <2>7. CASE Identified
    BY <2>1, <2>7 DEF Identified, At, SessionPlaces
  <2>8. CASE Unlocked
    BY <2>8 DEF Unlocked, At, Goto, Return, SessionPlaces
  <2> QED BY <1>1, <2>2, <2>3, <2>4, <2>5, <2>6, <2>7, <2>8 DEF DoConnect
<1>2. CASE Operation
  <2>1. CASE Disconnected
    BY <2>1 DEF Disconnected, At, SessionPlaces
  <2>2. CASE ~Disconnected
    <3> DEFINE Stays == /\ wpc \in SessionPlaces
                        /\ \/ wpc' \in SessionPlaces
                           \/ wpc' = "disconnect" /\ pc' = "leave"
                           \/ wpc' = "idle" /\ result' # "Ok"
    <3>1. ASSUME Body \/ ParseHexFile \/ Erased PROVE Stays
      BY <3>1 DEF Body, ParseHexFile, Erased, At, Call, Goto, Return, DisconnectAndReturn, Invoke,
         SessionPlaces
    <3>2. ASSUME WriteFlash \/ PageWritten \/ VerifyFlash \/ PageVerified PROVE Stays
      BY <3>2 DEF WriteFlash, PageWritten, VerifyFlash, PageVerified, At, CallPage, Goto, Return,
         DisconnectAndReturn, Invoke, SessionPlaces
    <3>3. ASSUME DumpFlash \/ PageDumped \/ SaveDump \/ ReadFuses \/ FuseRead PROVE Stays
      BY <3>3 DEF DumpFlash, PageDumped, SaveDump, ReadFuses, FuseRead, At, Call, CallPage, Goto,
         Return, DisconnectAndReturn, Invoke, SessionPlaces
    <3>4. Stays
      BY <1>2, <2>2, <3>1, <3>2, <3>3 DEF Operation
    <3> QED BY <3>4 DEF SessionPlaces
  <2> QED BY <2>1, <2>2
<1> QED BY <1>1, <1>2

LEMMA RunningInvWorker ==
    ASSUME SessionInv, RunningInv, DoConnect \/ Operation, UNCHANGED history
    PROVE  RunningInv'
<1>1. pc = "ret" /\ UNCHANGED <<tgt, faults, ret, op, budget>> /\ (Undisturbed' <=> Undisturbed)
  BY WorkerKeeps DEF history, Undisturbed
<1>2. CallInv /\ ConnectInv
  BY DEF SessionInv
<1>3. AwakeInv'
  <2>1. Reached' => Reached
    BY <1>1, WorkerMoves DEF Reached, SessionPlaces
  <2> QED BY <1>1, <2>1 DEF RunningInv, AwakeInv
<1>4. StartedInv'
  BY <1>1, WorkerMoves DEF RunningInv, StartedInv
<1>5. SpareKeyInv'
  <2>1. pc' \notin {"hold", "nvm_key", "nvm_key_status", "apply"}
    BY CallInvWorker, NvmKeyCaller, WorkerMoves DEF CallInv
  <2> QED BY <1>1, <2>1 DEF RunningInv, SpareKeyInv
<1>6. LeavingInv'
  <2> SUFFICES ASSUME Undisturbed'
               PROVE  /\ wpc' = "disconnect" /\ tgt'.chip # "none" => LeaveQuiet'
                      /\ wpc' = "idle" /\ op' # "None" /\ result' = "Ok" => Running(tgt')
    BY DEF LeavingInv
  <2>1. ASSUME wpc' = "disconnect", tgt'.chip # "none" PROVE LeaveQuiet'
    <3>1. wpc \in SessionPlaces /\ pc' = "leave"
      BY <2>1, WorkerMoves
    <3>2. ~tgt.dis
      BY <1>1, <2>1, <3>1 DEF RunningInv, AwakeInv, Reached
    <3>3. tgt.prog
      BY <1>2, <3>1, <3>2 DEF ConnectInv, InSession
    <3>4. ~tgt.nvmKey
      BY <1>1, <3>3 DEF RunningInv, SpareKeyInv
    <3> QED BY <1>1, <3>1, <3>4 DEF LeaveQuiet
  <2>2. ASSUME wpc' = "idle", op' # "None", result' = "Ok" PROVE Running(tgt')
    <3>1. wpc = "disconnect"
      BY <2>2, WorkerMoves
    <3> QED BY <1>1, <3>1 DEF RunningInv, LeavingInv, LeaveQuiet, Running
  <2> QED BY <2>1, <2>2
<1> QED BY <1>3, <1>4, <1>5, <1>6 DEF RunningInv

LEMMA RunningInvNext ==
    ASSUME MaxFaults <= 2, SessionInv, GroundInv, RunningInv, [Next]_vars
    PROVE  RunningInv'
<1>1. TypeOK /\ NvmTypeOK /\ tgt \in Targets /\ faults \in Nat /\ budget \in Nat
      /\ faults <= budget
  BY NvmAssumption, FaultsLeft DEF SessionInv, TypeOK, NvmTypeOK, GroundInv
<1>2. CASE NvmStep /\ UNCHANGED <<workerVars, history>>
  BY <1>2, AwakeInvNvm, StartedInvNvm, SpareKeyInvNvm, LeavingInvNvm DEF RunningInv
<1>3. CASE (DoConnect \/ Operation) /\ UNCHANGED history
  BY <1>3, RunningInvWorker
<1>4. CASE PowerCycle /\ UNCHANGED <<workerVars, history>>
  <2>1. faults' = faults - 1 /\ budget' = budget
    BY <1>4 DEF PowerCycle, history
  <2>2. ~Undisturbed'
    BY <1>1, <2>1 DEF Undisturbed
  <2>3. tgt'.dis = TRUE /\ tgt'.nvmKey = FALSE /\ tgt'.prog = FALSE /\ tgt'.boot = 0
    BY <1>1, <1>4 DEF PowerCycle, PowerUp, Targets
  <2> QED BY <2>2, <2>3 DEF RunningInv, AwakeInv, StartedInv, SpareKeyInv, LeavingInv
<1>5. ASSUME NEW o \in UserOps, Start(o) PROVE RunningInv'
  <2>1. wpc' = "transport" /\ tgt' = Settle(tgt) /\ UNCHANGED <<faults, pc, ret>>
    BY <1>5 DEF Start
  <2>2. /\ tgt'.dis = tgt.dis /\ tgt'.nvmKey = tgt.nvmKey /\ tgt'.prog = tgt.prog
        /\ tgt'.boot = 0
    BY <1>1, <2>1 DEF Settle, Targets
  <2> QED BY <2>1, <2>2
          DEF RunningInv, AwakeInv, Reached, SessionPlaces, StartedInv, SpareKeyInv, LeavingInv
<1>6. CASE Relaunch
  <2>1. wpc' = "idle" /\ op' = "None" /\ UNCHANGED <<tgt, faults, pc>>
    BY <1>6 DEF Relaunch
  <2> QED BY <2>1
          DEF RunningInv, AwakeInv, Reached, SessionPlaces, StartedInv, SpareKeyInv, LeavingInv
<1>7. CASE SwapTarget
  <2>1. wpc' = "idle" /\ op' = "None" /\ UNCHANGED <<faults, pc>>
    BY <1>7 DEF SwapTarget
  <2>2. tgt'.dis = TRUE /\ tgt'.nvmKey = FALSE /\ tgt'.prog = FALSE
    BY <1>7 DEF SwapTarget, FreshTargets, Fresh
  <2> QED BY <2>1, <2>2
          DEF RunningInv, AwakeInv, Reached, SessionPlaces, StartedInv, SpareKeyInv, LeavingInv
<1>8. CASE UNCHANGED vars
  BY <1>8 DEF RunningInv, AwakeInv, Reached, StartedInv, SpareKeyInv, LeavingInv, LeaveQuiet,
     Undisturbed, vars, nvmVars, workerVars, history
<1> QED BY <1>2, <1>3, <1>4, <1>5, <1>6, <1>7, <1>8 DEF Next, WorkerStep, Environment

(***************************************************************************)
(* After an operation that reports UpdiOk and that nothing disturbed the   *)
(* application of the target runs, in whatever state two earlier faults    *)
(* left it and however slow it is to start: an NVMProg key that was left   *)
(* armed is used up on the way in, unless a target already in programming  *)
(* mode took it, which three faults take.                                  *)
(***************************************************************************)
THEOREM ApplicationRuns ==
    ASSUME MaxFaults <= 2
    PROVE  Spec => []OkMeansRunning
<1> DEFINE Inv == SessionInv /\ GroundInv /\ RunningInv
<1>1. Init => Inv
  <2> SUFFICES ASSUME Init PROVE RunningInv
    BY SessionInvInit, GroundInvInit
  <2>1. wpc = "idle" /\ pc = "ret" /\ op = "None" /\ tgt \in FreshTargets
    BY DEF Init, NvmInit
  <2>2. tgt.dis = TRUE /\ tgt.nvmKey = FALSE /\ tgt.prog = FALSE
    BY <2>1 DEF FreshTargets, Fresh
  <2> QED BY <2>1, <2>2
          DEF RunningInv, AwakeInv, Reached, SessionPlaces, StartedInv, SpareKeyInv, LeavingInv
<1>2. Inv /\ [Next]_vars => Inv'
  BY SessionInvNext, GroundInvNext, RunningInvNext
<1>3. Inv => OkMeansRunning
  BY DEF RunningInv, LeavingInv, OkMeansRunning
<1> QED BY <1>1, <1>2, <1>3, PTL DEF Spec
=============================================================================
