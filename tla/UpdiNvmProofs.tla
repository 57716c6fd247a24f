--------------------------- MODULE UpdiNvmProofs ---------------------------
(***************************************************************************)
(* What the operators of UpdiTarget and UpdiLink return, and that every    *)
(* step of UpdiNvm keeps its variables well typed.  The lemmas about Try,  *)
(* Ignore, TryBit, WaitUnlocked, WaitReady and Read are stated once for    *)
(* all the places of the C code they stand for.                            *)
(***************************************************************************)
EXTENDS UpdiNvm, TLAPS

Outcomes == [tgt : Targets, st : Statuses, fault : {0, 1}]

-----------------------------------------------------------------------------
(* The target *)

\* Every UPDI instruction that is not a memory access yields a target.
LEMMA ControlType ==
    ASSUME NEW t \in Targets, NEW ms \in Nat, NEW b \in BOOLEAN,
           NEW k \in {"NVMProg", "NVMErase"}
    PROVE  /\ Break(t) \in Targets /\ DoubleBreak(t) \in Targets
           /\ SetRsd(t, b) \in Targets /\ Disable(t) \in Targets
           /\ TakeKey(t, k) \in Targets /\ HoldReset(t) \in Targets
           /\ ReleaseReset(t, ms) \in Targets
<1>1. Break(t) \in Targets
  BY DEF Break, Targets
<1>2. DoubleBreak(t) \in Targets
  BY <1>1 DEF DoubleBreak, Targets
<1>3. SetRsd(t, b) \in Targets
  BY DEF SetRsd, Targets
<1>4. Disable(t) \in Targets
  BY ZenonT(60) DEF Disable, Targets
<1>5. TakeKey(t, k) \in Targets
  <2> DEFINE nvmKey == t.nvmKey \/ k = "NVMProg"
             eraseKey == t.eraseKey \/ k = "NVMErase"
  <2>1. nvmKey \in BOOLEAN /\ eraseKey \in BOOLEAN
    OBVIOUS
  <2>2. TakeKey(t, k) = IF Responds(t)
                        THEN [t EXCEPT !.nvmKey = nvmKey, !.eraseKey = eraseKey] ELSE t
    BY DEF TakeKey
  <2> HIDE DEF nvmKey, eraseKey
  <2> QED BY <2>1, <2>2, ZenonT(60) DEF Targets
<1>6. HoldReset(t) \in Targets
  BY ZenonT(60) DEF HoldReset, Targets
<1>7. ReleaseReset(t, ms) \in Targets
  <2>1. CASE ~(Responds(t) /\ t.rst)
    BY <2>1 DEF ReleaseReset
  <2>2. CASE Responds(t) /\ t.rst
    <3> DEFINE locked == t.locked /\ ~t.eraseKey
               prog == t.nvmKey /\ ~locked
               flash == IF t.eraseKey THEN Filled("blank") ELSE t.flash
    <3>1. locked \in BOOLEAN /\ prog \in BOOLEAN
      OBVIOUS
    <3>2. flash \in [Pages -> Content]
      BY DEF Targets, Filled, Content
    <3>3. ReleaseReset(t, ms) =
            [t EXCEPT !.rst = FALSE, !.boot = ms, !.locked = locked, !.flash = flash,
                      !.prog = prog, !.nvmKey = FALSE, !.eraseKey = FALSE]
      BY <2>2 DEF ReleaseReset
    <3> HIDE DEF locked, prog, flash
    <3> QED BY <3>1, <3>2, <3>3, ZenonT(60) DEF Targets
  <2> QED BY <2>1, <2>2
<1> QED BY <1>1, <1>2, <1>3, <1>4, <1>5, <1>6, <1>7

\* So does every store to NVMCTRL and to the memories.
LEMMA StoreType ==
    ASSUME NEW t \in Targets, NEW ms \in Nat, NEW p \in Pages, NEW c \in Content
    PROVE  /\ ChipErase(t, ms) \in Targets /\ ErasePage(t, ms) \in Targets
           /\ ClearBuffer(t) \in Targets /\ LoadBuffer(t, p, c) \in Targets
           /\ SelectPage(t, p) \in Targets /\ AddressFuse(t) \in Targets
           /\ WritePage(t, ms) \in Targets /\ LoadFuse(t) \in Targets
           /\ ClearFuse(t) \in Targets /\ WriteFuse(t, ms) \in Targets
           /\ Refuse(t) \in Targets
<1>1. ChipErase(t, ms) \in Targets
  BY DEF ChipErase, Targets, Filled, Content
<1>2. ErasePage(t, ms) \in Targets
  BY DEF ErasePage, Targets, Content
<1>3. /\ ClearBuffer(t) \in Targets /\ LoadBuffer(t, p, c) \in Targets
      /\ SelectPage(t, p) \in Targets /\ AddressFuse(t) \in Targets
  BY DEF ClearBuffer, LoadBuffer, SelectPage, AddressFuse, Targets, Content
<1>4. WritePage(t, ms) \in Targets
  <2>1. ASSUME NEW c1 \in Content, NEW c2 \in Content
        PROVE  Programmed(c1, c2) \in Content
    BY DEF Programmed, Content
  <2> QED BY <2>1 DEF WritePage, Targets
<1>5. LoadFuse(t) \in Targets /\ ClearFuse(t) \in Targets /\ WriteFuse(t, ms) \in Targets
  BY DEF LoadFuse, AddressFuse, ClearFuse, WriteFuse, Targets
<1>6. Refuse(t) \in Targets
  BY DEF Refuse, Targets
<1> QED BY <1>1, <1>2, <1>3, <1>4, <1>5, <1>6

\* Time and power.
LEMMA TimeType ==
    ASSUME NEW t \in Targets, NEW ms \in Nat, NEW S \in SUBSET Pages
    PROVE  /\ Elapse(t, ms) \in Targets /\ Settle(t) \in Targets
           /\ PowerUp(t, S) \in Targets
<1>1. Less(t.boot, ms) \in Nat /\ Less(t.busy, ms) \in Nat
  BY DEF Less, Targets
<1>2. Elapse(t, ms) \in Targets
  BY <1>1 DEF Elapse, Targets
<1>3. Settle(t) \in Targets
  BY DEF Settle, Targets
<1>4. PowerUp(t, S) \in Targets
  BY ZenonT(60) DEF PowerUp, Targets, Content
<1> QED BY <1>2, <1>3, <1>4

-----------------------------------------------------------------------------
(* The link layer *)

\* Every link call ends in an outcome, when its effect is a target.
LEMMA LinkType ==
    ASSUME NEW t \in Targets, NEW u \in Targets, NEW p \in Pages, NEW c \in Content,
           NEW k \in {"NVMProg", "NVMErase"}
    PROVE  /\ Stcs(t, u) \subseteq Outcomes /\ Send(t, u) \subseteq Outcomes
           /\ Key(t, k) \subseteq Outcomes
           /\ Ldcs(t) \subseteq Outcomes /\ LdByte(t) \subseteq Outcomes
           /\ ReadSib(t) \subseteq Outcomes /\ ReadData(t) \subseteq Outcomes
           /\ StByte(t, u) \subseteq Outcomes
           /\ WriteDataWords(t, p, c) \subseteq Outcomes
<1>1. ASSUME NEW v \in Targets, NEW st \in Statuses, NEW f \in {0, 1}
      PROVE  Out(v, st, f) \in Outcomes
  BY DEF Out, Outcomes
<1>2. ASSUME NEW v \in Targets
      PROVE  Send(t, v) \subseteq Outcomes
  BY <1>1 DEF Send, Statuses
<1>3. Key(t, k) \subseteq Outcomes
  <2>1. TakeKey(t, k) \in Targets
    BY ControlType, 0 \in Nat, TRUE \in BOOLEAN
  <2> QED BY <2>1, <1>2 DEF Key
<1>4. Load(t, TRUE) \subseteq Outcomes /\ Load(t, FALSE) \subseteq Outcomes
  BY <1>1 DEF Load, Statuses
<1>5. Ldcs(t) \subseteq Outcomes /\ LdByte(t) \subseteq Outcomes
  BY <1>1 DEF Load, Statuses, Ldcs, LdByte
<1>6. ReadSib(t) \subseteq Outcomes
  BY <1>1 DEF Load, Statuses, ReadSib
<1>7. ReadData(t) \subseteq Outcomes
  BY <1>1 DEF ReadData, Statuses
<1>8. StByte(t, u) \subseteq Outcomes
  BY <1>1 DEF StByte, Statuses
<1>9. WriteDataWords(t, p, c) \subseteq Outcomes
  <2>1. LoadBuffer(t, p, c) \in Targets /\ LoadBuffer(t, p, "torn") \in Targets
    BY DEF LoadBuffer, Targets, Content
  <2>2. ASSUME NEW v \in {t, LoadBuffer(t, p, c), LoadBuffer(t, p, "torn")}, NEW b \in BOOLEAN
        PROVE  SetRsd(v, b) \in Targets
    BY <2>1 DEF SetRsd, Targets
  <2>3. {Out(SetRsd(v, rsd), st, 1) : rsd \in BOOLEAN,
             v \in {t, LoadBuffer(t, p, c), LoadBuffer(t, p, "torn")},
             st \in {"Ok", "ErrTransport"}} \subseteq Outcomes
    BY <1>1, <2>2 DEF Statuses
  <2> QED BY <1>1, <2>1, <2>3 DEF WriteDataWords, Statuses
<1> QED BY <1>2, <1>3, <1>5, <1>6, <1>7, <1>8, <1>9 DEF Stcs

-----------------------------------------------------------------------------
(* The ways the C functions call each other *)

LEMMA TakeType ==
    ASSUME NvmTypeOK, NEW o \in Outcomes, Take(o)
    PROVE  tgt' \in Targets /\ faults' \in 0..MaxFaults
BY NvmAssumption DEF NvmTypeOK, Outcomes, Take

LEMMA TryType ==
    ASSUME NvmTypeOK, NEW outs \in SUBSET Outcomes, NEW here, NEW there \in Locations,
           Try(here, outs, there)
    PROVE  NvmTypeOK'
<1>1. PICK o \in outs : /\ Take(o)
                        /\ ret' = o.st
                        /\ pc' = IF o.st = "Ok" THEN there ELSE "ret"
  BY DEF Try
<1>2. tgt' \in Targets /\ faults' \in 0..MaxFaults
  BY <1>1, TakeType
<1>3. ret' \in Statuses
  BY <1>1 DEF Outcomes
<1>4. pc' \in Locations
  BY <1>1 DEF Locations
<1> QED BY <1>2, <1>3, <1>4 DEF NvmTypeOK, Try

LEMMA IgnoreType ==
    ASSUME NvmTypeOK, NEW outs \in SUBSET Outcomes, NEW here, NEW there \in Locations,
           Ignore(here, outs, there)
    PROVE  NvmTypeOK'
<1>1. PICK o \in outs : Take(o)
  BY DEF Ignore
<1>2. tgt' \in Targets /\ faults' \in 0..MaxFaults
  BY <1>1, TakeType
<1> QED BY <1>2 DEF NvmTypeOK, Ignore

\* One LDCS whose answer decides where to go and what to report.
LEMMA LdcsType ==
    ASSUME NvmTypeOK, NEW o \in Ldcs(tgt), Take(o),
           pc' \in Locations, ret' \in Statuses,
           UNCHANGED <<val, poll, arg, dev>>
    PROVE  NvmTypeOK'
<1>1. Ldcs(tgt) \subseteq Outcomes
  BY LinkType, "NVMProg" \in {"NVMProg", "NVMErase"}, "old" \in Content DEF NvmTypeOK, Content
<1>2. tgt' \in Targets /\ faults' \in 0..MaxFaults
  BY <1>1, TakeType
<1> QED BY <1>2 DEF NvmTypeOK

LEMMA TryBitType ==
    ASSUME NvmTypeOK, NEW here, NEW bit, NEW there \in Locations,
           TryBit(here, bit, there)
    PROVE  NvmTypeOK'
<1>1. PICK o \in Ldcs(tgt) :
        /\ Take(o)
        /\ ret' = IF o.st = "Ok" /\ ~bit THEN "ErrProtocol" ELSE o.st
        /\ pc' = IF ret' = "Ok" THEN there ELSE "ret"
  BY DEF TryBit
<1>2. o.st \in Statuses
  BY DEF Ldcs, Load, Out, Statuses
<1>3. ret' \in Statuses /\ pc' \in Locations
  BY <1>1, <1>2 DEF Statuses, Locations
<1> QED BY <1>1, <1>3, LdcsType DEF TryBit

LEMMA CostType == ASSUME NEW st PROVE CostOf(st) \in Nat
BY PollAssumption DEF CostOf, EchoTimeoutMs, RespTimeoutMs

\* The outcome of a poll, with the time it took.
LEMMA PollOutcome ==
    ASSUME NEW o \in Outcomes, NEW ms \in Nat
    PROVE  [o EXCEPT !.tgt = Elapse(@, ms)] \in Outcomes
<1>1. Elapse(o.tgt, ms) \in Targets
  BY TimeType DEF Outcomes
<1> QED BY <1>1 DEF Outcomes

LEMMA PollType ==
    ASSUME NvmTypeOK, NEW ms \in Nat, poll' = NoPoll \/ PollAgain(ms)
    PROVE  poll' \in [ms : Nat, iters : Nat]
BY DEF NvmTypeOK, NoPoll, PollAgain

LEMMA WaitUnlockedType ==
    ASSUME NvmTypeOK, NEW here \in Locations, NEW timeout, NEW there \in Locations,
           NEW failure \in Statuses, WaitUnlocked(here, timeout, there, failure)
    PROVE  NvmTypeOK'
<1>1. Ldcs(tgt) \subseteq Outcomes
  BY LinkType, "NVMProg" \in {"NVMProg", "NVMErase"}, "old" \in Content DEF NvmTypeOK, Content
<1>2. PICK o \in Ldcs(tgt) :
        /\ Take([o EXCEPT !.tgt = Elapse(@, CostOf(o.st))])
        /\ ret' \in {failure, "Ok"}
        /\ pc' \in {there, "ret", here}
        /\ poll' = NoPoll \/ PollAgain(CostOf(o.st))
  BY DEF WaitUnlocked
<1>3. tgt' \in Targets /\ faults' \in 0..MaxFaults
  BY <1>1, <1>2, CostType, PollOutcome, TakeType
<1>4. poll' \in [ms : Nat, iters : Nat]
  BY <1>2, CostType, PollType
<1>5. ret' \in Statuses /\ pc' \in Locations
  BY <1>2 DEF Statuses, Locations
<1> QED BY <1>3, <1>4, <1>5 DEF NvmTypeOK, WaitUnlocked

LEMMA WaitReadyType ==
    ASSUME NvmTypeOK, NEW here \in Locations, NEW timeout, NEW onOk \in Locations,
           NEW onError \in Locations, WaitReady(here, timeout, onOk, onError)
    PROVE  NvmTypeOK'
<1>1. LdByte(tgt) \subseteq Outcomes
  BY LinkType, "NVMProg" \in {"NVMProg", "NVMErase"}, "old" \in Content DEF NvmTypeOK, Content
<1>2. PICK o \in LdByte(tgt) :
        /\ Take([o EXCEPT !.tgt = Elapse(@, CostOf(o.st))])
        /\ ret' \in {o.st, "ErrNvm", "Ok", "ErrTimeout"}
        /\ pc' \in {here, onOk, onError}
        /\ poll' = NoPoll \/ PollAgain(CostOf(o.st))
  BY DEF WaitReady, NvmStatus
<1>3. tgt' \in Targets /\ faults' \in 0..MaxFaults
  BY <1>1, <1>2, CostType, PollOutcome, TakeType
<1>4. poll' \in [ms : Nat, iters : Nat]
  BY <1>2, CostType, PollType
<1>5. ret' \in Statuses /\ pc' \in Locations
  BY <1>1, <1>2 DEF Statuses, Locations, Outcomes
<1> QED BY <1>3, <1>4, <1>5 DEF NvmTypeOK, WaitReady

LEMMA CommandType ==
    ASSUME NvmTypeOK, NEW u \in Targets, NEW here, NEW there \in Locations,
           Command(here, u, there)
    PROVE  NvmTypeOK'
<1>1. /\ tgt \in Targets /\ arg.page \in Pages
      /\ "NVMProg" \in {"NVMProg", "NVMErase"} /\ "old" \in Content
  BY DEF NvmTypeOK, Content
<1>2. StByte(tgt, u) \subseteq Outcomes
  BY <1>1, LinkType
<1>3. Refuse(tgt) \in Targets
  BY <1>1 DEF Refuse, Targets
<1>4. StByte(tgt, Refuse(tgt)) \subseteq Outcomes
  BY <1>1, <1>3, LinkType
<1>5. {[o EXCEPT !.fault = 1] : o \in StByte(tgt, Refuse(tgt))} \subseteq Outcomes
  BY <1>4 DEF Outcomes
<1> QED BY <1>2, <1>5, TryType DEF Command

LEMMA ReadType ==
    ASSUME NvmTypeOK, NEW outs \in SUBSET Outcomes, NEW here,
           NEW value \in Content \cup Chips \cup {"new"}, Read(here, outs, value)
    PROVE  NvmTypeOK'
<1>1. PICK o \in outs : /\ Take(o)
                        /\ ret' = o.st
                        /\ val' = IF o.st = "Ok" THEN value ELSE val
  BY DEF Read
<1>2. tgt' \in Targets /\ faults' \in 0..MaxFaults
  BY <1>1, TakeType
<1>3. ret' \in Statuses
  BY <1>1 DEF Outcomes
<1>4. val' \in Content \cup Chips \cup {"new"} /\ pc' \in Locations
  BY <1>1 DEF NvmTypeOK, Read, Locations
<1> QED BY <1>2, <1>3, <1>4 DEF NvmTypeOK, Read

-----------------------------------------------------------------------------
(* The steps of UpdiNvm *)

\* What the calls below need to know of the target and of the outcomes.
LEMMA CallOutcomes ==
    ASSUME NvmTypeOK
    PROVE  /\ tgt \in Targets
           /\ \A u \in Targets : /\ Stcs(tgt, u) \in SUBSET Outcomes
                                 /\ Send(tgt, u) \in SUBSET Outcomes
                                 /\ StByte(tgt, u) \in SUBSET Outcomes
           /\ \A k \in {"NVMProg", "NVMErase"} : Key(tgt, k) \in SUBSET Outcomes
           /\ \A p \in Pages, c \in Content : WriteDataWords(tgt, p, c) \in SUBSET Outcomes
           /\ LdByte(tgt) \in SUBSET Outcomes /\ Ldcs(tgt) \in SUBSET Outcomes
           /\ ReadSib(tgt) \in SUBSET Outcomes /\ ReadData(tgt) \in SUBSET Outcomes
<1>1. /\ tgt \in Targets /\ arg.page \in Pages
      /\ "NVMProg" \in {"NVMProg", "NVMErase"} /\ "old" \in Content
  BY DEF NvmTypeOK, Content
<1> QED BY <1>1, LinkType

\* The resets of the C code, with the time the target takes to start again.
LEMMA ResetTypes ==
    ASSUME NvmTypeOK, NEW here, NEW there \in Locations,
           \/ Ignore(here, Stcs(tgt, HoldReset(tgt)), there)
           \/ \E ms \in IF tgt.eraseKey THEN UnlockTimes ELSE BootTimes :
                Ignore(here, Stcs(tgt, ReleaseReset(tgt, ms)), there)
    PROVE  NvmTypeOK'
<1>1. tgt \in Targets /\ TRUE \in BOOLEAN /\ "NVMProg" \in {"NVMProg", "NVMErase"}
  BY DEF NvmTypeOK
<1>2. CASE Ignore(here, Stcs(tgt, HoldReset(tgt)), there)
  <2>1. HoldReset(tgt) \in Targets
    BY <1>1, 0 \in Nat, ControlType
  <2> QED BY <1>2, <2>1, CallOutcomes, IgnoreType
<1>3. CASE \E ms \in IF tgt.eraseKey THEN UnlockTimes ELSE BootTimes :
             Ignore(here, Stcs(tgt, ReleaseReset(tgt, ms)), there)
  <2>1. PICK ms \in Nat : Ignore(here, Stcs(tgt, ReleaseReset(tgt, ms)), there)
    BY <1>3, NvmAssumption
  <2>2. ReleaseReset(tgt, ms) \in Targets
    BY <1>1, ControlType
  <2> QED BY <2>1, <2>2, CallOutcomes, IgnoreType
<1> QED BY <1>2, <1>3

LEMMA ActivateType == ASSUME NvmTypeOK, Activate PROVE NvmTypeOK'
<1>1. /\ Break(tgt) \in Targets /\ DoubleBreak(tgt) \in Targets
      /\ SetRsd(tgt, FALSE) \in Targets /\ tgt \in Targets
  BY ControlType, 0 \in Nat, FALSE \in BOOLEAN, "NVMProg" \in {"NVMProg", "NVMErase"}
     DEF NvmTypeOK
<1>2. {"ctrlb", "ctrla", "check", "ctrlb2", "ctrla2", "check2", "double_break", "ret"}
        \subseteq Locations
  BY DEF Locations
<1>3. CASE InitialBreak
  BY <1>1, <1>2, <1>3, CallOutcomes, IgnoreType DEF InitialBreak
<1>4. ASSUME NEW here, NEW ctrla \in Locations, NEW check \in Locations,
             InitCtrlB(here, ctrla, check)
      PROVE  NvmTypeOK'
  <2>1. PICK o \in Stcs(tgt, tgt) : Take(o) /\ pc' \in {ctrla, check}
    BY <1>4 DEF InitCtrlB
  <2>2. o \in Outcomes
    BY <1>1, CallOutcomes
  <2>3. tgt' \in Targets /\ faults' \in 0..MaxFaults
    BY <2>1, <2>2, TakeType
  <2> QED BY <1>4, <2>1, <2>3 DEF NvmTypeOK, InitCtrlB
<1>5. ASSUME NEW here, NEW check \in Locations, InitCtrlA(here, check)
      PROVE  NvmTypeOK'
  BY <1>1, <1>5, CallOutcomes, IgnoreType DEF InitCtrlA
<1>6. CASE CheckDatalink
  <2>1. PICK o \in Ldcs(tgt) : Take(o) /\ ret' = "Ok" /\ pc' \in {"ret", "double_break"}
    BY <1>6 DEF CheckDatalink
  <2>2. ret' \in Statuses /\ pc' \in Locations
    BY <1>2, <2>1 DEF Statuses
  <2> QED BY <1>6, <2>1, <2>2, LdcsType DEF CheckDatalink
<1>7. CASE SendDoubleBreak
  <2>1. {Out(DoubleBreak(tgt), "Ok", 0), Out(tgt, "Ok", 1)} \in SUBSET Outcomes
    BY <1>1 DEF Out, Outcomes, Statuses
  <2> QED BY <1>2, <1>7, <2>1, IgnoreType DEF SendDoubleBreak
<1>8. CASE CheckDatalinkAgain
  <2>1. PICK o \in Ldcs(tgt) : Take(o) /\ ret' \in {"Ok", "ErrTimeout"}
    BY <1>8 DEF CheckDatalinkAgain
  <2>2. ret' \in Statuses /\ pc' \in Locations
    BY <1>2, <1>8, <2>1 DEF Statuses, CheckDatalinkAgain
  <2> QED BY <1>8, <2>1, <2>2, LdcsType DEF CheckDatalinkAgain
<1>9. CASE ReadSibInfo
  BY <1>2, <1>9, CallOutcomes, TryType DEF ReadSibInfo
<1> QED BY <1>2, <1>3, <1>4, <1>5, <1>6, <1>7, <1>8, <1>9 DEF Activate

LEMMA ProgmodeType ==
    ASSUME NvmTypeOK, EnterProgmode \/ LeaveProgmode \/ Unlock
    PROVE  NvmTypeOK'
<1>1. /\ HoldReset(tgt) \in Targets /\ Disable(tgt) \in Targets /\ tgt \in Targets
  BY ControlType, 0 \in Nat, FALSE \in BOOLEAN, "NVMProg" \in {"NVMProg", "NVMErase"}
     DEF NvmTypeOK
<1>2. {"ret", "hold", "nvm_key", "nvm_key_status", "apply", "release", "wait_unlocked",
       "confirm", "leave_release", "leave_disable", "erase_key_status", "erase_apply",
       "erase_release", "erase_wait", "unlock", "leave"} \subseteq Locations
  BY DEF Locations
<1>3. {"Ok", "ErrProtocol", "ErrLocked", "ErrNvm"} \subseteq Statuses
  BY DEF Statuses
<1>4. CASE EnterProgmode
  <2>1. CASE AlreadyInProgmode
    <3>1. PICK o \in Ldcs(tgt) : Take(o) /\ pc' \in {"ret", "hold"}
      BY <2>1 DEF AlreadyInProgmode
    <3> QED BY <1>2, <1>3, <2>1, <3>1, LdcsType DEF AlreadyInProgmode
  <2>2. CASE Try("hold", Stcs(tgt, HoldReset(tgt)), "nvm_key")
    BY <1>1, <1>2, <2>2, CallOutcomes, TryType
  <2>3. CASE Try("nvm_key", Key(tgt, "NVMProg"), "nvm_key_status")
    BY <1>2, <2>3, CallOutcomes, TryType
  <2>4. CASE TryBit("nvm_key_status", tgt.nvmKey, "apply")
    BY <1>2, <2>4, TryBitType
  <2>5. CASE \/ Ignore("apply", Stcs(tgt, HoldReset(tgt)), "release")
             \/ \E ms \in IF tgt.eraseKey THEN UnlockTimes ELSE BootTimes :
                  Ignore("release", Stcs(tgt, ReleaseReset(tgt, ms)), "wait_unlocked")
    BY <1>2, <2>5, ResetTypes
  <2>6. CASE WaitUnlocked("wait_unlocked", 100, "confirm", "ErrLocked")
    BY <1>2, <1>3, <2>6, WaitUnlockedType
  <2>7. CASE ConfirmProgmode
    <3>1. PICK o \in Ldcs(tgt) : Take(o) /\ ret' \in {"Ok", "ErrProtocol"}
      BY <2>7 DEF ConfirmProgmode
    <3> QED BY <1>2, <1>3, <2>7, <3>1, LdcsType DEF ConfirmProgmode
  <2> QED BY <1>4, <2>1, <2>2, <2>3, <2>4, <2>5, <2>6, <2>7 DEF EnterProgmode
<1>5. CASE LeaveProgmode
  <2>1. CASE \/ Ignore("leave", Stcs(tgt, HoldReset(tgt)), "leave_release")
             \/ \E ms \in IF tgt.eraseKey THEN UnlockTimes ELSE BootTimes :
                  Ignore("leave_release", Stcs(tgt, ReleaseReset(tgt, ms)), "leave_disable")
    BY <1>2, <2>1, ResetTypes
  <2>2. CASE Try("leave_disable", Stcs(tgt, Disable(tgt)), "ret")
    BY <1>1, <1>2, <2>2, CallOutcomes, TryType
  <2> QED BY <1>5, <2>1, <2>2 DEF LeaveProgmode
<1>6. CASE Unlock
  <2>1. CASE Try("unlock", Key(tgt, "NVMErase"), "erase_key_status")
    BY <1>2, <2>1, CallOutcomes, TryType
  <2>2. CASE TryBit("erase_key_status", tgt.eraseKey, "erase_apply")
    BY <1>2, <2>2, TryBitType
  <2>3. CASE \/ Ignore("erase_apply", Stcs(tgt, HoldReset(tgt)), "erase_release")
             \/ \E ms \in IF tgt.eraseKey THEN UnlockTimes ELSE BootTimes :
                  Ignore("erase_release", Stcs(tgt, ReleaseReset(tgt, ms)), "erase_wait")
    BY <1>2, <2>3, ResetTypes
  <2>4. CASE WaitUnlocked("erase_wait", 500, "ret", "ErrNvm")
    BY <1>2, <1>3, <2>4, WaitUnlockedType
  <2> QED BY <1>6, <2>1, <2>2, <2>3, <2>4 DEF Unlock
<1> QED BY <1>4, <1>5, <1>6

LEMMA ReadsType == ASSUME NvmTypeOK, Reads PROVE NvmTypeOK'
<1>1. /\ tgt.chip \in Content \cup Chips \cup {"new"}
      /\ tgt.flash[arg.page] \in Content \cup Chips \cup {"new"}
      /\ tgt.fuse \in Content \cup Chips \cup {"new"}
  BY DEF NvmTypeOK, Targets, Content
<1>2. CASE Read("signature", ReadData(tgt), tgt.chip)
  BY <1>1, <1>2, CallOutcomes, ReadType
<1>3. CASE Read("read", ReadData(tgt), tgt.flash[arg.page])
  BY <1>1, <1>3, CallOutcomes, ReadType
<1>4. CASE Read("fuse", LdByte(tgt), tgt.fuse)
  BY <1>1, <1>4, CallOutcomes, ReadType
<1> QED BY <1>2, <1>3, <1>4 DEF Reads

\* Erases and writes of the flash.
LEMMA FlashType ==
    ASSUME NvmTypeOK, EraseChip \/ EraseFlashPage \/ WriteFlashPage \/ ClearCommand
    PROVE  NvmTypeOK'
<1>1. /\ tgt \in Targets /\ arg.page \in Pages /\ arg.data \in Content
      /\ "blank" \in Content /\ 0 \in Nat
  BY DEF NvmTypeOK, Content
<1>2. {"ret", "nocmd", "chip_erase", "chip_erase_cmd", "chip_erase_wait",
       "erase_page", "erase_page_select", "erase_page_cmd", "erase_page_wait",
       "write_page", "write_clear", "write_clear_wait", "write_fill", "write_cmd",
       "write_wait"} \subseteq Locations
  BY DEF Locations
<1>3. Finish \in Locations
  BY <1>2 DEF Finish
<1>4. CASE EraseChip
  <2>1. CASE WaitReady("chip_erase", 100, "chip_erase_cmd", "ret")
    BY <1>2, <2>1, WaitReadyType
  <2>2. CASE \E ms \in EraseTimes :
               Command("chip_erase_cmd", ChipErase(tgt, ms), "chip_erase_wait")
    <3>1. PICK ms \in Nat :
            Command("chip_erase_cmd", ChipErase(tgt, ms), "chip_erase_wait")
      BY <2>2, NvmAssumption
    <3>2. ChipErase(tgt, ms) \in Targets
      BY <1>1, StoreType
    <3> QED BY <1>2, <3>1, <3>2, CommandType
  <2>3. CASE WaitReady("chip_erase_wait", 500, Finish, Finish)
    BY <1>2, <1>3, <2>3, WaitReadyType
  <2> QED BY <1>4, <2>1, <2>2, <2>3 DEF EraseChip
<1>5. CASE EraseFlashPage
  <2>1. CASE WaitReady("erase_page", 100, "erase_page_select", "ret")
    BY <1>2, <2>1, WaitReadyType
  <2>2. CASE Try("erase_page_select", StByte(tgt, SelectPage(tgt, arg.page)), "erase_page_cmd")
    <3>1. SelectPage(tgt, arg.page) \in Targets
      BY <1>1, StoreType
    <3> QED BY <1>2, <2>2, <3>1, CallOutcomes, TryType
  <2>3. CASE \E ms \in WriteTimes :
               Command("erase_page_cmd", ErasePage(tgt, ms), "erase_page_wait")
    <3>1. PICK ms \in Nat :
            Command("erase_page_cmd", ErasePage(tgt, ms), "erase_page_wait")
      BY <2>3, NvmAssumption
    <3>2. ErasePage(tgt, ms) \in Targets
      BY <1>1, StoreType
    <3> QED BY <1>2, <3>1, <3>2, CommandType
  <2>4. CASE WaitReady("erase_page_wait", 100, Finish, Finish)
    BY <1>2, <1>3, <2>4, WaitReadyType
  <2> QED BY <1>5, <2>1, <2>2, <2>3, <2>4 DEF EraseFlashPage
<1>6. CASE WriteFlashPage
  <2>1. CASE WaitReady("write_page", 100, "write_clear", "ret")
    BY <1>2, <2>1, WaitReadyType
  <2>2. CASE Command("write_clear", ClearBuffer(tgt), "write_clear_wait")
    <3>1. ClearBuffer(tgt) \in Targets
      BY <1>1, StoreType
    <3> QED BY <1>2, <2>2, <3>1, CommandType
  <2>3. CASE WaitReady("write_clear_wait", 100, "write_fill", "ret")
    BY <1>2, <2>3, WaitReadyType
  <2>4. CASE Try("write_fill", WriteDataWords(tgt, arg.page, arg.data), "write_cmd")
    BY <1>1, <1>2, <2>4, CallOutcomes, TryType
  <2>5. CASE \E ms \in WriteTimes :
               Command("write_cmd", WritePage(tgt, ms), "write_wait")
    <3>1. PICK ms \in Nat : Command("write_cmd", WritePage(tgt, ms), "write_wait")
      BY <2>5, NvmAssumption
    <3>2. WritePage(tgt, ms) \in Targets
      BY <1>1, StoreType
    <3> QED BY <1>2, <3>1, <3>2, CommandType
  <2>6. CASE WaitReady("write_wait", 100, Finish, Finish)
    BY <1>2, <1>3, <2>6, WaitReadyType
  <2> QED BY <1>6, <2>1, <2>2, <2>3, <2>4, <2>5, <2>6 DEF WriteFlashPage
<1>7. CASE ClearCommand
  BY <1>1, <1>2, <1>7, CallOutcomes, IgnoreType DEF ClearCommand
<1> QED BY <1>4, <1>5, <1>6, <1>7

\* Writes of a fuse.
LEMMA FuseType ==
    ASSUME NvmTypeOK, WriteFuseP3 \/ WriteFuseP0
    PROVE  NvmTypeOK'
<1>1. /\ tgt \in Targets /\ LoadFuse(tgt) \in Targets /\ ClearFuse(tgt) \in Targets
      /\ AddressFuse(tgt) \in Targets /\ \A ms \in Nat : WriteFuse(tgt, ms) \in Targets
  BY DEF NvmTypeOK, Targets, LoadFuse, AddressFuse, ClearFuse, WriteFuse
<1>2. {"ret", "nocmd", "write_fuse_p3", "ee_clear", "ee_clear_wait", "ee_fill", "ee_cmd",
       "ee_wait", "write_fuse_p0", "fuse_addr", "fuse_addr_high", "fuse_data",
       "fuse_cmd", "fuse_wait"} \subseteq Locations
  BY DEF Locations
<1>3. CASE WriteFuseP3
  <2>1. CASE WaitReady("write_fuse_p3", 100, "ee_clear", "ret")
    BY <1>2, <2>1, WaitReadyType
  <2>2. CASE Command("ee_clear", ClearFuse(tgt), "ee_clear_wait")
    BY <1>1, <1>2, <2>2, CommandType
  <2>3. CASE WaitReady("ee_clear_wait", 100, "ee_fill", "ret")
    BY <1>2, <2>3, WaitReadyType
  <2>4. CASE Try("ee_fill", StByte(tgt, LoadFuse(tgt)), "ee_cmd")
    BY <1>1, <1>2, <2>4, CallOutcomes, TryType
  <2>5. CASE \E ms \in WriteTimes : Command("ee_cmd", WriteFuse(tgt, ms), "ee_wait")
    <3>1. PICK ms \in Nat : Command("ee_cmd", WriteFuse(tgt, ms), "ee_wait")
      BY <2>5, NvmAssumption
    <3> QED BY <1>1, <1>2, <3>1, CommandType
  <2>6. CASE WaitReady("ee_wait", 100, "nocmd", "nocmd")
    BY <1>2, <2>6, WaitReadyType
  <2> QED BY <1>3, <2>1, <2>2, <2>3, <2>4, <2>5, <2>6 DEF WriteFuseP3
<1>4. CASE WriteFuseP0
  <2>1. CASE WaitReady("write_fuse_p0", 100, "fuse_addr", "ret")
    BY <1>2, <2>1, WaitReadyType
  <2>2. CASE Try("fuse_addr", StByte(tgt, tgt), "fuse_addr_high")
    BY <1>1, <1>2, <2>2, CallOutcomes, TryType
  <2>3. CASE Try("fuse_addr_high", StByte(tgt, AddressFuse(tgt)), "fuse_data")
    BY <1>1, <1>2, <2>3, CallOutcomes, TryType
  <2>4. CASE Try("fuse_data", StByte(tgt, LoadFuse(tgt)), "fuse_cmd")
    BY <1>1, <1>2, <2>4, CallOutcomes, TryType
  <2>5. CASE \E ms \in WriteTimes : Command("fuse_cmd", WriteFuse(tgt, ms), "fuse_wait")
    <3>1. PICK ms \in Nat : Command("fuse_cmd", WriteFuse(tgt, ms), "fuse_wait")
      BY <2>5, NvmAssumption
    <3> QED BY <1>1, <1>2, <3>1, CommandType
  <2>6. CASE WaitReady("fuse_wait", 100, "ret", "ret")
    BY <1>2, <2>6, WaitReadyType
  <2> QED BY <1>4, <2>1, <2>2, <2>3, <2>4, <2>5, <2>6 DEF WriteFuseP0
<1> QED BY <1>3, <1>4

\* Every step of the machine keeps the types, and so does a loss of power.
LEMMA NvmStepType == ASSUME NvmTypeOK, NvmStep PROVE NvmTypeOK'
BY ActivateType, ProgmodeType, ReadsType, FlashType, FuseType DEF NvmStep

LEMMA PowerCycleType == ASSUME NvmTypeOK, PowerCycle PROVE NvmTypeOK'
<1>1. PICK S \in SUBSET Pages : tgt' = PowerUp(tgt, S)
  BY DEF PowerCycle
<1>2. tgt' \in Targets
  BY <1>1, TimeType, 0 \in Nat DEF NvmTypeOK
<1>3. faults' \in 0..MaxFaults
  BY NvmAssumption DEF NvmTypeOK, PowerCycle
<1> QED BY <1>2, <1>3 DEF NvmTypeOK, PowerCycle

LEMMA InvokeType ==
    ASSUME NvmTypeOK, NEW entry \in Locations, NEW page \in Pages,
           NEW data \in Data \cup {"blank"}, Invoke(entry, page, data),
           dev' \in {"P0", "P3", "NULL"}
    PROVE  NvmTypeOK'
BY DEF NvmTypeOK, Invoke

LEMMA FreshType == FreshTargets \subseteq Targets
<1>1. ASSUME NEW c \in Chips, NEW l \in BOOLEAN
      PROVE  Fresh(c, l) \in Targets
  <2>1. Filled("old") \in [Pages -> Content]
    BY DEF Filled, Content
  <2> QED BY <1>1, <2>1 DEF Fresh, Targets, Content
<1>2. ChipsUsed \subseteq Chips
  BY NvmAssumption
<1> DEFINE all == {Fresh(c, l) : c \in ChipsUsed, l \in BOOLEAN}
<1>3. all \subseteq Targets
  BY <1>1, <1>2
<1>4. FreshTargets = all \ {Fresh("none", TRUE)}
  BY DEF FreshTargets
<1> HIDE DEF all
<1> QED BY <1>3, <1>4

LEMMA NvmInitType == NvmInit => NvmTypeOK
<1>1. {"Ok"} \subseteq Statuses /\ {"ret"} \subseteq Locations /\ 1 \in Pages
  BY NPagesAssumption DEF Statuses, Locations, Pages
<1> QED BY <1>1, FreshType, NvmAssumption
        DEF NvmInit, NvmTypeOK, NoPoll, Content
-----------------------------------------------------------------------------
(* The places of the functions *)

ActivatePlaces ==
    {"activate", "ctrlb", "ctrla", "check", "double_break", "ctrlb2", "ctrla2", "check2", "sib"}
ProgmodePlaces ==
    {"enter", "hold", "nvm_key", "nvm_key_status", "apply", "release", "wait_unlocked", "confirm",
     "leave", "leave_release", "leave_disable"}
UnlockPlaces == {"unlock", "erase_key_status", "erase_apply", "erase_release", "erase_wait"}
ReadPlaces == {"signature", "read", "fuse"}
EraseChipPlaces == {"chip_erase", "chip_erase_cmd", "chip_erase_wait"}
ErasePagePlaces == {"erase_page", "erase_page_select", "erase_page_cmd", "erase_page_wait"}
WritePagePlaces ==
    {"write_page", "write_clear", "write_clear_wait", "write_fill", "write_cmd", "write_wait"}
FusePlaces ==
    {"write_fuse_p3", "ee_clear", "ee_clear_wait", "ee_fill", "ee_cmd", "ee_wait",
     "write_fuse_p0", "fuse_addr", "fuse_addr_high", "fuse_data", "fuse_cmd", "fuse_wait"}

\* A step of a function starts at one of its places and ends at another one, or
\* returns, through the NOCMD that follows a command.
LEMMA ControlFlow ==
    /\ Activate => pc \in ActivatePlaces /\ pc' \in ActivatePlaces \cup {"ret"}
    /\ EnterProgmode \/ LeaveProgmode =>
          pc \in ProgmodePlaces /\ pc' \in ProgmodePlaces \cup {"ret"}
    /\ Unlock => pc \in UnlockPlaces /\ pc' \in UnlockPlaces \cup {"ret"}
    /\ Reads => pc \in ReadPlaces /\ pc' = "ret"
    /\ EraseChip => pc \in EraseChipPlaces /\ pc' \in EraseChipPlaces \cup {"ret", "nocmd"}
    /\ EraseFlashPage => pc \in ErasePagePlaces /\ pc' \in ErasePagePlaces \cup {"ret", "nocmd"}
    /\ WriteFlashPage => pc \in WritePagePlaces /\ pc' \in WritePagePlaces \cup {"ret", "nocmd"}
    /\ WriteFuseP3 \/ WriteFuseP0 => pc \in FusePlaces /\ pc' \in FusePlaces \cup {"ret", "nocmd"}
    /\ ClearCommand => pc = "nocmd" /\ pc' = "ret"
<1>1. Activate => pc \in ActivatePlaces /\ pc' \in ActivatePlaces \cup {"ret"}
  BY DEF Activate, InitialBreak, InitCtrlB, InitCtrlA, CheckDatalink, SendDoubleBreak,
     CheckDatalinkAgain, ReadSibInfo, Try, Ignore, ActivatePlaces
<1>2. EnterProgmode \/ LeaveProgmode =>
        pc \in ProgmodePlaces /\ pc' \in ProgmodePlaces \cup {"ret"}
  BY DEF EnterProgmode, LeaveProgmode, AlreadyInProgmode, ConfirmProgmode, Try, TryBit, Ignore,
     WaitUnlocked, ProgmodePlaces
<1>3. Unlock => pc \in UnlockPlaces /\ pc' \in UnlockPlaces \cup {"ret"}
  BY DEF Unlock, Try, TryBit, Ignore, WaitUnlocked, UnlockPlaces
<1>4. Reads => pc \in ReadPlaces /\ pc' = "ret"
  BY DEF Reads, Read, ReadPlaces
<1>5. EraseChip => pc \in EraseChipPlaces /\ pc' \in EraseChipPlaces \cup {"ret", "nocmd"}
  BY DEF EraseChip, WaitReady, Command, Try, Finish, EraseChipPlaces
<1>6. EraseFlashPage => pc \in ErasePagePlaces /\ pc' \in ErasePagePlaces \cup {"ret", "nocmd"}
  BY DEF EraseFlashPage, WaitReady, Command, Try, Finish, ErasePagePlaces
<1>7. WriteFlashPage => pc \in WritePagePlaces /\ pc' \in WritePagePlaces \cup {"ret", "nocmd"}
  BY DEF WriteFlashPage, WaitReady, Command, Try, Finish, WritePagePlaces
<1>8. WriteFuseP3 \/ WriteFuseP0 => pc \in FusePlaces /\ pc' \in FusePlaces \cup {"ret", "nocmd"}
  BY DEF WriteFuseP3, WriteFuseP0, WaitReady, Command, Try, FusePlaces
<1>9. ClearCommand => pc = "nocmd" /\ pc' = "ret"
  BY DEF ClearCommand, Ignore
<1> QED BY <1>1, <1>2, <1>3, <1>4, <1>5, <1>6, <1>7, <1>8, <1>9

\* What a function was called with stays.
LEMMA ArgumentsStay == NvmStep => UNCHANGED <<arg, dev>>
<1>1. Activate => UNCHANGED <<arg, dev>>
  BY DEF Activate, InitialBreak, InitCtrlB, InitCtrlA, CheckDatalink, SendDoubleBreak,
     CheckDatalinkAgain, ReadSibInfo, Try, Ignore
<1>2. EnterProgmode \/ LeaveProgmode \/ Unlock => UNCHANGED <<arg, dev>>
  BY DEF EnterProgmode, LeaveProgmode, Unlock, AlreadyInProgmode, ConfirmProgmode, Try, TryBit,
     Ignore, WaitUnlocked
<1>3. Reads \/ ClearCommand => UNCHANGED <<arg, dev>>
  BY DEF Reads, Read, ClearCommand, Ignore
<1>4. EraseChip \/ EraseFlashPage \/ WriteFlashPage => UNCHANGED <<arg, dev>>
  BY DEF EraseChip, EraseFlashPage, WriteFlashPage, WaitReady, Command, Try
<1>5. WriteFuseP3 \/ WriteFuseP0 => UNCHANGED <<arg, dev>>
  BY DEF WriteFuseP3, WriteFuseP0, WaitReady, Command, Try
<1> QED BY <1>1, <1>2, <1>3, <1>4, <1>5 DEF NvmStep

-----------------------------------------------------------------------------
(* How a call that succeeds ends *)

\* A wait that goes on has seen the target neither busy nor with an error, and
\* the target answered.
LEMMA WaitReadyOk ==
    ASSUME NvmTypeOK, NEW here, NEW timeout, NEW onOk, NEW onError,
           WaitReady(here, timeout, onOk, onError), ret' = "Ok", pc' # here
    PROVE  /\ Accessible(tgt) /\ ~tgt.wrerr /\ tgt.busy = 0
           /\ \E ms \in Nat : tgt' = Elapse(tgt, ms)
           /\ pc' = onOk
<1>1. PICK o \in LdByte(tgt) :
        LET status == NvmStatus(o.st)
            again  == status = "Busy" /\ ~Expired(CostOf(o.st), timeout)
        IN  /\ Take([o EXCEPT !.tgt = Elapse(@, CostOf(o.st))])
            /\ ret' = IF status # "Busy" THEN status
                      ELSE IF again THEN "Ok" ELSE "ErrTimeout"
            /\ pc' = IF again THEN here ELSE IF ret' = "Ok" THEN onOk ELSE onError
  BY DEF WaitReady
<1>2. NvmStatus(o.st) = "Ok" /\ pc' = onOk
  BY <1>1
<1>3. o.st = "Ok" /\ ~tgt.wrerr /\ ~(tgt.busy > 0)
  BY <1>2 DEF NvmStatus
<1>4. Accessible(tgt) /\ o.tgt = tgt /\ CostOf(o.st) \in Nat
  BY <1>3, CostType DEF LdByte, Load, Out
<1>5. tgt.busy = 0
  BY <1>3 DEF NvmTypeOK, Targets
<1>6. tgt' = Elapse(tgt, CostOf(o.st))
  <2>1. [o EXCEPT !.tgt = Elapse(@, CostOf(o.st))].tgt = Elapse(o.tgt, CostOf(o.st))
    BY <1>4 DEF LdByte, Load, Out
  <2> QED BY <1>1, <1>4, <2>1 DEF Take
<1> QED BY <1>2, <1>3, <1>4, <1>5, <1>6

\* An access that succeeds and leaves busy alone leads to where it says.
LEMMA TryOk ==
    ASSUME NEW outs, NEW here, NEW there, Try(here, outs, there), pc' # "ret"
    PROVE  pc' = there /\ \E o \in outs : o.st = "Ok" /\ tgt' = o.tgt /\ o.fault <= faults
BY DEF Try, Take

LEMMA TryFailed ==
    ASSUME NEW outs, NEW here, NEW there, Try(here, outs, there), there # "ret", pc' = "ret"
    PROVE  ret' # "Ok"
BY DEF Try

\* What a store does that succeeds.
LEMMA StoreOk ==
    ASSUME NEW t, NEW u, NEW o \in StByte(t, u), o.st = "Ok"
    PROVE  o.tgt = u /\ Acknowledges(t)
BY DEF StByte, Out

\* A block goes to the page buffer.
LEMMA BlockKeepsFlash ==
    ASSUME NEW t \in Targets, NEW p \in Pages, NEW c, NEW o \in WriteDataWords(t, p, c)
    PROVE  o.tgt.busy = t.busy /\ o.tgt.flash = t.flash
<1>1. ASSUME NEW d
      PROVE  LoadBuffer(t, p, d).busy = t.busy /\ LoadBuffer(t, p, d).flash = t.flash
  BY DEF LoadBuffer, Targets
<1>2. ASSUME NEW b \in BOOLEAN, NEW d
      PROVE  /\ SetRsd(t, b).busy = t.busy /\ SetRsd(t, b).flash = t.flash
             /\ SetRsd(LoadBuffer(t, p, d), b).busy = t.busy
             /\ SetRsd(LoadBuffer(t, p, d), b).flash = t.flash
  BY DEF LoadBuffer, SetRsd, Targets
<1>3. \/ o.tgt = t \/ o.tgt = LoadBuffer(t, p, c)
      \/ \E b \in BOOLEAN : o.tgt = SetRsd(t, b)
      \/ \E b \in BOOLEAN, d \in {c, "torn"} : o.tgt = SetRsd(LoadBuffer(t, p, d), b)
  BY DEF WriteDataWords, Out
<1> QED BY <1>1, <1>2, <1>3

\* A command is taken, or refused with a write error.
LEMMA CommandOk ==
    ASSUME NEW here, NEW u, NEW there, Command(here, u, there), pc' # "ret"
    PROVE  /\ pc' = there /\ Acknowledges(tgt)
           /\ tgt' = u \/ tgt' = Refuse(tgt)
<1> DEFINE outs == StByte(tgt, u) \cup {[o EXCEPT !.fault = 1] : o \in StByte(tgt, Refuse(tgt))}
<1>1. PICK o \in outs : pc' = there /\ o.st = "Ok" /\ tgt' = o.tgt
  BY TryOk DEF Command
<1>2. CASE o \in StByte(tgt, u)
  BY <1>1, <1>2, StoreOk
<1>3. ASSUME NEW r \in StByte(tgt, Refuse(tgt)), o = [r EXCEPT !.fault = 1]
      PROVE  tgt' = Refuse(tgt) /\ Acknowledges(tgt)
  <2>1. o.st = r.st /\ o.tgt = r.tgt
    BY <1>3 DEF StByte, Out
  <2> QED BY <1>1, <2>1, StoreOk
<1> QED BY <1>1, <1>2, <1>3

LEMMA ElapseReady ==
    ASSUME NEW t \in Targets, t.busy = 0, NEW ms \in Nat
    PROVE  Elapse(t, ms).busy = 0
BY DEF Elapse, Less, Targets

LEMMA WaitedReady ==
    ASSUME NvmTypeOK, NEW here, NEW timeout, NEW onOk, NEW onError,
           WaitReady(here, timeout, onOk, onError), pc' # here, pc' # onError
    PROVE  tgt'.busy = 0 /\ pc' = onOk
<1>1. ret' = "Ok"
  BY DEF WaitReady
<1> QED BY <1>1, WaitReadyOk, ElapseReady DEF NvmTypeOK

-----------------------------------------------------------------------------
(* The page that a page command goes to *)

\* In programming mode an erase of a page finds its page selected.  A write
\* finds its page selected or, if the block was lost, an empty buffer: the
\* command that cleared it was not refused.
PageInv ==
    /\ pc = "erase_page_cmd" => ~tgt.prog \/ tgt.page = arg.page
    /\ pc = "write_clear_wait" => ~tgt.prog \/ tgt.wrerr \/ tgt.buf = "blank"
    /\ pc = "write_fill" => ~tgt.prog \/ tgt.buf = "blank"
    /\ pc = "write_cmd" => ~tgt.prog \/ tgt.page = arg.page \/ tgt.buf = "blank"

PagePlaces == {"erase_page_cmd", "write_clear_wait", "write_fill", "write_cmd"}

\* PageInv is about the middle of two functions.
LEMMA PageInvElsewhere == pc' \notin PagePlaces => PageInv'
BY DEF PageInv, PagePlaces

LEMMA PageInvStays ==
    ASSUME PageInv, NvmTypeOK, NEW ms \in Nat, tgt' = Elapse(tgt, ms), UNCHANGED <<pc, arg>>
    PROVE  PageInv'
BY DEF PageInv, NvmTypeOK, Elapse, Targets

\* A wait that goes on leaves the target as it is but for the time.
LEMMA WaitReadyAgain ==
    ASSUME NvmTypeOK, NEW here, NEW timeout, NEW onOk, NEW onError,
           WaitReady(here, timeout, onOk, onError)
    PROVE  \E ms \in Nat : tgt' = Elapse(tgt, ms)
<1>1. PICK o \in LdByte(tgt) : Take([o EXCEPT !.tgt = Elapse(@, CostOf(o.st))])
  BY DEF WaitReady
<1>2. o.tgt = tgt /\ CostOf(o.st) \in Nat
  BY CostType DEF LdByte, Load, Out
<1>3. [o EXCEPT !.tgt = Elapse(@, CostOf(o.st))].tgt = Elapse(o.tgt, CostOf(o.st))
  BY DEF LdByte, Load, Out
<1> QED BY <1>1, <1>2, <1>3 DEF Take

\* A store of a block that succeeds, with whatever of it arrived.
LEMMA BlockSelects ==
    ASSUME NEW t \in Targets, NEW p \in Pages, NEW c, NEW o \in WriteDataWords(t, p, c)
    PROVE  o.tgt.page = p \/ (o.tgt.page = t.page /\ o.tgt.buf = t.buf /\ o.tgt.prog = t.prog)
<1>1. ASSUME NEW d
      PROVE  LoadBuffer(t, p, d).page = p
  BY DEF LoadBuffer, Targets
<1>2. ASSUME NEW b \in BOOLEAN, NEW d
      PROVE  /\ SetRsd(t, b).page = t.page /\ SetRsd(t, b).buf = t.buf
             /\ SetRsd(t, b).prog = t.prog
             /\ SetRsd(LoadBuffer(t, p, d), b).page = p
  BY DEF LoadBuffer, SetRsd, Targets
<1>3. \/ o.tgt = t \/ o.tgt = LoadBuffer(t, p, c)
      \/ \E b \in BOOLEAN : o.tgt = SetRsd(t, b)
      \/ \E b \in BOOLEAN, d \in {c, "torn"} : o.tgt = SetRsd(LoadBuffer(t, p, d), b)
  BY DEF WriteDataWords, Out
<1> QED BY <1>1, <1>2, <1>3

LEMMA PageInvErase ==
    ASSUME NvmTypeOK, PageInv, EraseFlashPage
    PROVE  PageInv'
<1>0. tgt \in Targets /\ arg.page \in Pages /\ arg' = arg
  BY DEF NvmTypeOK, EraseFlashPage, WaitReady, Command, Try
<1>1. CASE pc' \notin PagePlaces
  BY <1>1, PageInvElsewhere
<1>2. CASE pc' \in PagePlaces
  <2>1. \/ WaitReady("erase_page", 100, "erase_page_select", "ret")
        \/ WaitReady("erase_page_wait", 100, Finish, Finish)
        \/ \E ms \in WriteTimes :
              Command("erase_page_cmd", ErasePage(tgt, ms), "erase_page_wait")
        => pc' \notin PagePlaces
    BY DEF WaitReady, Command, Try, Finish, PagePlaces
  <2>2. Try("erase_page_select", StByte(tgt, SelectPage(tgt, arg.page)), "erase_page_cmd")
    BY <1>2, <2>1 DEF EraseFlashPage
  <2>3. pc' = "erase_page_cmd" /\ \E o \in StByte(tgt, SelectPage(tgt, arg.page)) :
            o.st = "Ok" /\ tgt' = o.tgt
    BY <1>2, <2>2, TryOk DEF PagePlaces
  <2>4. tgt' = SelectPage(tgt, arg.page)
    BY <2>3, StoreOk
  <2>5. tgt'.page = arg.page
    BY <1>0, <2>4 DEF SelectPage, Targets
  <2> QED BY <1>0, <2>3, <2>5 DEF PageInv
<1> QED BY <1>1, <1>2

LEMMA PageInvWrite ==
    ASSUME NvmTypeOK, PageInv, WriteFlashPage
    PROVE  PageInv'
<1>0. tgt \in Targets /\ arg.page \in Pages /\ arg' = arg
  BY DEF NvmTypeOK, WriteFlashPage, WaitReady, Command, Try
<1>1. CASE pc' \notin PagePlaces
  BY <1>1, PageInvElsewhere
<1>2. CASE Command("write_clear", ClearBuffer(tgt), "write_clear_wait") /\ pc' \in PagePlaces
  <2>1. pc' = "write_clear_wait" /\ tgt' \in {ClearBuffer(tgt), Refuse(tgt)}
    BY <1>2, CommandOk DEF PagePlaces
  <2>2. ClearBuffer(tgt).buf = "blank" /\ Refuse(tgt).wrerr = TRUE
    BY <1>0 DEF ClearBuffer, Refuse, Targets
  <2> QED BY <2>1, <2>2 DEF PageInv
<1>3. CASE WaitReady("write_clear_wait", 100, "write_fill", "ret") /\ pc' \in PagePlaces
  <2>1. PICK ms \in Nat : tgt' = Elapse(tgt, ms)
    BY <1>3, WaitReadyAgain
  <2>2. CASE pc' = pc
    BY <1>0, <2>1, <2>2, PageInvStays
  <2>3. CASE pc' # pc
    <3>1. pc = "write_clear_wait" /\ pc' # "ret"
      BY <1>3 DEF WaitReady, PagePlaces
    <3>2. ret' = "Ok"
      BY <1>3, <2>3, <3>1 DEF WaitReady
    <3>3. pc' = "write_fill" /\ ~tgt.wrerr
      BY <1>3, <2>3, <3>1, <3>2, WaitReadyOk
    <3>4. tgt'.buf = tgt.buf /\ tgt'.prog = tgt.prog
      BY <1>0, <2>1 DEF Elapse, Targets
    <3> QED BY <3>1, <3>3, <3>4 DEF PageInv
  <2> QED BY <2>2, <2>3
<1>4. CASE Try("write_fill", WriteDataWords(tgt, arg.page, arg.data), "write_cmd")
             /\ pc' \in PagePlaces
  <2>1. pc = "write_fill" /\ pc' = "write_cmd" /\
        \E o \in WriteDataWords(tgt, arg.page, arg.data) : tgt' = o.tgt
    BY <1>4, TryOk DEF PagePlaces, Try
  <2>2. \/ tgt'.page = arg.page
        \/ tgt'.page = tgt.page /\ tgt'.buf = tgt.buf /\ tgt'.prog = tgt.prog
    BY <1>0, <2>1, BlockSelects
  <2> QED BY <1>0, <2>1, <2>2 DEF PageInv
<1>5. \/ WaitReady("write_page", 100, "write_clear", "ret")
      \/ WaitReady("write_wait", 100, Finish, Finish)
      \/ \E ms \in WriteTimes : Command("write_cmd", WritePage(tgt, ms), "write_wait")
      => pc' \notin PagePlaces
  BY DEF WaitReady, Command, Try, Finish, PagePlaces
<1> QED BY <1>1, <1>2, <1>3, <1>4, <1>5 DEF WriteFlashPage

\* Every step of the machine keeps it, and so do power losses and new calls.
LEMMA PageInvNvm == ASSUME NvmTypeOK, PageInv, NvmStep PROVE PageInv'
<1>1. CASE Activate \/ EnterProgmode \/ LeaveProgmode \/ Unlock \/ Reads \/ EraseChip
             \/ WriteFuseP3 \/ WriteFuseP0 \/ ClearCommand
  <2>1. pc' \notin PagePlaces
    BY <1>1, ControlFlow DEF PagePlaces, ActivatePlaces, ProgmodePlaces, UnlockPlaces,
       EraseChipPlaces, FusePlaces
  <2> QED BY <2>1, PageInvElsewhere
<1> QED BY <1>1, PageInvErase, PageInvWrite DEF NvmStep

LEMMA PageInvPower == ASSUME NvmTypeOK, PowerCycle PROVE PageInv'
<1>1. PICK S \in SUBSET Pages : tgt' = PowerUp(tgt, S)
  BY DEF PowerCycle
<1>2. ~tgt'.prog
  BY <1>1 DEF PowerUp, NvmTypeOK, Targets
<1> QED BY <1>2 DEF PageInv

\* What a page command does to the other pages: nothing.
LEMMA PageCommandOthers ==
    ASSUME NEW t \in Targets, NEW ms \in Nat, NEW p \in Pages
    PROVE  /\ p # t.page => ErasePage(t, ms).flash[p] = t.flash[p]
           /\ p # t.page \/ t.buf = "blank" => WritePage(t, ms).flash[p] = t.flash[p]
<1>1. p # t.page => ErasePage(t, ms).flash[p] = t.flash[p]
  BY DEF ErasePage, Targets
<1>2. Programmed(t.flash[p], "blank") = t.flash[p]
  BY DEF Programmed
<1>3. p # t.page \/ t.buf = "blank" => WritePage(t, ms).flash[p] = t.flash[p]
  BY <1>2 DEF WritePage, Targets
<1> QED BY <1>1, <1>3
=============================================================================
