-------------------------- MODULE UpdiWorkerProofs --------------------------
(***************************************************************************)
(* Theorems about UpdiWorker: its types; that a target is erased or        *)
(* written only after the user asked for it; and what the session and the  *)
(* operations rely on and report: a connected session has the target in    *)
(* programming mode, only blank pages are written, an erase and a verify   *)
(* that are reported good are true of the target.  They hold for every     *)
(* number of pages, faults and poll iterations and for all the times a     *)
(* target may take, whatever is lost and however often.                    *)
(***************************************************************************)
EXTENDS UpdiWorker, UpdiNvmProofs

-----------------------------------------------------------------------------
(* Type correctness *)

\* What the worker's part of TypeOK says.
SessionTypeOK ==
    /\ wpc \in WorkerPlaces
    /\ op \in Ops \cup {"None"}
    /\ result \in Statuses
    /\ retried \in BOOLEAN
    /\ transport \in {"NULL", "ready", "not_ready"}
    /\ device \in {"P0", "P3", "NULL"}
    /\ connected \in BOOLEAN
    /\ file \in Images \cup {BadFile}
    /\ cursor \in Nat \ {0}
    /\ asked \in BOOLEAN
    /\ budget \in 0..MaxFaults
    /\ wasLocked \in BOOLEAN

LEMMA TypeSplit == TypeOK <=> NvmTypeOK /\ SessionTypeOK
BY DEF TypeOK, SessionTypeOK

\* Entries of UpdiNvm that take no page, and the places of the worker.
LEMMA Entries ==
    /\ {"ret", "activate", "sib", "enter", "leave", "unlock", "signature", "chip_erase",
        "read", "fuse", "write_page"} \subseteq Locations
    /\ 1 \in Pages
BY NPagesAssumption DEF Locations, Pages

LEMMA CallType ==
    ASSUME TypeOK, UNCHANGED history, NEW entry \in Locations, NEW place \in WorkerPlaces,
           Call(entry, place)
    PROVE  TypeOK'
<1>1. NvmTypeOK'
  BY Entries, InvokeType DEF TypeOK, NvmTypeOK, Call
<1>2. SessionTypeOK'
  BY TypeSplit DEF SessionTypeOK, Call, history
<1> QED BY <1>1, <1>2, TypeSplit DEF TypeOK, SessionTypeOK

LEMMA CallPageType ==
    ASSUME TypeOK, UNCHANGED history, NEW entry \in Locations, NEW page \in Pages,
           NEW data \in Data \cup {"blank"}, NEW place \in WorkerPlaces,
           CallPage(entry, page, data, place)
    PROVE  TypeOK'
<1>1. NvmTypeOK'
  BY InvokeType DEF TypeOK, NvmTypeOK, CallPage
<1>2. SessionTypeOK'
  BY TypeSplit DEF SessionTypeOK, CallPage, history
<1> QED BY <1>1, <1>2 DEF TypeOK, SessionTypeOK

LEMMA GotoType ==
    ASSUME TypeOK, UNCHANGED history, NEW place \in WorkerPlaces, NEW at \in Nat \ {0},
           Goto(place, at)
    PROVE  TypeOK'
BY DEF TypeOK, NvmTypeOK, Goto, history, nvmVars

LEMMA ReturnType ==
    ASSUME TypeOK, UNCHANGED history, NEW st \in Statuses, Return(st)
    PROVE  TypeOK'
BY DEF TypeOK, NvmTypeOK, Return, history, nvmVars, WorkerPlaces

LEMMA DisconnectType ==
    ASSUME TypeOK, UNCHANGED history, NEW st \in Statuses, DisconnectAndReturn(st)
    PROVE  TypeOK'
<1>1. NvmTypeOK'
  BY Entries, InvokeType DEF TypeOK, NvmTypeOK, DisconnectAndReturn
<1>2. SessionTypeOK'
  BY TypeSplit DEF SessionTypeOK, DisconnectAndReturn, history, WorkerPlaces
<1> QED BY <1>1, <1>2 DEF TypeOK, SessionTypeOK

\* An error of updi_session_connect: the unlock, or the end of the operation.
LEMMA ConnectFailedType ==
    ASSUME TypeOK, UNCHANGED history, NEW st \in Statuses, ConnectFailed(st)
    PROVE  TypeOK'
<1>1. CASE Return(st)
  BY <1>1, ReturnType
<1>2. CASE /\ Invoke("unlock", 1, "blank")
           /\ wpc' = "unlock"
           /\ retried' = TRUE
           /\ UNCHANGED <<dev, op, result, transport, device, connected, file, cursor>>
  <2>1. NvmTypeOK'
    BY <1>2, Entries, InvokeType DEF TypeOK, NvmTypeOK
  <2>2. SessionTypeOK'
    BY <1>2, TypeSplit DEF SessionTypeOK, history, WorkerPlaces
  <2> QED BY <2>1, <2>2 DEF TypeOK, SessionTypeOK
<1> QED BY <1>1, <1>2 DEF ConnectFailed

LEMMA DoConnectType == ASSUME TypeOK, UNCHANGED history, DoConnect PROVE TypeOK'
<1>1. /\ {"idle", "crashed", "connect", "activate", "sib", "enter", "signature",
          "unlock", "body"} \subseteq WorkerPlaces
      /\ {"Ok", "ErrTransport", "ErrUnsupported"} \subseteq Statuses
  BY DEF WorkerPlaces, Statuses
<1>2. ret \in Statuses /\ cursor \in Nat \ {0}
  BY DEF TypeOK, NvmTypeOK
<1>3. CASE EnsureTransport
  <2>1. /\ transport' \in {"NULL", "ready", "not_ready"}
        /\ wpc' \in {"connect", "idle", "crashed"}
        /\ result' \in {result, "ErrTransport"}
        /\ UNCHANGED <<nvmVars, op, retried, device, connected, file, cursor>>
    BY <1>3 DEF EnsureTransport
  <2>2. NvmTypeOK'
    BY <2>1 DEF TypeOK, NvmTypeOK, nvmVars
  <2>3. SessionTypeOK'
    BY <1>1, <2>1, TypeSplit DEF SessionTypeOK, history
  <2> QED BY <2>2, <2>3 DEF TypeOK, SessionTypeOK
<1>4. CASE SessionConnect
  <2>1. NvmTypeOK'
    BY <1>4, Entries, InvokeType DEF TypeOK, NvmTypeOK, SessionConnect
  <2>2. SessionTypeOK'
    BY <1>1, <1>4, TypeSplit DEF SessionTypeOK, SessionConnect, history
  <2> QED BY <2>1, <2>2 DEF TypeOK, SessionTypeOK
<1>5. CASE Activated
  BY <1>1, <1>2, <1>5, Entries, CallType, ConnectFailedType DEF Activated
<1>6. CASE SibRead
  <2>1. CASE ret = "Ok"
    <3>1. NvmTypeOK'
      BY <1>6, <2>1, Entries, InvokeType DEF TypeOK, NvmTypeOK, SibRead
    <3>2. SessionTypeOK'
      BY <1>1, <1>6, <2>1, TypeSplit DEF SessionTypeOK, SibRead, history
    <3> QED BY <3>1, <3>2 DEF TypeOK, SessionTypeOK
  <2>2. CASE ret # "Ok"
    BY <1>2, <1>6, <2>2, ConnectFailedType DEF SibRead
  <2> QED BY <2>1, <2>2
<1>7. CASE Entered
  BY <1>1, <1>2, <1>7, Entries, CallType, ConnectFailedType DEF Entered
<1>8. CASE Identified
  <2>1. CASE ret = "Ok" /\ Known(val)
    <3>1. NvmTypeOK'
      BY <1>8, <2>1 DEF TypeOK, NvmTypeOK, Identified, Known
    <3>2. SessionTypeOK'
      BY <1>1, <1>8, <2>1, TypeSplit DEF SessionTypeOK, Identified, history, Known
    <3> QED BY <3>1, <3>2 DEF TypeOK, SessionTypeOK
  <2>2. CASE ~(ret = "Ok" /\ Known(val))
    <3>1. PICK st \in Statuses : ConnectFailed(st)
      BY <1>1, <1>2, <1>8, <2>2 DEF Identified
    <3> QED BY <3>1, ConnectFailedType
  <2> QED BY <2>1, <2>2
<1>9. CASE Unlocked
  BY <1>1, <1>2, <1>9, GotoType, ReturnType DEF Unlocked
<1> QED BY <1>3, <1>4, <1>5, <1>6, <1>7, <1>8, <1>9 DEF DoConnect

\* A page the loops over the image touch is a page of the flash.
LEMMA ImagePage ==
    ASSUME TypeOK, cursor <= file.len
    PROVE  /\ cursor \in Pages
           /\ file.page[cursor] \in Data \cup {"blank"}
<1>1. NPages \in Nat /\ cursor \in Nat \ {0}
  BY NPagesAssumption DEF TypeOK
<1>2. CASE file \in Images
  BY <1>1, <1>2 DEF Images, Pages
<1>3. CASE file = BadFile
  BY <1>1, <1>3 DEF BadFile
<1> QED BY <1>2, <1>3 DEF TypeOK

LEMMA OperationType == ASSUME TypeOK, UNCHANGED history, Operation PROVE TypeOK'
<1>1. /\ {"idle", "body", "parse", "erase", "write", "write_page", "verify",
          "verify_page", "dump", "dump_page", "save", "fuses", "fuse",
          "disconnect"} \subseteq WorkerPlaces
      /\ {"Ok", "ErrParam", "ErrVerify"} \subseteq Statuses
  BY DEF WorkerPlaces, Statuses
<1>2. ret \in Statuses /\ cursor \in Nat \ {0} /\ cursor + 1 \in Nat \ {0}
      /\ 1 \in Nat \ {0}
  BY DEF TypeOK, NvmTypeOK
<1>3. CASE Body
  BY <1>1, <1>2, <1>3, Entries, CallType, GotoType, DisconnectType DEF Body
<1>4. CASE ParseHexFile
  BY <1>1, <1>2, <1>4, Entries, CallType, GotoType, ReturnType DEF ParseHexFile
<1>5. CASE Erased
  BY <1>1, <1>2, <1>5, GotoType, ReturnType, DisconnectType DEF Erased
<1>6. CASE WriteFlash
  <2>1. CASE cursor > file.len \/ file.page[cursor] = "blank"
    BY <1>1, <1>2, <1>6, <2>1, GotoType DEF WriteFlash
  <2>2. CASE ~(cursor > file.len) /\ file.page[cursor] # "blank"
    <3>1. cursor <= file.len
      <4>1. file.len \in Nat
        BY NPagesAssumption DEF TypeOK, Images, BadFile
      <4> QED BY <1>2, <2>2, <4>1
    <3>2. CallPage("write_page", cursor, file.page[cursor], "write_page")
      BY <1>6, <2>2 DEF WriteFlash
    <3> QED BY <1>1, <3>1, <3>2, ImagePage, Entries, CallPageType
  <2> QED BY <2>1, <2>2
<1>7. CASE PageWritten
  BY <1>1, <1>2, <1>7, GotoType, ReturnType DEF PageWritten
<1>8. CASE VerifyFlash
  <2>1. CASE cursor > file.len
    BY <1>1, <1>8, <2>1, DisconnectType DEF VerifyFlash
  <2>2. CASE ~(cursor > file.len)
    <3>1. cursor <= file.len
      <4>1. file.len \in Nat
        BY NPagesAssumption DEF TypeOK, Images, BadFile
      <4> QED BY <1>2, <2>2, <4>1
    <3>2. CallPage("read", cursor, "blank", "verify_page")
      BY <1>8, <2>2 DEF VerifyFlash
    <3> QED BY <1>1, <3>1, <3>2, ImagePage, Entries, CallPageType
  <2> QED BY <2>1, <2>2
<1>9. CASE PageVerified
  BY <1>1, <1>2, <1>9, GotoType, DisconnectType DEF PageVerified
<1>10. CASE DumpFlash
  <2>1. CASE cursor > NPages
    BY <1>1, <1>2, <1>10, <2>1, GotoType DEF DumpFlash
  <2>2. CASE ~(cursor > NPages)
    <3>1. cursor \in Pages
      BY <1>2, <2>2, NPagesAssumption DEF Pages
    <3>2. CallPage("read", cursor, "blank", "dump_page")
      BY <1>10, <2>2 DEF DumpFlash
    <3> QED BY <1>1, <3>1, <3>2, Entries, CallPageType
  <2> QED BY <2>1, <2>2
<1>11. CASE PageDumped
  BY <1>1, <1>2, <1>11, GotoType, ReturnType DEF PageDumped
<1>12. CASE SaveDump
  BY <1>1, <1>12, ReturnType, DisconnectType DEF SaveDump
<1>13. CASE ReadFuses
  BY <1>1, <1>13, Entries, CallType, DisconnectType DEF ReadFuses
<1>14. CASE FuseRead
  BY <1>1, <1>2, <1>14, GotoType, DisconnectType DEF FuseRead
<1>15. CASE Disconnected
  <2>1. NvmTypeOK'
    BY <1>15 DEF TypeOK, NvmTypeOK, Disconnected, nvmVars
  <2>2. SessionTypeOK'
    BY <1>1, <1>15, TypeSplit DEF SessionTypeOK, Disconnected, history
  <2> QED BY <2>1, <2>2 DEF TypeOK, SessionTypeOK
<1> QED
  BY <1>3, <1>4, <1>5, <1>6, <1>7, <1>8, <1>9, <1>10, <1>11, <1>12, <1>13, <1>14, <1>15
  DEF Operation

LEMMA EnvironmentType == ASSUME TypeOK, Environment PROVE TypeOK'
<1>0. /\ "idle" \in WorkerPlaces /\ "transport" \in WorkerPlaces /\ "Ok" \in Statuses
      /\ 1 \in Nat \ {0}
  BY DEF WorkerPlaces, Statuses
<1>1. CASE PowerCycle /\ UNCHANGED <<workerVars, history>>
  <2>1. NvmTypeOK'
    BY <1>1, PowerCycleType DEF TypeOK
  <2>2. SessionTypeOK'
    BY <1>1, TypeSplit DEF SessionTypeOK, workerVars, history
  <2> QED BY <2>1, <2>2 DEF TypeOK, SessionTypeOK
<1>2. ASSUME NEW o \in UserOps, Start(o) PROVE TypeOK'
  <2>1. tgt' \in Targets
    BY <1>2, TimeType, 0 \in Nat, {} \in SUBSET Pages DEF TypeOK, NvmTypeOK, Start
  <2>2. NvmTypeOK'
    BY <1>2, <2>1 DEF TypeOK, NvmTypeOK, Start
  <2>3. file' \in Images \cup {BadFile} /\ o \in Ops
    BY <1>2, WorkerAssumption DEF Start
  <2>4. tgt.locked \in BOOLEAN /\ faults \in 0..MaxFaults
    BY DEF TypeOK, NvmTypeOK, Targets
  <2>5. asked' \in BOOLEAN
    BY <1>2 DEF Start
  <2>6. SessionTypeOK'
    BY <1>0, <1>2, <2>3, <2>4, <2>5, TypeSplit DEF SessionTypeOK, Start
  <2> QED BY <2>2, <2>6 DEF TypeOK, SessionTypeOK
<1>3. CASE Relaunch
  <2>1. NvmTypeOK'
    BY <1>3 DEF TypeOK, NvmTypeOK, Relaunch
  <2>2. SessionTypeOK'
    BY <1>0, <1>3, TypeSplit DEF SessionTypeOK, Relaunch, history
  <2> QED BY <2>1, <2>2 DEF TypeOK, SessionTypeOK
<1>4. CASE SwapTarget
  <2>1. NvmTypeOK'
    BY <1>4, FreshType DEF TypeOK, NvmTypeOK, SwapTarget
  <2>2. SessionTypeOK'
    BY <1>4, TypeSplit DEF SessionTypeOK, SwapTarget
  <2> QED BY <2>1, <2>2 DEF TypeOK, SessionTypeOK
<1> QED BY <1>1, <1>2, <1>3, <1>4 DEF Environment

LEMMA InitType == Init => TypeOK
<1> SUFFICES ASSUME Init PROVE TypeOK
  OBVIOUS
<1>1. NvmTypeOK
  BY NvmInitType DEF Init
<1>2. SessionTypeOK
  <2>1. /\ "idle" \in WorkerPlaces /\ "Ok" \in Statuses /\ 1 \in Nat \ {0}
        /\ MaxFaults \in 0..MaxFaults
    BY NvmAssumption DEF WorkerPlaces, Statuses
  <2> QED BY <2>1 DEF Init, SessionTypeOK
<1> QED BY <1>1, <1>2, TypeSplit

LEMMA NextType == TypeOK /\ [Next]_vars => TypeOK'
<1> SUFFICES ASSUME TypeOK, [Next]_vars PROVE TypeOK'
  OBVIOUS
<1>1. CASE NvmStep /\ UNCHANGED <<workerVars, history>>
  <2>1. NvmTypeOK'
    BY <1>1, NvmStepType DEF TypeOK
  <2>2. SessionTypeOK'
    BY <1>1, TypeSplit DEF SessionTypeOK, workerVars, history
  <2> QED BY <2>1, <2>2 DEF TypeOK, SessionTypeOK
<1>2. CASE (DoConnect \/ Operation) /\ UNCHANGED history
  BY <1>2, DoConnectType, OperationType
<1>3. CASE Environment
  BY <1>3, EnvironmentType
<1>4. CASE UNCHANGED vars
  <2>1. NvmTypeOK'
    BY <1>4 DEF TypeOK, NvmTypeOK, vars, nvmVars
  <2>2. SessionTypeOK'
    BY <1>4, TypeSplit DEF SessionTypeOK, vars, workerVars, history
  <2> QED BY <2>1, <2>2 DEF TypeOK, SessionTypeOK
<1> QED BY <1>1, <1>2, <1>3, <1>4 DEF Next, WorkerStep

\* Type correctness of the worker, the session and the machine below them.
THEOREM TypeCorrect == Spec => []TypeOK
<1> QED BY InitType, NextType, PTL DEF Spec

-----------------------------------------------------------------------------
(* A target is erased or written only on request *)

\* Nobody erased or wrote the target, and no reset is about to.
Untouched(t) == t.flash = Filled("old") /\ ~t.eraseKey /\ t.busy = 0

\* The places of the functions that neither erase nor write.
HarmlessPlaces ==
    {"ret", "activate", "ctrlb", "ctrla", "check", "double_break", "ctrlb2",
     "ctrla2", "check2", "sib",
     "enter", "hold", "nvm_key", "nvm_key_status", "apply", "release",
     "wait_unlocked", "confirm", "leave", "leave_release", "leave_disable",
     "signature", "read", "fuse"}

\* ErasedOnRequest made inductive: without a request the target is untouched and
\* none of the functions that erase or write is being executed.
EraseInv ==
    /\ TypeOK
    /\ ~asked => Untouched(tgt) /\ pc \in HarmlessPlaces
    /\ op \in EraseOps => asked
    /\ wpc \in {"erase", "write", "write_page"} => asked
    /\ wpc \in {"idle", "crashed"} => pc = "ret"

LEMMA UntouchedKept ==
    ASSUME NEW t \in Targets, Untouched(t), NEW b \in BOOLEAN, NEW ms \in Nat
    PROVE  /\ Untouched(Break(t)) /\ Untouched(DoubleBreak(t))
           /\ Untouched(SetRsd(t, b)) /\ Untouched(Disable(t))
           /\ Untouched(TakeKey(t, "NVMProg")) /\ Untouched(HoldReset(t))
           /\ Untouched(ReleaseReset(t, ms))
           /\ Untouched(Elapse(t, ms)) /\ Untouched(Settle(t))
           /\ Untouched(PowerUp(t, {}))
<1>1. Untouched(Break(t)) /\ Untouched(DoubleBreak(t))
  BY DEF Untouched, Break, DoubleBreak, Targets
<1>2. Untouched(SetRsd(t, b)) /\ Untouched(Disable(t))
  BY DEF Untouched, SetRsd, Disable, Targets
<1>3. Untouched(TakeKey(t, "NVMProg")) /\ Untouched(HoldReset(t))
  BY DEF Untouched, TakeKey, HoldReset, Targets
<1>4. Untouched(ReleaseReset(t, ms))
  BY DEF Untouched, ReleaseReset, Targets
<1>5. Untouched(Elapse(t, ms)) /\ Untouched(Settle(t))
  BY DEF Untouched, Elapse, Settle, Less, Targets
<1>6. Untouched(PowerUp(t, {}))
  BY DEF Untouched, PowerUp, Targets, Filled
<1> QED BY <1>1, <1>2, <1>3, <1>4, <1>5, <1>6

\* Calls whose outcomes are all harmless.
Harmless(outs) == \A o \in outs : Untouched(o.tgt)

LEMMA HarmlessCalls ==
    ASSUME NEW t \in Targets, Untouched(t), NEW u \in Targets, Untouched(u)
    PROVE  /\ Harmless(Send(t, u)) /\ Harmless(Stcs(t, u)) /\ Harmless(Ldcs(t))
           /\ Harmless(LdByte(t)) /\ Harmless(ReadSib(t)) /\ Harmless(ReadData(t))
<1>1. Harmless(Send(t, u)) /\ Harmless(Stcs(t, u))
  BY DEF Harmless, Send, Stcs, Out
<1>2. Harmless(Load(t, TRUE)) /\ Harmless(Load(t, FALSE))
  BY DEF Harmless, Load, Out
<1>3. Harmless(Ldcs(t)) /\ Harmless(LdByte(t))
  BY DEF Harmless, Load, Out, Ldcs, LdByte
<1>4. Harmless(ReadSib(t))
  BY DEF Harmless, Load, Out, ReadSib
<1>5. Harmless(ReadData(t))
  BY DEF Harmless, ReadData, Out
<1> QED BY <1>1, <1>3, <1>4, <1>5

LEMMA HarmlessShapes ==
    ASSUME NEW outs, Harmless(outs), NEW here, NEW there \in HarmlessPlaces, NEW value,
           Try(here, outs, there) \/ Ignore(here, outs, there) \/ Read(here, outs, value)
    PROVE  Untouched(tgt') /\ pc' \in HarmlessPlaces
<1>1. "ret" \in HarmlessPlaces
  BY DEF HarmlessPlaces
<1> QED BY <1>1 DEF Harmless, Try, Ignore, Read, Take

LEMMA HarmlessActivate ==
    ASSUME NvmTypeOK, Untouched(tgt), Activate
    PROVE  Untouched(tgt') /\ pc' \in HarmlessPlaces
<1>1. tgt \in Targets /\ FALSE \in BOOLEAN /\ 0 \in Nat
      /\ "NVMProg" \in {"NVMProg", "NVMErase"}
  BY DEF NvmTypeOK
<1>2. {"ctrlb", "ctrla", "check", "ctrlb2", "ctrla2", "check2", "double_break", "ret"}
        \subseteq HarmlessPlaces
  BY DEF HarmlessPlaces
<1>3. /\ Break(tgt) \in Targets /\ DoubleBreak(tgt) \in Targets
      /\ SetRsd(tgt, FALSE) \in Targets
      /\ Untouched(Break(tgt)) /\ Untouched(DoubleBreak(tgt))
      /\ Untouched(SetRsd(tgt, FALSE))
  BY <1>1, ControlType, UntouchedKept
<1>4. CASE InitialBreak
  BY <1>1, <1>2, <1>3, <1>4, HarmlessCalls, HarmlessShapes DEF InitialBreak
<1>5. ASSUME NEW here, NEW ctrla \in HarmlessPlaces, NEW check \in HarmlessPlaces,
             InitCtrlB(here, ctrla, check)
      PROVE  Untouched(tgt') /\ pc' \in HarmlessPlaces
  <2>1. Harmless(Stcs(tgt, tgt))
    BY <1>1, HarmlessCalls
  <2> QED BY <1>5, <2>1 DEF InitCtrlB, Harmless, Take
<1>6. ASSUME NEW here, NEW check \in HarmlessPlaces, InitCtrlA(here, check)
      PROVE  Untouched(tgt') /\ pc' \in HarmlessPlaces
  BY <1>1, <1>3, <1>6, HarmlessCalls, HarmlessShapes DEF InitCtrlA
<1>7. CASE CheckDatalink \/ CheckDatalinkAgain
  <2>1. Harmless(Ldcs(tgt))
    BY <1>1, HarmlessCalls
  <2> QED BY <1>2, <1>7, <2>1 DEF CheckDatalink, CheckDatalinkAgain, Harmless, Take
<1>8. CASE SendDoubleBreak
  <2>1. Harmless({Out(DoubleBreak(tgt), "Ok", 0), Out(tgt, "Ok", 1)})
    BY <1>3 DEF Harmless, Out
  <2> QED BY <1>2, <1>8, <2>1, HarmlessShapes DEF SendDoubleBreak
<1>9. CASE ReadSibInfo
  BY <1>1, <1>2, <1>9, HarmlessCalls, HarmlessShapes DEF ReadSibInfo
<1> QED BY <1>2, <1>4, <1>5, <1>6, <1>7, <1>8, <1>9 DEF Activate

\* Entering and leaving programming mode resets the target, but with no erase key.
LEMMA HarmlessProgmode ==
    ASSUME NvmTypeOK, Untouched(tgt), EnterProgmode \/ LeaveProgmode
    PROVE  Untouched(tgt') /\ pc' \in HarmlessPlaces
<1>1. tgt \in Targets /\ FALSE \in BOOLEAN /\ 0 \in Nat
      /\ "NVMProg" \in {"NVMProg", "NVMErase"}
  BY DEF NvmTypeOK
<1>2. {"ret", "hold", "nvm_key", "nvm_key_status", "apply", "release", "wait_unlocked",
       "confirm", "leave_release", "leave_disable"} \subseteq HarmlessPlaces
  BY DEF HarmlessPlaces
<1>3. /\ HoldReset(tgt) \in Targets /\ Disable(tgt) \in Targets
      /\ TakeKey(tgt, "NVMProg") \in Targets
      /\ Untouched(HoldReset(tgt)) /\ Untouched(Disable(tgt))
      /\ Untouched(TakeKey(tgt, "NVMProg"))
  BY <1>1, ControlType, UntouchedKept
<1>4. Harmless(Ldcs(tgt))
  BY <1>1, HarmlessCalls
<1>5. ASSUME NEW here, NEW there \in HarmlessPlaces,
             \/ Ignore(here, Stcs(tgt, HoldReset(tgt)), there)
             \/ \E ms \in IF tgt.eraseKey THEN UnlockTimes ELSE BootTimes :
                  Ignore(here, Stcs(tgt, ReleaseReset(tgt, ms)), there)
      PROVE  Untouched(tgt') /\ pc' \in HarmlessPlaces
  <2>1. CASE Ignore(here, Stcs(tgt, HoldReset(tgt)), there)
    BY <1>1, <1>3, <2>1, HarmlessCalls, HarmlessShapes
  <2>2. CASE \E ms \in IF tgt.eraseKey THEN UnlockTimes ELSE BootTimes :
               Ignore(here, Stcs(tgt, ReleaseReset(tgt, ms)), there)
    <3>1. PICK ms \in Nat : Ignore(here, Stcs(tgt, ReleaseReset(tgt, ms)), there)
      BY <2>2, NvmAssumption
    <3>2. ReleaseReset(tgt, ms) \in Targets /\ Untouched(ReleaseReset(tgt, ms))
      BY <1>1, ControlType, UntouchedKept
    <3> QED BY <1>1, <3>1, <3>2, HarmlessCalls, HarmlessShapes
  <2> QED BY <1>5, <2>1, <2>2
<1>6. CASE EnterProgmode
  <2>1. CASE AlreadyInProgmode \/ ConfirmProgmode
    BY <1>2, <1>4, <2>1 DEF AlreadyInProgmode, ConfirmProgmode, Harmless, Take
  <2>2. CASE Try("hold", Stcs(tgt, HoldReset(tgt)), "nvm_key")
    BY <1>1, <1>2, <1>3, <2>2, HarmlessCalls, HarmlessShapes
  <2>3. CASE Try("nvm_key", Key(tgt, "NVMProg"), "nvm_key_status")
    <3>1. Harmless(Key(tgt, "NVMProg"))
      BY <1>1, <1>3, HarmlessCalls DEF Key
    <3> QED BY <1>2, <2>3, <3>1, HarmlessShapes
  <2>4. CASE TryBit("nvm_key_status", tgt.nvmKey, "apply")
    BY <1>2, <1>4, <2>4 DEF TryBit, Harmless, Take
  <2>5. CASE WaitUnlocked("wait_unlocked", 100, "confirm", "ErrLocked")
    <3>1. PICK o \in Ldcs(tgt) :
            /\ Take([o EXCEPT !.tgt = Elapse(@, CostOf(o.st))])
            /\ pc' \in {"confirm", "ret", "wait_unlocked"}
      BY <2>5 DEF WaitUnlocked
    <3>2. o \in Outcomes /\ o.tgt \in Targets /\ Untouched(o.tgt)
      BY <1>4, CallOutcomes DEF Harmless, Outcomes
    <3>3. Untouched(Elapse(o.tgt, CostOf(o.st)))
      BY <1>1, <3>2, CostType, UntouchedKept
    <3> QED BY <1>2, <3>1, <3>2, <3>3 DEF Take, Outcomes
  <2> QED BY <1>2, <1>5, <1>6, <2>1, <2>2, <2>3, <2>4, <2>5 DEF EnterProgmode
<1>7. CASE LeaveProgmode
  <2>1. CASE Try("leave_disable", Stcs(tgt, Disable(tgt)), "ret")
    BY <1>1, <1>2, <1>3, <2>1, HarmlessCalls, HarmlessShapes
  <2> QED BY <1>2, <1>5, <1>7, <2>1 DEF LeaveProgmode
<1> QED BY <1>6, <1>7

\* The other functions are at places that are not harmless.
LEMMA HarmfulPlaces ==
    ASSUME \/ Unlock \/ EraseChip \/ EraseFlashPage \/ WriteFlashPage
           \/ WriteFuseP3 \/ WriteFuseP0 \/ ClearCommand
    PROVE  pc \notin HarmlessPlaces
<1>1. CASE Unlock
  BY <1>1 DEF Unlock, Try, TryBit, Ignore, WaitUnlocked, HarmlessPlaces
<1>2. CASE EraseChip \/ EraseFlashPage
  BY <1>2 DEF EraseChip, EraseFlashPage, WaitReady, Command, Try, HarmlessPlaces
<1>3. CASE WriteFlashPage
  BY <1>3 DEF WriteFlashPage, WaitReady, Command, Try, HarmlessPlaces
<1>4. CASE WriteFuseP3
  BY <1>4 DEF WriteFuseP3, WaitReady, Command, Try, HarmlessPlaces
<1>5. CASE WriteFuseP0
  BY <1>5 DEF WriteFuseP0, WaitReady, Command, Try, HarmlessPlaces
<1>6. CASE ClearCommand
  BY <1>6 DEF ClearCommand, Ignore, HarmlessPlaces
<1> QED BY <1>1, <1>2, <1>3, <1>4, <1>5, <1>6

LEMMA HarmlessStep ==
    ASSUME NvmTypeOK, Untouched(tgt), pc \in HarmlessPlaces, NvmStep
    PROVE  Untouched(tgt') /\ pc' \in HarmlessPlaces
<1>1. CASE Reads
  <2>1. Harmless(ReadData(tgt)) /\ Harmless(LdByte(tgt)) /\ "ret" \in HarmlessPlaces
    BY HarmlessCalls DEF NvmTypeOK, HarmlessPlaces
  <2> QED BY <1>1, <2>1, HarmlessShapes DEF Reads
<1> QED BY <1>1, HarmlessActivate, HarmlessProgmode, HarmfulPlaces DEF NvmStep

\* A function that has returned does nothing more.
LEMMA ReturnedRests == ASSUME NvmStep PROVE pc # "ret"
<1>1. CASE Activate
  BY <1>1 DEF Activate, InitialBreak, InitCtrlB, InitCtrlA, CheckDatalink, SendDoubleBreak,
     CheckDatalinkAgain, ReadSibInfo, Try, Ignore
<1>2. CASE EnterProgmode \/ LeaveProgmode
  BY <1>2 DEF EnterProgmode, LeaveProgmode, AlreadyInProgmode, ConfirmProgmode, Try, TryBit,
     Ignore, WaitUnlocked
<1>3. CASE Reads
  BY <1>3 DEF Reads, Read
<1>4. "ret" \in HarmlessPlaces
  BY DEF HarmlessPlaces
<1> QED BY <1>1, <1>2, <1>3, <1>4, HarmfulPlaces DEF NvmStep

LEMMA EraseInvInit == Init => EraseInv
<1> SUFFICES ASSUME Init PROVE EraseInv
  OBVIOUS
<1>1. Untouched(tgt)
  BY DEF Init, NvmInit, FreshTargets, Fresh, Untouched
<1> QED BY <1>1, InitType DEF Init, NvmInit, EraseInv, HarmlessPlaces, EraseOps

LEMMA EraseInvNvm ==
    ASSUME EraseInv, NvmStep, UNCHANGED <<workerVars, history>>
    PROVE  EraseInv'
<1>1. TypeOK'
  BY NextType DEF EraseInv, Next, WorkerStep
<1>2. wpc \notin {"idle", "crashed"}
  BY ReturnedRests DEF EraseInv
<1>3. ~asked' => Untouched(tgt') /\ pc' \in HarmlessPlaces
  BY HarmlessStep DEF EraseInv, TypeOK, history
<1> QED BY <1>1, <1>2, <1>3 DEF EraseInv, workerVars, history

\* The worker's own steps leave the target alone.
LEMMA EraseInvWorker ==
    ASSUME EraseInv, DoConnect \/ Operation, UNCHANGED history
    PROVE  EraseInv'
<1>1. TypeOK'
  BY NextType DEF EraseInv, Next, WorkerStep
<1>2. {"ret", "activate", "sib", "enter", "signature", "leave", "read", "fuse"}
        \subseteq HarmlessPlaces
  BY DEF HarmlessPlaces
<1>3. asked' = asked
  BY DEF history
<1>4. ASSUME tgt' = tgt, op' = op, asked \/ pc' = pc \/ pc' \in HarmlessPlaces,
             wpc' \in {"erase", "write", "write_page"} => asked,
             wpc' \in {"idle", "crashed"} => pc' = "ret"
      PROVE  EraseInv'
  BY <1>1, <1>3, <1>4 DEF EraseInv
<1>5. ASSUME NEW st, ConnectFailed(st), pc = "ret"
      PROVE  EraseInv'
  BY <1>4, <1>5 DEF EraseInv, ConnectFailed, Invoke, Return, nvmVars
<1>6. CASE DoConnect
  <2>1. CASE EnsureTransport
    BY <1>4, <2>1 DEF EnsureTransport, At, nvmVars
  <2>2. CASE SessionConnect
    BY <1>2, <1>4, <2>2 DEF SessionConnect, Invoke
  <2>3. CASE Activated
    BY <1>2, <1>4, <1>5, <2>3 DEF Activated, At, Call, Invoke
  <2>4. CASE SibRead
    BY <1>2, <1>4, <1>5, <2>4 DEF SibRead, At, Invoke
  <2>5. CASE Entered
    BY <1>2, <1>4, <1>5, <2>5 DEF Entered, At, Call, Invoke
  <2>6. CASE Identified
    BY <1>4, <1>5, <2>6 DEF Identified, At
  <2>7. CASE Unlocked
    BY <1>4, <2>7 DEF Unlocked, At, Goto, Return, nvmVars
  <2> QED BY <1>6, <2>1, <2>2, <2>3, <2>4, <2>5, <2>6, <2>7 DEF DoConnect
<1>7. CASE Operation
  <2>1. CASE Body
    <3>1. op = "ChipErase" => asked
      BY DEF EraseInv, EraseOps
    <3> QED BY <1>2, <1>4, <2>1, <3>1
            DEF Body, At, Call, Goto, DisconnectAndReturn, Invoke, nvmVars
  <2>2. CASE ParseHexFile
    <3>1. op = "Flash" => asked
      BY DEF EraseInv, EraseOps
    <3> QED BY <1>2, <1>4, <2>2, <3>1
            DEF ParseHexFile, At, Call, Goto, Return, Invoke, nvmVars
  <2>3. CASE Erased \/ WriteFlash \/ PageWritten
    <3>1. asked
      BY <2>3 DEF Erased, WriteFlash, PageWritten, At, EraseInv
    <3> QED BY <1>4, <2>3, <3>1
            DEF Erased, WriteFlash, PageWritten, At, CallPage, Goto, Return,
                DisconnectAndReturn, Invoke, nvmVars
  <2>4. CASE VerifyFlash \/ PageVerified
    BY <1>2, <1>4, <2>4
       DEF VerifyFlash, PageVerified, At, CallPage, Goto, DisconnectAndReturn, Invoke, nvmVars
  <2>5. CASE DumpFlash \/ PageDumped \/ SaveDump
    BY <1>2, <1>4, <2>5
       DEF DumpFlash, PageDumped, SaveDump, At, CallPage, Goto, Return,
           DisconnectAndReturn, Invoke, nvmVars
  <2>6. CASE ReadFuses \/ FuseRead
    BY <1>2, <1>4, <2>6
       DEF ReadFuses, FuseRead, At, Call, Goto, DisconnectAndReturn, Invoke, nvmVars
  <2>7. CASE Disconnected
    BY <1>4, <2>7 DEF Disconnected, At, nvmVars
  <2> QED BY <1>7, <2>1, <2>2, <2>3, <2>4, <2>5, <2>6, <2>7 DEF Operation
<1> QED BY <1>6, <1>7

LEMMA EraseInvEnvironment ==
    ASSUME EraseInv, Environment
    PROVE  EraseInv'
<1>1. TypeOK'
  BY NextType DEF EraseInv, Next
<1>2. tgt \in Targets /\ 0 \in Nat /\ TRUE \in BOOLEAN
  BY DEF EraseInv, TypeOK, NvmTypeOK
<1>3. CASE PowerCycle /\ UNCHANGED <<workerVars, history>>
  <2>1. ~asked => Untouched(tgt')
    <3> SUFFICES ASSUME ~asked PROVE Untouched(tgt')
      OBVIOUS
    <3>1. Untouched(tgt) /\ tgt.busy = 0
      BY DEF EraseInv, Untouched
    <3>2. tgt' = PowerUp(tgt, {})
      BY <1>3, <3>1 DEF PowerCycle
    <3> QED BY <1>2, <3>1, <3>2, UntouchedKept
  <2> QED BY <1>1, <1>3, <2>1 DEF EraseInv, PowerCycle, workerVars, history
<1>4. ASSUME NEW o \in UserOps, Start(o) PROVE EraseInv'
  <2>1. Untouched(tgt) => Untouched(tgt')
    BY <1>2, <1>4, UntouchedKept DEF Start
  <2>2. asked => asked'
    BY <1>4 DEF Start
  <2>3. op' \in EraseOps => asked'
    BY <1>4 DEF Start
  <2>4. pc' = pc /\ wpc' = "transport"
    BY <1>4 DEF Start
  <2> QED BY <1>1, <2>1, <2>2, <2>3, <2>4 DEF EraseInv
<1>5. CASE Relaunch
  BY <1>1, <1>5 DEF EraseInv, Relaunch, history, EraseOps
<1>6. CASE SwapTarget
  <2>1. Untouched(tgt')
    BY <1>6 DEF SwapTarget, FreshTargets, Fresh, Untouched
  <2> QED BY <1>1, <1>6, <2>1 DEF EraseInv, SwapTarget, EraseOps, HarmlessPlaces
<1> QED BY <1>3, <1>4, <1>5, <1>6 DEF Environment

LEMMA EraseInvNext == EraseInv /\ [Next]_vars => EraseInv'
<1> SUFFICES ASSUME EraseInv, [Next]_vars PROVE EraseInv'
  OBVIOUS
<1>1. CASE UNCHANGED vars
  <2>1. TypeOK'
    BY <1>1, NextType DEF EraseInv
  <2> QED BY <1>1, <2>1 DEF EraseInv, vars, nvmVars, workerVars, history
<1> QED BY <1>1, EraseInvNvm, EraseInvWorker, EraseInvEnvironment DEF Next, WorkerStep

(***************************************************************************)
(* Whatever fails, and however often: the content of a target is erased or *)
(* written only after the user started an operation on it that may do so.  *)
(***************************************************************************)
THEOREM EraseNeedsRequest == Spec => []ErasedOnRequest
<1>1. EraseInv => ErasedOnRequest
  BY DEF EraseInv, ErasedOnRequest, Untouched, Filled
<1> QED BY EraseInvInit, EraseInvNext, <1>1, PTL DEF Spec

-----------------------------------------------------------------------------
(* What a session relies on and an operation reports *)

(***************************************************************************)
(* What the last four theorems state is not inductive.  SessionInv adds    *)
(* where the machine below the worker can be (CallInv), what a session has *)
(* reached on its way in (ConnectInv), and what has been erased, written   *)
(* and compared so far, and that nothing is under way in the target that a *)
(* loss of power could ruin (ContentInv).                                  *)
(***************************************************************************)

\* The places of ProgmodePlaces by function.
LeavePlaces == {"leave", "leave_release", "leave_disable"}
EnterPlaces == ProgmodePlaces \ LeavePlaces

\* The places of the NVM machine while the worker waits at w.
PlacesOf(w) ==
    {"ret"} \cup
    CASE w \in {"activate", "sib"}          -> ActivatePlaces
      [] w = "enter"                        -> EnterPlaces
      [] w = "signature"                    -> {"signature"}
      [] w = "unlock"                       -> UnlockPlaces
      [] w = "erase"                        -> EraseChipPlaces \cup {"nocmd"}
      [] w = "write_page"                   -> WritePagePlaces \cup {"nocmd"}
      [] w \in {"verify_page", "dump_page"} -> {"read"}
      [] w = "fuse"                         -> {"fuse"}
      [] w = "disconnect"                   -> LeavePlaces
      [] OTHER                              -> {}

\* The worker waits for the function it called, at a place of its operation.
CallInv ==
    /\ pc \in PlacesOf(wpc)
    /\ wpc \notin {"idle", "crashed"} => op \in Ops
    /\ wpc = "parse" => op \in {"Flash", "Verify"}
    /\ wpc = "erase" => op \in {"ChipErase", "Flash"}
    /\ wpc \in {"write", "write_page"} => op = "Flash"
    /\ wpc \in {"verify", "verify_page"} => op \in {"Flash", "Verify"}
    /\ wpc \in {"dump", "dump_page", "save"} => op = "Dump"
    /\ wpc \in {"fuses", "fuse"} => op = "ReadFuses"

ConnectPlaces == {"activate", "sib", "enter", "signature", "unlock"}
SessionPlaces ==
    {"body", "parse", "erase", "write", "write_page", "verify", "verify_page", "dump",
     "dump_page", "save", "fuses", "fuse"}

\* Once unlocked a target stays so; until it loses power it stays in programming
\* mode.
InSession == ~tgt.locked /\ (tgt.dis \/ (tgt.prog /\ tgt.boot = 0))

\* ConnectedMeansProgmode made inductive: how it comes about.
ConnectInv ==
    /\ tgt.prog => ~tgt.locked
    /\ connected \/ wpc \in {"connect"} \cup ConnectPlaces \cup SessionPlaces =>
          transport = "ready"
    /\ wpc = "crashed" => transport = "not_ready"
    /\ wpc \in ConnectPlaces => ~connected
    /\ wpc = "enter" /\ pc = "ret" /\ ret = "Ok" => InSession
    /\ wpc = "signature" => InSession
    /\ wpc = "signature" /\ pc = "ret" /\ ret = "Ok" => val = tgt.chip
    /\ wpc \in SessionPlaces => InSession /\ device = tgt.chip

\* Nothing is under way in NVMCTRL, so that no loss of power can ruin a page.
Calm == tgt.busy = 0
AllBlank == tgt.flash = Filled("blank")

\* The pages after n, still to be written, and those beyond the image, never.
BlankAfter(n) == \A p \in Pages : p > n \/ p > file.len => tgt.flash[p] = "blank"

BeforeWrite == {"write_page", "write_clear", "write_clear_wait", "write_fill", "write_cmd"}

\* The pages up to n hold the image; after a Flash those beyond its end do, too.
EqualUpTo(n) ==
    /\ \A p \in Pages : p <= n /\ p <= file.len => tgt.flash[p] = file.page[p]
    /\ op = "Flash" => \A p \in Pages : p > file.len => tgt.flash[p] = "blank"

\* While a chip is erased: the command was taken, or the wait will fail.
Erasing ==
    /\ pc = "chip_erase_wait" => AllBlank \/ tgt.wrerr \/ tgt.dis
    /\ pc \in {"nocmd", "ret"} /\ ret = "Ok" => AllBlank /\ Calm

\* While a page is written: the pages after it are not touched.
Writing ==
    /\ arg.page = cursor /\ cursor <= file.len
    /\ pc \in BeforeWrite => Calm /\ BlankAfter(cursor - 1)
    /\ pc = "write_wait" => tgt.dis \/ BlankAfter(cursor)
    /\ pc \in {"nocmd", "ret"} /\ ret = "Ok" => Calm /\ BlankAfter(cursor)

\* What has been erased, written and compared so far.
ContentInv ==
    /\ wpc \notin {"idle", "crashed", "erase", "write_page", "disconnect"} => Calm
    /\ wpc = "erase" => Erasing
    /\ wpc \in {"write", "write_page", "verify", "verify_page"} => file # BadFile
    /\ wpc = "erase" /\ op = "Flash" => file # BadFile
    /\ wpc = "write" => BlankAfter(cursor - 1)
    /\ wpc = "write_page" => Writing
    /\ wpc \in {"verify", "verify_page"} => EqualUpTo(cursor - 1)
    /\ wpc = "verify_page" =>
          /\ arg.page = cursor
          /\ pc = "ret" /\ ret = "Ok" => val = tgt.flash[cursor]
    /\ pc = "leave" /\ result = "Ok" =>
          /\ op \in {"Flash", "Verify"} => Calm /\ EqualUpTo(file.len)
          /\ op = "Flash" => file # BadFile
    /\ wpc \in {"disconnect", "idle"} /\ op = "ChipErase" /\ result = "Ok" =>
          AllBlank /\ Calm /\ ~tgt.locked

SessionInv == TypeOK /\ CallInv /\ PageInv /\ ConnectInv /\ ContentInv
-----------------------------------------------------------------------------
(* What the functions that set the target up and shut it down do to it      *)

\* Keys, resets and the time that passes: chip and lock stay, except that a
\* reset can erase and unlock.  A wire without a target stays silent, and a
\* target in reset is not in programming mode.
Controlled(t, u) ==
    /\ u.chip = t.chip
    /\ t.chip = "none" /\ t.dis => u.dis
    /\ (t.prog => ~t.rst) => (u.prog => ~u.rst)
    /\ t.busy = 0 => u.busy = 0
    /\ ~t.locked => ~u.locked
    /\ u.prog => ~u.locked
    /\ u.flash \in {t.flash, Filled("blank")}

LEMMA ControlEffects ==
    ASSUME NEW t \in Targets, t.prog => ~t.locked, NEW ms \in Nat,
           NEW k \in {"NVMProg", "NVMErase"}
    PROVE  /\ Controlled(t, t) /\ Controlled(t, Break(t)) /\ Controlled(t, DoubleBreak(t))
           /\ Controlled(t, SetRsd(t, FALSE)) /\ Controlled(t, Disable(t))
           /\ Controlled(t, TakeKey(t, k)) /\ Controlled(t, HoldReset(t))
           /\ Controlled(t, ReleaseReset(t, ms)) /\ Controlled(t, Elapse(t, ms))
<1>1. Controlled(t, t)
  BY DEF Controlled
<1>2. Controlled(t, Break(t)) /\ Controlled(t, DoubleBreak(t))
  BY DEF Controlled, Break, DoubleBreak, Targets
<1>3. Controlled(t, SetRsd(t, FALSE)) /\ Controlled(t, Disable(t))
  BY DEF Controlled, SetRsd, Disable, Targets
<1>4. Controlled(t, TakeKey(t, k)) /\ Controlled(t, HoldReset(t))
  BY DEF Controlled, TakeKey, HoldReset, Targets
<1>5. Controlled(t, ReleaseReset(t, ms))
  <2>1. CASE ~(Responds(t) /\ t.rst)
    BY <1>1, <2>1 DEF ReleaseReset
  <2>2. CASE Responds(t) /\ t.rst
    <3>1. /\ ReleaseReset(t, ms).chip = t.chip /\ ReleaseReset(t, ms).busy = t.busy
          /\ ReleaseReset(t, ms).dis = t.dis /\ ReleaseReset(t, ms).rst = FALSE
          /\ ReleaseReset(t, ms).locked = (t.locked /\ ~t.eraseKey)
          /\ ReleaseReset(t, ms).prog = (t.nvmKey /\ ~(t.locked /\ ~t.eraseKey))
          /\ ReleaseReset(t, ms).flash = IF t.eraseKey THEN Filled("blank") ELSE t.flash
      BY <2>2 DEF ReleaseReset, Targets
    <3> QED BY <3>1 DEF Controlled
  <2> QED BY <2>1, <2>2
<1>6. Controlled(t, Elapse(t, ms))
  BY DEF Controlled, Elapse, Less, Targets
<1> QED BY <1>1, <1>2, <1>3, <1>4, <1>5, <1>6

\* A frame without an answer has its effect or none; an answered poll has none.
LEMMA SendStep ==
    ASSUME NEW u, NEW here, NEW there,
           \/ Try(here, Send(tgt, u), there) \/ Ignore(here, Send(tgt, u), there)
    PROVE  tgt' \in {tgt, u}
BY DEF Try, Ignore, Take, Send, Out

LEMMA LdcsStep == ASSUME NEW o \in Ldcs(tgt), Take(o) PROVE tgt' = tgt
BY DEF Ldcs, Load, Out, Take

LEMMA WaitUnlockedStep ==
    ASSUME NEW here, NEW timeout, NEW there, NEW failure,
           WaitUnlocked(here, timeout, there, failure)
    PROVE  \E ms \in Nat : tgt' = Elapse(tgt, ms)
<1>1. PICK o \in Ldcs(tgt) : Take([o EXCEPT !.tgt = Elapse(@, CostOf(o.st))])
  BY DEF WaitUnlocked
<1>2. [o EXCEPT !.tgt = Elapse(@, CostOf(o.st))].tgt = Elapse(tgt, CostOf(o.st))
  BY DEF Ldcs, Load, Out
<1> QED BY <1>1, <1>2, CostType DEF Take

\* A reset that is released takes some time.
LEMMA ReleaseStep ==
    ASSUME NvmTypeOK, NEW here, NEW there,
           \E ms \in IF tgt.eraseKey THEN UnlockTimes ELSE BootTimes :
              Ignore(here, Stcs(tgt, ReleaseReset(tgt, ms)), there)
    PROVE  tgt' = tgt \/ \E ms \in Nat : tgt' = ReleaseReset(tgt, ms)
<1>1. PICK ms \in Nat : Ignore(here, Stcs(tgt, ReleaseReset(tgt, ms)), there)
  BY NvmAssumption
<1> QED BY <1>1, SendStep DEF Stcs

\* What a call of these functions can leave behind, the key for a chip erase aside;
\* and what it can when it comes from place p.
Instructions(t) ==
    {t, Break(t), DoubleBreak(t), SetRsd(t, FALSE), Disable(t), TakeKey(t, "NVMProg"),
     HoldReset(t)}
    \cup {ReleaseReset(t, ms) : ms \in Nat} \cup {Elapse(t, ms) : ms \in Nat}

ReleasePlaces == {"release", "leave_release", "erase_release"}
InstructionsAt(p, t) ==
    {t, Break(t), DoubleBreak(t), SetRsd(t, FALSE), HoldReset(t)}
    \cup {Elapse(t, ms) : ms \in Nat}
    \cup {u \in {Disable(t)} : p = "leave_disable"}
    \cup {u \in {TakeKey(t, "NVMProg")} : p = "nvm_key"}
    \cup {u \in {ReleaseReset(t, ms) : ms \in Nat} : p \in ReleasePlaces}

LEMMA InstructionsFrom == ASSUME NEW p, NEW t PROVE InstructionsAt(p, t) \subseteq Instructions(t)
BY DEF Instructions, InstructionsAt

LEMMA ControlResult ==
    ASSUME NvmTypeOK, Activate \/ EnterProgmode \/ LeaveProgmode \/ Unlock
    PROVE  \/ tgt' \in InstructionsAt(pc, tgt)
           \/ pc = "unlock" /\ tgt' = TakeKey(tgt, "NVMErase")
<1>1. /\ {tgt, Break(tgt), DoubleBreak(tgt), SetRsd(tgt, FALSE), HoldReset(tgt)}
            \subseteq InstructionsAt(pc, tgt)
      /\ \A ms \in Nat : Elapse(tgt, ms) \in InstructionsAt(pc, tgt)
      /\ pc = "leave_disable" => Disable(tgt) \in InstructionsAt(pc, tgt)
      /\ pc = "nvm_key" => TakeKey(tgt, "NVMProg") \in InstructionsAt(pc, tgt)
      /\ pc \in ReleasePlaces => \A ms \in Nat : ReleaseReset(tgt, ms) \in InstructionsAt(pc, tgt)
  BY DEF InstructionsAt
<1>2. CASE Activate
  <2>1. CASE InitialBreak
    BY <1>1, <2>1, SendStep DEF InitialBreak
  <2>2. ASSUME NEW here, NEW ctrla, NEW check, InitCtrlB(here, ctrla, check)
        PROVE  tgt' \in InstructionsAt(pc, tgt)
    BY <1>1, <2>2 DEF InitCtrlB, Stcs, Send, Out, Take
  <2>3. ASSUME NEW here, NEW check, InitCtrlA(here, check)
        PROVE  tgt' \in InstructionsAt(pc, tgt)
    <3> DEFINE u == SetRsd(tgt, FALSE)
    <3>1. Ignore(here, Send(tgt, u), check)
      BY <2>3 DEF InitCtrlA, Stcs
    <3>2. tgt \in InstructionsAt(pc, tgt) /\ u \in InstructionsAt(pc, tgt)
      BY <1>1
    <3> HIDE DEF u
    <3> QED BY <3>1, <3>2, SendStep
  <2>4. CASE CheckDatalink \/ CheckDatalinkAgain
    BY <1>1, <2>4, LdcsStep DEF CheckDatalink, CheckDatalinkAgain
  <2>5. CASE SendDoubleBreak
    BY <1>1, <2>5 DEF SendDoubleBreak, Ignore, Take, Out
  <2>6. CASE ReadSibInfo
    BY <1>1, <2>6 DEF ReadSibInfo, Try, Take, ReadSib, Load, Out
  <2> QED BY <1>2, <2>1, <2>2, <2>3, <2>4, <2>5, <2>6 DEF Activate
<1>3. CASE EnterProgmode
  <2>1. CASE AlreadyInProgmode \/ ConfirmProgmode
    BY <1>1, <2>1, LdcsStep DEF AlreadyInProgmode, ConfirmProgmode
  <2>2. CASE Try("hold", Stcs(tgt, HoldReset(tgt)), "nvm_key")
    BY <1>1, <2>2, SendStep DEF Stcs
  <2>3. CASE Try("nvm_key", Key(tgt, "NVMProg"), "nvm_key_status")
    <3>1. pc = "nvm_key"
      BY <2>3 DEF Try
    <3> QED BY <1>1, <2>3, <3>1, SendStep DEF Key
  <2>4. CASE TryBit("nvm_key_status", tgt.nvmKey, "apply")
    BY <1>1, <2>4, LdcsStep DEF TryBit
  <2>5. CASE Ignore("apply", Stcs(tgt, HoldReset(tgt)), "release")
    BY <1>1, <2>5, SendStep DEF Stcs
  <2>6. CASE \E ms \in IF tgt.eraseKey THEN UnlockTimes ELSE BootTimes :
               Ignore("release", Stcs(tgt, ReleaseReset(tgt, ms)), "wait_unlocked")
    <3>1. pc \in ReleasePlaces
      BY <2>6 DEF Ignore, ReleasePlaces
    <3> QED BY <1>1, <2>6, <3>1, ReleaseStep
  <2>7. CASE WaitUnlocked("wait_unlocked", 100, "confirm", "ErrLocked")
    BY <1>1, <2>7, WaitUnlockedStep
  <2> QED BY <1>3, <2>1, <2>2, <2>3, <2>4, <2>5, <2>6, <2>7 DEF EnterProgmode
<1>4. CASE LeaveProgmode
  <2>1. CASE Ignore("leave", Stcs(tgt, HoldReset(tgt)), "leave_release")
    BY <1>1, <2>1, SendStep DEF Stcs
  <2>2. CASE \E ms \in IF tgt.eraseKey THEN UnlockTimes ELSE BootTimes :
               Ignore("leave_release", Stcs(tgt, ReleaseReset(tgt, ms)), "leave_disable")
    <3>1. pc \in ReleasePlaces
      BY <2>2 DEF Ignore, ReleasePlaces
    <3> QED BY <1>1, <2>2, <3>1, ReleaseStep
  <2>3. CASE Try("leave_disable", Stcs(tgt, Disable(tgt)), "ret")
    <3>1. pc = "leave_disable"
      BY <2>3 DEF Try
    <3> QED BY <1>1, <2>3, <3>1, SendStep DEF Stcs
  <2> QED BY <1>4, <2>1, <2>2, <2>3 DEF LeaveProgmode
<1>5. CASE Unlock
  <2>1. CASE Try("unlock", Key(tgt, "NVMErase"), "erase_key_status")
    <3>1. pc = "unlock" /\ tgt' \in {tgt, TakeKey(tgt, "NVMErase")}
      BY <2>1, SendStep DEF Key, Try
    <3> QED BY <1>1, <3>1
  <2>2. CASE TryBit("erase_key_status", tgt.eraseKey, "erase_apply")
    BY <1>1, <2>2, LdcsStep DEF TryBit
  <2>3. CASE Ignore("erase_apply", Stcs(tgt, HoldReset(tgt)), "erase_release")
    BY <1>1, <2>3, SendStep DEF Stcs
  <2>4. CASE \E ms \in IF tgt.eraseKey THEN UnlockTimes ELSE BootTimes :
               Ignore("erase_release", Stcs(tgt, ReleaseReset(tgt, ms)), "erase_wait")
    <3>1. pc \in ReleasePlaces
      BY <2>4 DEF Ignore, ReleasePlaces
    <3> QED BY <1>1, <2>4, <3>1, ReleaseStep
  <2>5. CASE WaitUnlocked("erase_wait", 500, "ret", "ErrNvm")
    BY <1>1, <2>5, WaitUnlockedStep
  <2> QED BY <1>5, <2>1, <2>2, <2>3, <2>4, <2>5 DEF Unlock
<1> QED BY <1>2, <1>3, <1>4, <1>5

LEMMA ControlStep ==
    ASSUME NvmTypeOK, tgt.prog => ~tgt.locked,
           Activate \/ EnterProgmode \/ LeaveProgmode \/ Unlock
    PROVE  Controlled(tgt, tgt')
<1>1. tgt \in Targets /\ 0 \in Nat /\ "NVMProg" \in {"NVMProg", "NVMErase"}
      /\ "NVMErase" \in {"NVMProg", "NVMErase"}
  BY DEF NvmTypeOK
<1>2. /\ Controlled(tgt, tgt) /\ Controlled(tgt, Break(tgt)) /\ Controlled(tgt, DoubleBreak(tgt))
      /\ Controlled(tgt, SetRsd(tgt, FALSE)) /\ Controlled(tgt, Disable(tgt))
      /\ Controlled(tgt, TakeKey(tgt, "NVMProg")) /\ Controlled(tgt, TakeKey(tgt, "NVMErase"))
      /\ Controlled(tgt, HoldReset(tgt))
      /\ \A ms \in Nat : Controlled(tgt, ReleaseReset(tgt, ms)) /\ Controlled(tgt, Elapse(tgt, ms))
  BY <1>1, ControlEffects
<1>3. tgt' \in Instructions(tgt) \/ tgt' = TakeKey(tgt, "NVMErase")
  BY ControlResult, InstructionsFrom
<1> QED BY <1>2, <1>3 DEF Instructions

\* Programming mode has been entered when the target said so.
LEMMA EnterOk ==
    ASSUME EnterProgmode, pc' = "ret", ret' = "Ok"
    PROVE  tgt' = tgt /\ tgt.prog /\ tgt.boot = 0
<1>1. CASE AlreadyInProgmode
  BY <1>1, LdcsStep DEF AlreadyInProgmode, NvmProgStatus
<1>2. CASE ConfirmProgmode
  BY <1>2, LdcsStep DEF ConfirmProgmode, NvmProgStatus
<1>3. ~Try("hold", Stcs(tgt, HoldReset(tgt)), "nvm_key")
      /\ ~Try("nvm_key", Key(tgt, "NVMProg"), "nvm_key_status")
  BY TryFailed
<1>4. ~TryBit("nvm_key_status", tgt.nvmKey, "apply")
  BY DEF TryBit
<1>5. /\ ~Ignore("apply", Stcs(tgt, HoldReset(tgt)), "release")
      /\ ~\E ms \in IF tgt.eraseKey THEN UnlockTimes ELSE BootTimes :
            Ignore("release", Stcs(tgt, ReleaseReset(tgt, ms)), "wait_unlocked")
  BY DEF Ignore
<1>6. ~WaitUnlocked("wait_unlocked", 100, "confirm", "ErrLocked")
  BY DEF WaitUnlocked
<1> QED BY <1>1, <1>2, <1>3, <1>4, <1>5, <1>6 DEF EnterProgmode
-----------------------------------------------------------------------------
(* Who calls what                                                          *)

LEMMA ProgmodeFlow ==
    /\ EnterProgmode => pc \in EnterPlaces /\ pc' \in EnterPlaces \cup {"ret"}
    /\ LeaveProgmode => pc \in LeavePlaces /\ pc' \in LeavePlaces \cup {"ret"}
<1>1. EnterPlaces = {"enter", "hold", "nvm_key", "nvm_key_status", "apply", "release",
                     "wait_unlocked", "confirm"}
  BY DEF EnterPlaces, LeavePlaces, ProgmodePlaces
<1>2. EnterProgmode => pc \in EnterPlaces /\ pc' \in EnterPlaces \cup {"ret"}
  BY <1>1 DEF EnterProgmode, AlreadyInProgmode, ConfirmProgmode, Try, TryBit, Ignore, WaitUnlocked
<1>3. LeaveProgmode => pc \in LeavePlaces /\ pc' \in LeavePlaces \cup {"ret"}
  BY DEF LeaveProgmode, Try, Ignore, LeavePlaces
<1> QED BY <1>2, <1>3

\* At a place of a function its callers wait.
LEMMA Callers ==
    ASSUME NEW w, NEW p \in PlacesOf(w)
    PROVE  /\ p \in ActivatePlaces => w \in {"activate", "sib"}
           /\ p \in EnterPlaces => w = "enter"
           /\ p \in LeavePlaces => w = "disconnect"
           /\ p \in UnlockPlaces => w = "unlock"
           /\ p = "signature" => w = "signature"
           /\ p = "read" => w \in {"verify_page", "dump_page"}
           /\ p = "fuse" => w = "fuse"
           /\ p \in EraseChipPlaces => w = "erase"
           /\ p \in WritePagePlaces => w = "write_page"
           /\ p = "nocmd" => w \in {"erase", "write_page"}
           /\ p \notin ErasePagePlaces \cup FusePlaces
<1>1. EnterPlaces = {"enter", "hold", "nvm_key", "nvm_key_status", "apply", "release",
                     "wait_unlocked", "confirm"}
  BY DEF EnterPlaces, LeavePlaces, ProgmodePlaces
<1> QED BY <1>1 DEF PlacesOf, ActivatePlaces, LeavePlaces, UnlockPlaces, EraseChipPlaces,
            WritePagePlaces, ErasePagePlaces, FusePlaces

\* The steps a function takes are those of the function the worker waits for.
CalledStep ==
    \/ Activate /\ wpc \in {"activate", "sib"}
    \/ EnterProgmode /\ wpc = "enter"
    \/ LeaveProgmode /\ wpc = "disconnect"
    \/ Unlock /\ wpc = "unlock"
    \/ Reads /\ pc = "signature" /\ wpc = "signature"
    \/ Reads /\ pc = "read" /\ wpc \in {"verify_page", "dump_page"}
    \/ Reads /\ pc = "fuse" /\ wpc = "fuse"
    \/ EraseChip /\ wpc = "erase"
    \/ WriteFlashPage /\ wpc = "write_page"
    \/ ClearCommand /\ wpc \in {"erase", "write_page"}

LEMMA CallStep ==
    ASSUME CallInv, NvmStep
    PROVE  CalledStep /\ pc' \in PlacesOf(wpc)
<1>1. pc \in PlacesOf(wpc)
  BY DEF CallInv
<1>2. CASE Activate
  <2>1. wpc \in {"activate", "sib"}
    BY <1>1, <1>2, Callers, ControlFlow
  <2> QED BY <1>2, <2>1, ControlFlow DEF CalledStep, PlacesOf
<1>3. CASE EnterProgmode
  <2>1. wpc = "enter"
    BY <1>1, <1>3, Callers, ProgmodeFlow
  <2> QED BY <1>3, <2>1, ProgmodeFlow DEF CalledStep, PlacesOf
<1>4. CASE LeaveProgmode
  <2>1. wpc = "disconnect"
    BY <1>1, <1>4, Callers, ProgmodeFlow
  <2> QED BY <1>4, <2>1, ProgmodeFlow DEF CalledStep, PlacesOf
<1>5. CASE Unlock
  <2>1. wpc = "unlock"
    BY <1>1, <1>5, Callers, ControlFlow
  <2> QED BY <1>5, <2>1, ControlFlow DEF CalledStep, PlacesOf
<1>6. CASE Reads
  <2>1. pc \in {"signature", "read", "fuse"} /\ pc' = "ret"
    BY <1>6, ControlFlow DEF ReadPlaces
  <2> QED BY <1>1, <1>6, <2>1, Callers DEF CalledStep, PlacesOf
<1>7. CASE EraseChip
  <2>1. wpc = "erase"
    BY <1>1, <1>7, Callers, ControlFlow
  <2> QED BY <1>7, <2>1, ControlFlow DEF CalledStep, PlacesOf
<1>8. CASE WriteFlashPage
  <2>1. wpc = "write_page"
    BY <1>1, <1>8, Callers, ControlFlow
  <2> QED BY <1>8, <2>1, ControlFlow DEF CalledStep, PlacesOf
<1>9. CASE ClearCommand
  <2>1. wpc \in {"erase", "write_page"} /\ pc' = "ret"
    BY <1>1, <1>9, Callers, ControlFlow
  <2> QED BY <1>9, <2>1 DEF CalledStep, PlacesOf
<1>10. ~EraseFlashPage /\ ~WriteFuseP3 /\ ~WriteFuseP0
  BY <1>1, Callers, ControlFlow
<1> QED BY <1>2, <1>3, <1>4, <1>5, <1>6, <1>7, <1>8, <1>9, <1>10 DEF NvmStep
-----------------------------------------------------------------------------
(* What reads, erases and writes do to the target                          *)

\* A read changes nothing, and says what the target holds.
LEMMA ReadStep ==
    ASSUME Reads
    PROVE  /\ tgt' = tgt /\ pc' = "ret"
           /\ ret' = "Ok" /\ pc = "signature" => val' = tgt.chip
           /\ ret' = "Ok" /\ pc = "read" => val' = tgt.flash[arg.page]
<1>1. CASE Read("signature", ReadData(tgt), tgt.chip)
  BY <1>1 DEF Read, ReadData, Out, Take
<1>2. CASE Read("read", ReadData(tgt), tgt.flash[arg.page])
  BY <1>2 DEF Read, ReadData, Out, Take
<1>3. CASE Read("fuse", LdByte(tgt), tgt.fuse)
  BY <1>3 DEF Read, LdByte, Load, Out, Take
<1> QED BY <1>1, <1>2, <1>3 DEF Reads

\* The target stays unlocked and in programming mode while it is written.
Kept(t, u) ==
    /\ u.chip = t.chip /\ u.locked = t.locked /\ u.prog = t.prog /\ u.dis = t.dis
    /\ u.rst = t.rst /\ u.eraseKey = t.eraseKey /\ u.nvmKey = t.nvmKey
    /\ t.boot = 0 => u.boot = 0

LEMMA MemoryEffects ==
    ASSUME NEW t \in Targets, NEW ms \in Nat, NEW p \in Pages, NEW c, NEW b \in BOOLEAN
    PROVE  /\ Kept(t, t) /\ Kept(t, Elapse(t, ms)) /\ Kept(t, ChipErase(t, ms))
           /\ Kept(t, ClearBuffer(t)) /\ Kept(t, LoadBuffer(t, p, c))
           /\ Kept(t, SetRsd(t, b)) /\ Kept(t, SetRsd(LoadBuffer(t, p, c), b))
           /\ Kept(t, WritePage(t, ms)) /\ Kept(t, Refuse(t))
<1>1. Kept(t, t) /\ Kept(t, Elapse(t, ms))
  BY DEF Kept, Elapse, Less, Targets
<1>2. Kept(t, ChipErase(t, ms)) /\ Kept(t, ClearBuffer(t)) /\ Kept(t, Refuse(t))
  BY DEF Kept, ChipErase, ClearBuffer, Refuse, Targets
<1>3. Kept(t, LoadBuffer(t, p, c))
  BY DEF Kept, LoadBuffer, Targets
<1>4. Kept(t, SetRsd(t, b)) /\ Kept(t, SetRsd(LoadBuffer(t, p, c), b))
  BY DEF Kept, LoadBuffer, SetRsd, Targets
<1>5. Kept(t, WritePage(t, ms))
  BY DEF Kept, WritePage, Targets
<1> QED BY <1>1, <1>2, <1>3, <1>4, <1>5

\* A wait takes time.
LEMMA WaitReadyStep ==
    ASSUME NEW here, NEW timeout, NEW onOk, NEW onError, WaitReady(here, timeout, onOk, onError)
    PROVE  \E ms \in Nat : tgt' = Elapse(tgt, ms)
<1>1. PICK o \in LdByte(tgt) : Take([o EXCEPT !.tgt = Elapse(@, CostOf(o.st))])
  BY DEF WaitReady
<1>2. [o EXCEPT !.tgt = Elapse(@, CostOf(o.st))].tgt = Elapse(tgt, CostOf(o.st))
  BY DEF LdByte, Load, Out
<1> QED BY <1>1, <1>2, CostType DEF Take

LEMMA ElapseKeeps ==
    ASSUME NEW t \in Targets, NEW ms \in Nat
    PROVE  /\ Elapse(t, ms).flash = t.flash /\ Elapse(t, ms).dis = t.dis
           /\ Elapse(t, ms).wrerr = t.wrerr
           /\ t.busy = 0 => Elapse(t, ms).busy = 0
BY DEF Elapse, Less, Targets

\* A command has its effect or none, or it is refused; outside programming mode
\* it has none.
LEMMA CommandStep ==
    ASSUME NEW here, NEW u, NEW there, Command(here, u, there)
    PROVE  /\ pc = here /\ tgt' \in {tgt, u, Refuse(tgt)}
           /\ tgt' # tgt => tgt.prog
           /\ there # "ret" /\ pc' = "ret" => ret' # "Ok"
           /\ pc' # "ret" => pc' = there
<1> DEFINE outs == StByte(tgt, u) \cup {[o EXCEPT !.fault = 1] : o \in StByte(tgt, Refuse(tgt))}
<1>1. Try(here, outs, there)
  BY DEF Command
<1>2. PICK o \in outs : tgt' = o.tgt
  BY <1>1 DEF Try, Take
<1>3. o \in StByte(tgt, u) => o.tgt \in {tgt, u}
  BY DEF StByte, Out
<1>4. ASSUME NEW r \in StByte(tgt, Refuse(tgt)), o = [r EXCEPT !.fault = 1]
      PROVE  o.tgt \in {tgt, Refuse(tgt)}
  BY <1>4 DEF StByte, Out
<1>5. tgt' \in {tgt, u, Refuse(tgt)}
  BY <1>2, <1>3, <1>4
<1>6. tgt' # tgt => tgt.prog
  <2>1. ASSUME NEW v, NEW r \in StByte(tgt, v), r.tgt # tgt
        PROVE  tgt.prog
    BY <2>1 DEF StByte, Out, Acknowledges, Accessible, NvmProgStatus
  <2>2. o \in StByte(tgt, u) \/ \E r \in StByte(tgt, Refuse(tgt)) : o.tgt = r.tgt
    BY DEF StByte, Out
  <2> QED BY <1>2, <2>1, <2>2
<1> QED BY <1>1, <1>5, <1>6 DEF Try

LEMMA ClearCommandStep ==
    ASSUME ClearCommand
    PROVE  pc = "nocmd" /\ pc' = "ret" /\ tgt' = tgt /\ ret' = ret
BY DEF ClearCommand, Ignore, StByte, Out, Take
LEMMA EraseChipStep ==
    ASSUME NvmTypeOK, Erasing, EraseChip \/ ClearCommand
    PROVE  Kept(tgt, tgt') /\ Erasing'
<1>1. tgt \in Targets /\ 1 \in Pages
  BY Entries DEF NvmTypeOK
<1>2. ASSUME NEW ms \in Nat
      PROVE  Kept(tgt, Elapse(tgt, ms)) /\ Kept(tgt, ChipErase(tgt, ms))
             /\ Kept(tgt, Refuse(tgt)) /\ Kept(tgt, tgt)
  BY <1>1, MemoryEffects, TRUE \in BOOLEAN
<1>3. CASE WaitReady("chip_erase", 100, "chip_erase_cmd", "ret")
  <2>1. Kept(tgt, tgt')
    BY <1>2, <1>3, WaitReadyStep
  <2>2. /\ pc' \in {"chip_erase", "chip_erase_cmd", "ret"}
        /\ pc' = "ret" => ret' # "Ok"
    BY <1>3 DEF WaitReady
  <2> QED BY <2>1, <2>2 DEF Erasing
<1>4. CASE \E ms \in EraseTimes :
             Command("chip_erase_cmd", ChipErase(tgt, ms), "chip_erase_wait")
  <2>1. PICK ms \in Nat : Command("chip_erase_cmd", ChipErase(tgt, ms), "chip_erase_wait")
    BY <1>4, NvmAssumption
  <2>2. Kept(tgt, tgt')
    BY <1>2, <2>1, CommandStep
  <2>3. /\ pc' \in {"chip_erase_wait", "ret"}
        /\ pc' = "ret" => ret' # "Ok"
    BY <2>1, CommandStep
  <2>4. pc' = "chip_erase_wait" => AllBlank' \/ tgt'.wrerr
    <3>1. pc' = "chip_erase_wait" => tgt' \in {ChipErase(tgt, ms), Refuse(tgt)}
      BY <2>1, CommandOk
    <3>2. ChipErase(tgt, ms).flash = Filled("blank") /\ Refuse(tgt).wrerr
      BY <1>1 DEF ChipErase, Refuse, Targets
    <3> QED BY <3>1, <3>2 DEF AllBlank
  <2> QED BY <2>2, <2>3, <2>4 DEF Erasing
<1>5. CASE WaitReady("chip_erase_wait", 500, Finish, Finish)
  <2>1. PICK ms \in Nat : tgt' = Elapse(tgt, ms)
    BY <1>5, WaitReadyStep
  <2>2. /\ pc = "chip_erase_wait" /\ Finish \in {"nocmd", "ret"}
        /\ pc' \in {"chip_erase_wait", "nocmd", "ret"}
    BY <1>5 DEF WaitReady, Finish
  <2>3. AllBlank \/ tgt.wrerr \/ tgt.dis
    BY <2>2 DEF Erasing
  <2>4. /\ tgt'.flash = tgt.flash /\ tgt'.dis = tgt.dis /\ tgt'.wrerr = tgt.wrerr
        /\ tgt.busy = 0 => tgt'.busy = 0
    BY <1>1, <2>1, ElapseKeeps
  <2>5. ASSUME pc' \in {"nocmd", "ret"}, ret' = "Ok" PROVE AllBlank' /\ Calm'
    <3>1. Accessible(tgt) /\ ~tgt.wrerr /\ tgt.busy = 0
      BY <1>5, <2>5, WaitReadyOk
    <3> QED BY <2>3, <2>4, <3>1 DEF AllBlank, Calm, Accessible, Responds
  <2>6. pc' = "chip_erase_wait" => AllBlank' \/ tgt'.wrerr \/ tgt'.dis
    BY <2>3, <2>4 DEF AllBlank
  <2> QED BY <1>2, <2>1, <2>2, <2>5, <2>6 DEF Erasing
<1>6. CASE ClearCommand
  BY <1>2, <1>6, 0 \in Nat, ClearCommandStep DEF Erasing, AllBlank, Calm
<1> QED BY <1>3, <1>4, <1>5, <1>6 DEF EraseChip

LEMMA WritePageStep ==
    ASSUME TypeOK, PageInv, Writing, WriteFlashPage \/ ClearCommand, UNCHANGED <<arg, cursor, file>>
    PROVE  Kept(tgt, tgt') /\ Writing'
<1>1. tgt \in Targets /\ arg.page \in Pages /\ NvmTypeOK /\ cursor \in Nat \ {0}
      /\ file.len \in Nat
  BY NPagesAssumption DEF TypeOK, NvmTypeOK, Images, BadFile
<1>2. ASSUME NEW ms \in Nat
      PROVE  /\ Kept(tgt, Elapse(tgt, ms)) /\ Kept(tgt, WritePage(tgt, ms))
             /\ Kept(tgt, Refuse(tgt)) /\ Kept(tgt, ClearBuffer(tgt)) /\ Kept(tgt, tgt)
  BY <1>1, MemoryEffects, TRUE \in BOOLEAN
<1>3. arg'.page = cursor' /\ cursor' <= file'.len
  BY DEF Writing
<1>4. ASSUME NEW here \in BeforeWrite, NEW there \in BeforeWrite,
             WaitReady(here, 100, there, "ret")
      PROVE  Kept(tgt, tgt') /\ Writing'
  <2>1. PICK ms \in Nat : tgt' = Elapse(tgt, ms)
    BY <1>4, WaitReadyStep
  <2>2. pc = here /\ pc' \in {here, there, "ret"} /\ (pc' = "ret" => ret' # "Ok")
    BY <1>4 DEF WaitReady, BeforeWrite
  <2>3. Calm /\ BlankAfter(cursor - 1)
    BY <1>4, <2>2 DEF Writing
  <2>4. Calm' /\ BlankAfter(cursor - 1)'
    BY <1>1, <2>1, <2>3, ElapseKeeps DEF Calm, BlankAfter
  <2> QED BY <1>2, <1>3, <1>4, <2>1, <2>2, <2>4 DEF Writing, BeforeWrite
<1>5. CASE Command("write_clear", ClearBuffer(tgt), "write_clear_wait")
  <2>1. pc = "write_clear" /\ pc' \in {"write_clear_wait", "ret"}
        /\ (pc' = "ret" => ret' # "Ok") /\ tgt' \in {tgt, ClearBuffer(tgt), Refuse(tgt)}
    BY <1>5, CommandStep
  <2>2. Calm /\ BlankAfter(cursor - 1)
    BY <2>1 DEF Writing, BeforeWrite
  <2>3. tgt'.busy = tgt.busy /\ tgt'.flash = tgt.flash
    BY <1>1, <2>1 DEF ClearBuffer, Refuse, Targets
  <2>4. Calm' /\ BlankAfter(cursor - 1)'
    BY <2>2, <2>3 DEF Calm, BlankAfter
  <2> QED BY <1>2, <1>3, 0 \in Nat, <2>1, <2>4 DEF Writing, BeforeWrite
<1>6. CASE Try("write_fill", WriteDataWords(tgt, arg.page, arg.data), "write_cmd")
  <2>1. PICK o \in WriteDataWords(tgt, arg.page, arg.data) : tgt' = o.tgt
    BY <1>6 DEF Try, Take
  <2>2. pc = "write_fill" /\ pc' \in {"write_cmd", "ret"} /\ (pc' = "ret" => ret' # "Ok")
    BY <1>6 DEF Try
  <2>3. Calm /\ BlankAfter(cursor - 1)
    BY <2>2 DEF Writing, BeforeWrite
  <2>4. tgt'.busy = tgt.busy /\ tgt'.flash = tgt.flash
    BY <1>1, <2>1, BlockKeepsFlash
  <2>5. Calm' /\ BlankAfter(cursor - 1)'
    BY <2>3, <2>4 DEF Calm, BlankAfter
  <2>6. Kept(tgt, tgt')
    <3>1. ASSUME NEW b \in BOOLEAN, NEW d
          PROVE  /\ Kept(tgt, tgt) /\ Kept(tgt, SetRsd(tgt, b))
                 /\ Kept(tgt, LoadBuffer(tgt, arg.page, d))
                 /\ Kept(tgt, SetRsd(LoadBuffer(tgt, arg.page, d), b))
      BY <1>1, MemoryEffects, 0 \in Nat
    <3>2. \/ o.tgt = tgt \/ o.tgt = LoadBuffer(tgt, arg.page, arg.data)
          \/ \E b \in BOOLEAN : o.tgt = SetRsd(tgt, b)
          \/ \E b \in BOOLEAN, d \in {arg.data, "torn"} :
                o.tgt = SetRsd(LoadBuffer(tgt, arg.page, d), b)
      BY DEF WriteDataWords, Out
    <3> QED BY <2>1, <3>1, <3>2, TRUE \in BOOLEAN
  <2> QED BY <1>3, <2>2, <2>5, <2>6 DEF Writing, BeforeWrite
<1>7. CASE \E ms \in WriteTimes :
             Command("write_cmd", WritePage(tgt, ms), "write_wait")
  <2>1. PICK ms \in Nat : Command("write_cmd", WritePage(tgt, ms), "write_wait")
    BY <1>7, NvmAssumption
  <2>2. pc = "write_cmd" /\ pc' \in {"write_wait", "ret"}
        /\ (pc' = "ret" => ret' # "Ok")
        /\ tgt' \in {tgt, WritePage(tgt, ms), Refuse(tgt)} /\ (tgt' # tgt => tgt.prog)
    BY <2>1, CommandStep
  <2>3. /\ BlankAfter(cursor - 1) /\ arg.page = cursor /\ cursor <= file.len
        /\ tgt.prog => tgt.page = arg.page \/ tgt.buf = "blank"
    BY <2>2 DEF Writing, BeforeWrite, PageInv
  <2>4. BlankAfter(cursor)'
    <3> SUFFICES ASSUME NEW q \in Pages, q > cursor \/ q > file.len
                 PROVE  tgt'.flash[q] = "blank"
      BY DEF BlankAfter
    <3>1. q # arg.page /\ q > cursor - 1
      BY <1>1, <2>3 DEF Pages
    <3>2. tgt.flash[q] = "blank"
      BY <2>3, <3>1 DEF BlankAfter
    <3>3. Refuse(tgt).flash = tgt.flash
      BY <1>1 DEF Refuse, Targets
    <3>4. tgt.prog => WritePage(tgt, ms).flash[q] = tgt.flash[q]
      BY <1>1, <2>3, <3>1, PageCommandOthers
    <3> QED BY <2>2, <3>2, <3>3, <3>4
  <2> QED BY <1>2, <1>3, <2>2, <2>4 DEF Writing, BeforeWrite
<1>8. CASE WaitReady("write_wait", 100, Finish, Finish)
  <2>1. PICK ms \in Nat : tgt' = Elapse(tgt, ms)
    BY <1>8, WaitReadyStep
  <2>2. pc = "write_wait" /\ Finish \in {"nocmd", "ret"} /\ pc' \in {"write_wait", "nocmd", "ret"}
    BY <1>8 DEF WaitReady, Finish
  <2>3. tgt.dis \/ BlankAfter(cursor)
    BY <2>2 DEF Writing
  <2>4. /\ tgt'.flash = tgt.flash /\ tgt'.dis = tgt.dis
        /\ tgt.busy = 0 => tgt'.busy = 0
    BY <1>1, <2>1, ElapseKeeps
  <2>5. ASSUME pc' \in {"nocmd", "ret"}, ret' = "Ok" PROVE Calm' /\ BlankAfter(cursor)'
    <3>1. Accessible(tgt) /\ tgt.busy = 0
      BY <1>1, <1>8, <2>2, <2>5, WaitReadyOk
    <3> QED BY <2>3, <2>4, <3>1 DEF BlankAfter, Calm, Accessible, Responds
  <2>6. pc' = "write_wait" => tgt'.dis \/ BlankAfter(cursor)'
    BY <2>3, <2>4 DEF BlankAfter
  <2> QED BY <1>2, <1>3, <2>1, <2>2, <2>5, <2>6 DEF Writing, BeforeWrite
<1>9. CASE ClearCommand
  BY <1>2, <1>3, <1>9, 0 \in Nat, ClearCommandStep DEF Writing, BlankAfter, Calm, BeforeWrite
<1>10. {"write_page", "write_clear", "write_clear_wait", "write_fill"} \subseteq BeforeWrite
  BY DEF BeforeWrite
<1> QED BY <1>4, <1>5, <1>6, <1>7, <1>8, <1>9, <1>10 DEF WriteFlashPage
-----------------------------------------------------------------------------
(* A step of a function keeps the invariant                                *)

LEMMA ConnectInvNvm ==
    ASSUME SessionInv, NvmStep, UNCHANGED <<workerVars, history>>
    PROVE  ConnectInv'
<1>1. NvmTypeOK /\ CallInv /\ ConnectInv /\ ContentInv /\ (tgt.prog => ~tgt.locked)
  BY DEF SessionInv, TypeOK, ConnectInv
<1>2. CalledStep
  BY <1>1, CallStep
<1>3. UNCHANGED <<wpc, op, result, transport, device, connected, file, cursor>>
  BY DEF workerVars
<1>4. CASE (Activate /\ wpc \in {"activate", "sib"}) \/ (LeaveProgmode /\ wpc = "disconnect")
           \/ (Unlock /\ wpc = "unlock")
  <2>1. Controlled(tgt, tgt')
    BY <1>1, <1>4, ControlStep
  <2> QED BY <1>1, <1>3, <1>4, <2>1 DEF ConnectInv, Controlled, ConnectPlaces, SessionPlaces
<1>5. CASE EnterProgmode /\ wpc = "enter"
  <2>1. Controlled(tgt, tgt')
    BY <1>1, <1>5, ControlStep
  <2>2. pc' = "ret" /\ ret' = "Ok" => InSession'
    BY <1>1, <1>5, EnterOk DEF InSession
  <2> QED BY <1>1, <1>3, <1>5, <2>1, <2>2 DEF ConnectInv, Controlled, ConnectPlaces, SessionPlaces
<1>6. CASE Reads
  <2>1. tgt' = tgt /\ pc' = "ret" /\ (ret' = "Ok" /\ pc = "signature" => val' = tgt.chip)
    BY <1>6, ReadStep
  <2>2. pc \in ReadPlaces
    BY <1>6, ControlFlow
  <2>3. wpc = "signature" => pc = "signature"
    BY <1>1, <2>2 DEF CallInv, PlacesOf, ReadPlaces
  <2>4. wpc # "enter"
    BY <1>1, <2>2, Callers DEF CallInv, ReadPlaces
  <2> QED BY <1>1, <1>3, <2>1, <2>3, <2>4 DEF ConnectInv, InSession
<1>7. CASE (EraseChip /\ wpc = "erase") \/ (WriteFlashPage /\ wpc = "write_page")
           \/ (ClearCommand /\ wpc \in {"erase", "write_page"})
  <2>1. wpc \in {"erase", "write_page"}
    BY <1>7
  <2>2. Kept(tgt, tgt')
    <3>1. CASE wpc = "erase"
      BY <1>1, <1>7, <3>1, EraseChipStep DEF ContentInv
    <3>2. CASE wpc = "write_page"
      BY <1>1, <1>3, <1>7, <3>2, ArgumentsStay, WritePageStep DEF ContentInv, SessionInv
    <3> QED BY <2>1, <3>1, <3>2
  <2>3. InSession => InSession'
    BY <2>2 DEF InSession, Kept
  <2> QED BY <1>1, <1>3, <2>1, <2>2, <2>3 DEF ConnectInv, Kept, ConnectPlaces, SessionPlaces
<1> QED BY <1>2, <1>4, <1>5, <1>6, <1>7 DEF CalledStep

LEMMA ContentInvNvm ==
    ASSUME SessionInv, NvmStep, UNCHANGED <<workerVars, history>>
    PROVE  ContentInv'
<1>1. NvmTypeOK /\ CallInv /\ ConnectInv /\ ContentInv /\ (tgt.prog => ~tgt.locked)
  BY DEF SessionInv, TypeOK, ConnectInv
<1>2. CalledStep /\ pc' \in PlacesOf(wpc)
  BY <1>1, CallStep
<1>3. UNCHANGED <<wpc, op, result, transport, device, connected, file, cursor>>
      /\ UNCHANGED arg
  BY ArgumentsStay DEF workerVars
<1>4. wpc # "disconnect" => pc' # "leave"
  BY <1>2, Callers DEF LeavePlaces
<1>5. CASE (Activate /\ wpc \in {"activate", "sib"}) \/ (EnterProgmode /\ wpc = "enter")
           \/ (Unlock /\ wpc = "unlock")
  <2>1. Controlled(tgt, tgt')
    BY <1>1, <1>5, ControlStep
  <2>2. Calm'
    BY <1>1, <1>5, <2>1 DEF ContentInv, Calm, Controlled
  <2> QED BY <1>1, <1>3, <1>4, <1>5, <2>2 DEF ContentInv
<1>6. CASE LeaveProgmode /\ wpc = "disconnect"
  <2>1. Controlled(tgt, tgt')
    BY <1>1, <1>6, ControlStep
  <2>2. pc' # "leave"
    BY <1>6 DEF LeaveProgmode, Ignore, Try
  <2>3. AllBlank /\ Calm /\ ~tgt.locked => AllBlank' /\ Calm' /\ ~tgt'.locked
    BY <2>1 DEF AllBlank, Calm, Controlled
  <2> QED BY <1>1, <1>3, <1>6, <2>2, <2>3 DEF ContentInv
<1>7. CASE Reads /\ wpc \in {"signature", "verify_page", "dump_page", "fuse"}
  <2>1. tgt' = tgt /\ pc' = "ret" /\ (ret' = "Ok" /\ pc = "read" => val' = tgt.flash[arg.page])
    BY <1>7, ReadStep
  <2>2. wpc = "verify_page" => pc = "read"
    <3>1. pc \in ReadPlaces
      BY <1>7, ControlFlow
    <3> QED BY <1>1, <3>1 DEF CallInv, PlacesOf, ReadPlaces
  <2>3. Calm' /\ (EqualUpTo(cursor - 1) => EqualUpTo(cursor - 1)')
    BY <1>1, <1>3, <1>7, <2>1 DEF ContentInv, Calm, EqualUpTo
  <2> QED BY <1>1, <1>3, <1>7, <2>1, <2>2, <2>3 DEF ContentInv
<1>8. CASE wpc = "erase" /\ (EraseChip \/ ClearCommand)
  <2>1. Erasing'
    BY <1>1, <1>8, EraseChipStep DEF ContentInv
  <2> QED BY <1>1, <1>3, <1>4, <1>8, <2>1 DEF ContentInv
<1>9. CASE wpc = "write_page" /\ (WriteFlashPage \/ ClearCommand)
  <2>1. Writing'
    BY <1>1, <1>3, <1>9, WritePageStep DEF ContentInv, SessionInv
  <2> QED BY <1>1, <1>3, <1>4, <1>9, <2>1 DEF ContentInv
<1> QED BY <1>2, <1>5, <1>6, <1>7, <1>8, <1>9 DEF CalledStep

LEMMA SessionInvNvm ==
    ASSUME SessionInv, NvmStep, UNCHANGED <<workerVars, history>>
    PROVE  SessionInv'
<1>1. TypeOK'
  BY NextType DEF SessionInv, Next, WorkerStep
<1>2. CallInv'
  BY CallStep DEF SessionInv, CallInv, workerVars
<1>3. PageInv'
  BY PageInvNvm DEF SessionInv, TypeOK
<1> QED BY <1>1, <1>2, <1>3, ConnectInvNvm, ContentInvNvm DEF SessionInv
-----------------------------------------------------------------------------
(* A step of the worker keeps it                                           *)

\* The functions are called at the places they start at.
LEMMA CallsAllowed ==
    /\ \A w : "ret" \in PlacesOf(w)
    /\ "activate" \in PlacesOf("activate") /\ "sib" \in PlacesOf("sib")
    /\ "enter" \in PlacesOf("enter") /\ "signature" \in PlacesOf("signature")
    /\ "unlock" \in PlacesOf("unlock") /\ "chip_erase" \in PlacesOf("erase")
    /\ "write_page" \in PlacesOf("write_page") /\ "read" \in PlacesOf("verify_page")
    /\ "read" \in PlacesOf("dump_page") /\ "fuse" \in PlacesOf("fuse")
    /\ "leave" \in PlacesOf("disconnect")
<1>1. "enter" \in EnterPlaces
  BY DEF EnterPlaces, LeavePlaces, ProgmodePlaces
<1>2. {"activate", "sib"} \subseteq ActivatePlaces /\ "unlock" \in UnlockPlaces
      /\ "chip_erase" \in EraseChipPlaces /\ "write_page" \in WritePagePlaces
      /\ "leave" \in LeavePlaces
  BY DEF ActivatePlaces, UnlockPlaces, EraseChipPlaces, WritePagePlaces, LeavePlaces
<1> QED BY <1>1, <1>2 DEF PlacesOf

LEMMA CallInvWorker ==
    ASSUME SessionInv, DoConnect \/ Operation
    PROVE  CallInv'
<1>1. CallInv /\ op \in Ops \cup {"None"}
  BY DEF SessionInv, TypeOK
<1>2. CASE DoConnect
  <2>1. ASSUME NEW st, pc = "ret", ConnectFailed(st), wpc \notin {"idle", "crashed"}
        PROVE  CallInv'
    BY <1>1, <2>1, CallsAllowed DEF ConnectFailed, Invoke, Return, nvmVars, CallInv
  <2>2. CASE EnsureTransport
    BY <1>1, <2>2, CallsAllowed DEF EnsureTransport, At, nvmVars, CallInv
  <2>3. CASE SessionConnect
    BY <1>1, <2>3, CallsAllowed DEF SessionConnect, At, Invoke, CallInv
  <2>4. CASE Activated
    BY <1>1, <2>1, <2>4, CallsAllowed DEF Activated, At, Call, Invoke, CallInv
  <2>5. CASE SibRead
    BY <1>1, <2>1, <2>5, CallsAllowed DEF SibRead, At, Invoke, CallInv
  <2>6. CASE Entered
    BY <1>1, <2>1, <2>6, CallsAllowed DEF Entered, At, Call, Invoke, CallInv
  <2>7. CASE Identified
    BY <1>1, <2>1, <2>7, CallsAllowed DEF Identified, At, CallInv
  <2>8. CASE Unlocked
    BY <1>1, <2>8, CallsAllowed DEF Unlocked, At, Goto, Return, nvmVars, CallInv
  <2> QED BY <1>2, <2>2, <2>3, <2>4, <2>5, <2>6, <2>7, <2>8 DEF DoConnect
<1>3. CASE Operation
  <2>1. CASE Body
    BY <1>1, <2>1, CallsAllowed
       DEF Body, At, Call, Goto, DisconnectAndReturn, Invoke, nvmVars, CallInv, Ops
  <2>2. CASE ParseHexFile
    BY <1>1, <2>2, CallsAllowed
       DEF ParseHexFile, At, Call, Goto, Return, Invoke, nvmVars, CallInv
  <2>3. CASE Erased
    BY <1>1, <2>3, CallsAllowed
       DEF Erased, At, Goto, Return, DisconnectAndReturn, Invoke, nvmVars, CallInv
  <2>4. CASE WriteFlash \/ PageWritten
    BY <1>1, <2>4, CallsAllowed
       DEF WriteFlash, PageWritten, At, CallPage, Goto, Return, Invoke, nvmVars, CallInv
  <2>5. CASE VerifyFlash \/ PageVerified
    BY <1>1, <2>5, CallsAllowed
       DEF VerifyFlash, PageVerified, At, CallPage, Goto, DisconnectAndReturn, Invoke, nvmVars,
           CallInv
  <2>6. CASE DumpFlash \/ PageDumped \/ SaveDump
    BY <1>1, <2>6, CallsAllowed
       DEF DumpFlash, PageDumped, SaveDump, At, CallPage, Goto, Return, DisconnectAndReturn,
           Invoke, nvmVars, CallInv
  <2>7. CASE ReadFuses \/ FuseRead
    BY <1>1, <2>7, CallsAllowed
       DEF ReadFuses, FuseRead, At, Call, Goto, DisconnectAndReturn, Invoke, nvmVars, CallInv
  <2>8. CASE Disconnected
    BY <1>1, <2>8, CallsAllowed DEF Disconnected, At, nvmVars, CallInv
  <2> QED BY <1>3, <2>1, <2>2, <2>3, <2>4, <2>5, <2>6, <2>7, <2>8 DEF Operation
<1> QED BY <1>2, <1>3

\* The worker steps between the functions it calls, and calls them at their start.
LEMMA PageInvIdle == pc' = "ret" => PageInv'
BY PageInvElsewhere DEF PagePlaces

LEMMA PageInvInvoke ==
    ASSUME NEW place, place \notin PagePlaces, NEW page, NEW data, Invoke(place, page, data)
    PROVE  PageInv'
BY PageInvElsewhere DEF Invoke

LEMMA PageInvWorker ==
    ASSUME SessionInv, DoConnect \/ Operation
    PROVE  PageInv'
<1>1. CallInv
  BY DEF SessionInv
<1>2. {"ret", "activate", "sib", "enter", "signature", "unlock", "chip_erase", "write_page", "read",
       "fuse", "leave"} \cap PagePlaces = {}
  BY DEF PagePlaces
<1>3. CASE DoConnect
  <2>1. CASE EnsureTransport
    BY <1>1, <2>1, PageInvIdle DEF EnsureTransport, At, nvmVars, CallInv, PlacesOf
  <2>2. ASSUME NEW st, pc = "ret", ConnectFailed(st) PROVE PageInv'
    BY <1>2, <2>2, PageInvIdle, PageInvInvoke DEF ConnectFailed, Return, nvmVars
  <2>3. CASE SessionConnect \/ Activated \/ SibRead \/ Entered
    BY <1>2, <2>2, <2>3, PageInvInvoke DEF SessionConnect, Activated, SibRead, Entered, At, Call
  <2>4. CASE Identified \/ Unlocked
    BY <2>2, <2>4, PageInvIdle DEF Identified, Unlocked, At, Goto, Return, nvmVars
  <2> QED BY <1>3, <2>1, <2>2, <2>3, <2>4 DEF DoConnect
<1>4. CASE Operation
  <2>1. pc = "ret"
    BY <1>4 DEF Operation, Body, ParseHexFile, Erased, WriteFlash, PageWritten, VerifyFlash,
       PageVerified, DumpFlash, PageDumped, SaveDump, ReadFuses, FuseRead, Disconnected, At
  <2>2. ASSUME NEW place, NEW at, Goto(place, at) \/ Return(at) PROVE PageInv'
    BY <2>1, <2>2, PageInvIdle DEF Goto, Return, nvmVars
  <2>3. ASSUME NEW st, DisconnectAndReturn(st) PROVE PageInv'
    BY <1>2, <2>3, PageInvInvoke DEF DisconnectAndReturn
  <2>4. CASE Body \/ ParseHexFile \/ Erased \/ WriteFlash \/ PageWritten
    BY <1>2, <2>2, <2>3, <2>4, PageInvInvoke DEF Body, ParseHexFile, Erased, WriteFlash,
       PageWritten, Call, CallPage
  <2>5. CASE VerifyFlash \/ PageVerified \/ DumpFlash \/ PageDumped \/ SaveDump
    BY <1>2, <2>2, <2>3, <2>5, PageInvInvoke DEF VerifyFlash, PageVerified, DumpFlash,
       PageDumped, SaveDump, CallPage
  <2>6. CASE ReadFuses \/ FuseRead \/ Disconnected
    BY <1>2, <2>1, <2>2, <2>3, <2>6, PageInvIdle, PageInvInvoke DEF ReadFuses, FuseRead,
       Disconnected, Call, nvmVars
  <2> QED BY <1>4, <2>4, <2>5, <2>6 DEF Operation
<1> QED BY <1>3, <1>4

LEMMA ConnectInvWorker ==
    ASSUME SessionInv, DoConnect \/ Operation
    PROVE  ConnectInv'
<1>1. CallInv /\ ConnectInv /\ connected \in BOOLEAN
  BY DEF SessionInv, TypeOK
<1>2. CASE DoConnect
  <2>1. ASSUME NEW st, ConnectFailed(st), wpc \in ConnectPlaces
        PROVE  ConnectInv'
    BY <1>1, <2>1 DEF ConnectFailed, Invoke, Return, nvmVars, ConnectInv, ConnectPlaces,
       SessionPlaces
  <2>2. CASE EnsureTransport
    BY <1>1, <2>2 DEF EnsureTransport, At, nvmVars, ConnectInv, ConnectPlaces, SessionPlaces
  <2>3. CASE SessionConnect
    <3>1. transport = "ready"
      BY <1>1, <2>3 DEF SessionConnect, At, ConnectInv
    <3> QED BY <1>1, <2>3, <3>1
            DEF SessionConnect, At, Invoke, ConnectInv, ConnectPlaces, SessionPlaces
  <2>4. CASE Activated
    BY <1>1, <2>1, <2>4
       DEF Activated, At, Call, Invoke, ConnectInv, ConnectPlaces, SessionPlaces
  <2>5. CASE SibRead
    BY <1>1, <2>1, <2>5 DEF SibRead, At, Invoke, ConnectInv, ConnectPlaces, SessionPlaces
  <2>6. CASE Entered
    BY <1>1, <2>1, <2>6
       DEF Entered, At, Call, Invoke, ConnectInv, ConnectPlaces, SessionPlaces, InSession
  <2>7. CASE Identified
    BY <1>1, <2>1, <2>7
       DEF Identified, At, ConnectInv, ConnectPlaces, SessionPlaces, InSession
  <2>8. CASE Unlocked
    BY <1>1, <2>8
       DEF Unlocked, At, Goto, Return, nvmVars, ConnectInv, ConnectPlaces, SessionPlaces
  <2> QED BY <1>2, <2>2, <2>3, <2>4, <2>5, <2>6, <2>7, <2>8 DEF DoConnect
<1>3. ASSUME wpc \in SessionPlaces,
             UNCHANGED <<tgt, transport, device, connected>>,
             wpc' \in SessionPlaces \cup {"idle", "disconnect"}
      PROVE  ConnectInv'
  <2>1. wpc' \notin {"crashed", "enter", "signature"} \cup ConnectPlaces
    BY <1>3 DEF SessionPlaces, ConnectPlaces
  <2> QED BY <1>1, <1>3, <2>1 DEF ConnectInv, InSession
<1>4. CASE Operation
  <2>1. CASE Body
    BY <1>3, <2>1
       DEF Body, At, Call, Goto, DisconnectAndReturn, Invoke, nvmVars, SessionPlaces
  <2>2. CASE ParseHexFile \/ Erased
    BY <1>3, <2>2
       DEF ParseHexFile, Erased, At, Call, Goto, Return, DisconnectAndReturn, Invoke, nvmVars,
           SessionPlaces
  <2>3. CASE WriteFlash \/ PageWritten
    BY <1>3, <2>3
       DEF WriteFlash, PageWritten, At, CallPage, Goto, Return, Invoke, nvmVars, SessionPlaces
  <2>4. CASE VerifyFlash \/ PageVerified
    BY <1>3, <2>4
       DEF VerifyFlash, PageVerified, At, CallPage, Goto, DisconnectAndReturn, Invoke, nvmVars,
           SessionPlaces
  <2>5. CASE DumpFlash \/ PageDumped \/ SaveDump
    BY <1>3, <2>5
       DEF DumpFlash, PageDumped, SaveDump, At, CallPage, Goto, Return, DisconnectAndReturn,
           Invoke, nvmVars, SessionPlaces
  <2>6. CASE ReadFuses \/ FuseRead
    BY <1>3, <2>6
       DEF ReadFuses, FuseRead, At, Call, Goto, DisconnectAndReturn, Invoke, nvmVars,
           SessionPlaces
  <2>7. CASE Disconnected
    BY <1>1, <2>7 DEF Disconnected, At, nvmVars, ConnectInv, ConnectPlaces, SessionPlaces
  <2> QED BY <1>4, <2>1, <2>2, <2>3, <2>4, <2>5, <2>6, <2>7 DEF Operation
<1> QED BY <1>2, <1>4
\* The worker's own steps leave the target alone.
LEMMA TargetStays == ASSUME DoConnect \/ Operation PROVE UNCHANGED tgt /\ UNCHANGED <<op, file>>
<1>1. ASSUME NEW st, ConnectFailed(st) PROVE UNCHANGED <<tgt, op, file>>
  BY <1>1 DEF ConnectFailed, Invoke, Return, nvmVars
<1>2. CASE DoConnect
  BY <1>1, <1>2 DEF DoConnect, EnsureTransport, SessionConnect, Activated, SibRead, Entered,
     Identified, Unlocked, Call, Invoke, Goto, Return, nvmVars
<1>3. CASE Body \/ ParseHexFile \/ Erased \/ WriteFlash \/ PageWritten
  BY <1>3 DEF Body, ParseHexFile, Erased, WriteFlash, PageWritten, Call, CallPage, Goto, Return,
     DisconnectAndReturn, Invoke, nvmVars
<1>4. CASE VerifyFlash \/ PageVerified \/ DumpFlash \/ PageDumped
  BY <1>4 DEF VerifyFlash, PageVerified, DumpFlash, PageDumped, CallPage, Goto, Return,
     DisconnectAndReturn, Invoke, nvmVars
<1>5. CASE SaveDump \/ ReadFuses \/ FuseRead \/ Disconnected
  BY <1>5 DEF SaveDump, ReadFuses, FuseRead, Disconnected, Call, Goto, Return,
     DisconnectAndReturn, Invoke, nvmVars
<1> QED BY <1>2, <1>3, <1>4, <1>5 DEF Operation

LEMMA ContentInvWorker ==
    ASSUME SessionInv, DoConnect \/ Operation
    PROVE  ContentInv'
<1>1. CallInv /\ ContentInv /\ UNCHANGED <<tgt, op, file>> /\ cursor \in Nat \ {0}
      /\ (tgt.prog => ~tgt.locked) /\ file.len \in Nat
  BY TargetStays, NPagesAssumption DEF SessionInv, ConnectInv, TypeOK, Images, BadFile
<1>2. ASSUME Calm, pc' # "leave",
             wpc' = "idle" => result' # "Ok",
             wpc' \notin {"erase", "write", "write_page", "verify", "verify_page", "disconnect"}
      PROVE  ContentInv'
  BY <1>1, <1>2 DEF ContentInv, Calm
\* What the worker reports on the way out of a session.
<1>3. ASSUME NEW st, DisconnectAndReturn(st),
             op \notin {"Flash", "Verify", "ChipErase"} \/ st # "Ok"
      PROVE  ContentInv'
  BY <1>1, <1>3 DEF ContentInv, DisconnectAndReturn, Invoke
<1>4. CASE DoConnect
  <2>1. wpc \notin {"idle", "crashed", "erase", "write_page", "disconnect"} /\ pc = "ret"
    BY <1>4 DEF DoConnect, EnsureTransport, SessionConnect, Activated, SibRead, Entered,
       Identified, Unlocked, At
  <2>2. Calm
    BY <1>1, <2>1 DEF ContentInv
  <2>3. ASSUME NEW st, st # "Ok", ConnectFailed(st)
        PROVE  ContentInv'
    BY <1>2, <2>1, <2>2, <2>3 DEF ConnectFailed, Invoke, Return, nvmVars
  <2>4. CASE EnsureTransport
    BY <1>2, <2>1, <2>2, <2>4 DEF EnsureTransport, nvmVars
  <2>5. CASE SessionConnect
    BY <1>2, <2>2, <2>5 DEF SessionConnect, Invoke
  <2>6. CASE Activated
    BY <1>2, <2>2, <2>3, <2>6 DEF Activated, Call, Invoke
  <2>7. CASE SibRead
    BY <1>2, <2>2, <2>3, <2>7 DEF SibRead, Invoke
  <2>8. CASE Entered
    BY <1>2, <2>2, <2>3, <2>8 DEF Entered, Call, Invoke
  <2>9. CASE Identified
    BY <1>2, <2>1, <2>2, <2>3, <2>9 DEF Identified
  <2>10. CASE Unlocked
    BY <1>2, <2>1, <2>2, <2>10 DEF Unlocked, Goto, Return, nvmVars
  <2> QED BY <1>4, <2>4, <2>5, <2>6, <2>7, <2>8, <2>9, <2>10 DEF DoConnect
<1>5. CASE Body
  <2>1. Calm /\ pc = "ret"
    BY <1>1, <1>5 DEF Body, At, ContentInv
  <2>2. CASE op = "Connect"
    BY <1>3, <1>5, <2>2 DEF Body
  <2>3. CASE op = "ChipErase"
    BY <1>1, <1>5, <2>1, <2>3 DEF Body, Call, Invoke, ContentInv, Erasing
  <2>4. CASE op \notin {"Connect", "ChipErase"}
    BY <1>2, <1>5, <2>1, <2>4 DEF Body, Goto, nvmVars
  <2> QED BY <2>2, <2>3, <2>4
<1>6. CASE ParseHexFile
  <2>1. Calm /\ pc = "ret" /\ op \in {"Flash", "Verify"}
    BY <1>1, <1>6 DEF ParseHexFile, At, ContentInv, CallInv
  <2>2. CASE file = BadFile
    BY <1>2, <1>6, <2>1, <2>2 DEF ParseHexFile, Return, nvmVars
  <2>3. CASE file # BadFile /\ op = "Flash"
    BY <1>1, <1>6, <2>1, <2>3 DEF ParseHexFile, Call, Invoke, ContentInv, Erasing
  <2>4. CASE file # BadFile /\ op # "Flash"
    <3>1. wpc' = "verify" /\ cursor' = 1 /\ pc' = "ret"
      BY <1>6, <2>1, <2>4 DEF ParseHexFile, Goto, nvmVars
    <3>2. EqualUpTo(cursor - 1)'
      BY <1>1, <2>4, <3>1 DEF EqualUpTo, Pages
    <3> QED BY <1>1, <2>1, <2>4, <3>1, <3>2 DEF ContentInv, Calm
  <2> QED BY <2>2, <2>3, <2>4
<1>7. CASE Erased
  <2>1. wpc = "erase" /\ pc = "ret" /\ op \in {"Flash", "ChipErase"}
        /\ (ret = "Ok" => AllBlank /\ Calm)
    BY <1>1, <1>7 DEF Erased, At, ContentInv, CallInv, Erasing
  <2>2. CASE op = "ChipErase"
    <3>1. wpc' = "disconnect" /\ result' = ret /\ pc' = "leave"
      BY <1>7, <2>2 DEF Erased, DisconnectAndReturn, Invoke
    <3>2. ~tgt.locked
      BY <2>1 DEF SessionInv, ConnectInv, SessionPlaces, InSession
    <3> QED BY <1>1, <2>1, <2>2, <3>1, <3>2 DEF ContentInv, AllBlank, Calm
  <2>3. CASE op # "ChipErase" /\ ret = "Ok"
    <3>1. wpc' = "write" /\ cursor' = 1 /\ pc' = "ret"
      BY <1>7, <2>1, <2>3 DEF Erased, Goto, nvmVars
    <3>2. BlankAfter(cursor - 1)'
      BY <1>1, <2>1, <2>3 DEF BlankAfter, AllBlank, Filled
    <3> QED BY <1>1, <2>1, <2>3, <3>1, <3>2 DEF ContentInv, Calm
  <2>4. CASE op # "ChipErase" /\ ret # "Ok"
    BY <1>1, <1>7, <2>1, <2>4 DEF Erased, Return, nvmVars, ContentInv
  <2> QED BY <2>2, <2>3, <2>4
<1>8. CASE WriteFlash
  <2>1. wpc = "write" /\ pc = "ret" /\ Calm /\ file # BadFile /\ BlankAfter(cursor - 1)
        /\ op = "Flash"
    BY <1>1, <1>8 DEF WriteFlash, At, ContentInv, CallInv
  <2>2. CASE cursor > file.len
    <3>1. wpc' = "verify" /\ cursor' = 1 /\ pc' = "ret"
      BY <1>8, <2>1, <2>2 DEF WriteFlash, Goto, nvmVars
    <3>2. EqualUpTo(cursor - 1)'
      BY <1>1, <2>1, <3>1 DEF EqualUpTo, BlankAfter, Pages
    <3> QED BY <1>1, <2>1, <3>1, <3>2 DEF ContentInv, Calm
  <2>3. CASE ~(cursor > file.len) /\ file.page[cursor] = "blank"
    <3>1. wpc' = "write" /\ cursor' = cursor + 1 /\ pc' = "ret"
      BY <1>8, <2>1, <2>3 DEF WriteFlash, Goto, nvmVars
    <3>2. BlankAfter(cursor - 1)'
      BY <1>1, <2>1, <3>1 DEF BlankAfter, Pages
    <3> QED BY <1>1, <2>1, <3>1, <3>2 DEF ContentInv, Calm
  <2>4. CASE ~(cursor > file.len) /\ file.page[cursor] # "blank"
    <3>1. /\ wpc' = "write_page" /\ cursor' = cursor /\ pc' = "write_page"
          /\ arg' = [page |-> cursor, data |-> file.page[cursor]]
      BY <1>8, <2>4 DEF WriteFlash, CallPage, Invoke
    <3>2. Calm' /\ BlankAfter(cursor - 1)' /\ cursor' <= file'.len
      BY <1>1, <2>1, <2>4, <3>1 DEF BlankAfter, Calm
    <3>3. Writing'
      BY <3>1, <3>2 DEF Writing
    <3> QED BY <1>1, <2>1, <3>1, <3>3 DEF ContentInv
  <2> QED BY <2>2, <2>3, <2>4
<1>9. CASE PageWritten
  <2>1. wpc = "write_page" /\ pc = "ret" /\ file # BadFile
        /\ (ret = "Ok" => Calm /\ BlankAfter(cursor))
    BY <1>1, <1>9 DEF PageWritten, At, ContentInv, Writing
  <2>2. CASE ret = "Ok"
    <3>1. wpc' = "write" /\ cursor' = cursor + 1 /\ pc' = "ret"
      BY <1>9, <2>1, <2>2 DEF PageWritten, Goto, nvmVars
    <3>2. BlankAfter(cursor - 1)'
      BY <1>1, <2>1, <2>2, <3>1 DEF BlankAfter, Pages
    <3> QED BY <1>1, <2>1, <2>2, <3>1, <3>2 DEF ContentInv, Calm
  <2>3. CASE ret # "Ok"
    BY <1>1, <1>9, <2>1, <2>3 DEF PageWritten, Return, nvmVars, ContentInv
  <2> QED BY <2>2, <2>3
<1>10. CASE VerifyFlash
  <2>1. wpc = "verify" /\ pc = "ret" /\ Calm /\ file # BadFile /\ EqualUpTo(cursor - 1)
        /\ op \in {"Flash", "Verify"}
    BY <1>1, <1>10 DEF VerifyFlash, At, ContentInv, CallInv
  <2>2. CASE cursor > file.len
    <3>1. wpc' = "disconnect" /\ pc' = "leave"
      BY <1>10, <2>2 DEF VerifyFlash, DisconnectAndReturn, Invoke
    <3>2. EqualUpTo(file.len)'
      BY <1>1, <2>1, <2>2 DEF EqualUpTo, Pages
    <3> QED BY <1>1, <2>1, <3>1, <3>2 DEF ContentInv, Calm
  <2>3. CASE ~(cursor > file.len)
    <3>1. /\ wpc' = "verify_page" /\ cursor' = cursor /\ pc' = "read"
          /\ arg' = [page |-> cursor, data |-> "blank"]
      BY <1>10, <2>3 DEF VerifyFlash, CallPage, Invoke
    <3>2. EqualUpTo(cursor - 1)'
      BY <1>1, <2>1, <3>1 DEF EqualUpTo
    <3> QED BY <1>1, <2>1, <3>1, <3>2 DEF ContentInv, Calm
  <2> QED BY <2>2, <2>3
<1>11. CASE PageVerified
  <2>1. wpc = "verify_page" /\ pc = "ret" /\ Calm /\ file # BadFile /\ EqualUpTo(cursor - 1)
        /\ (ret = "Ok" => val = tgt.flash[cursor])
    BY <1>1, <1>11 DEF PageVerified, At, ContentInv
  <2>2. CASE ret # "Ok"
    BY <1>3, <1>11, <2>2 DEF PageVerified
  <2>3. CASE ret = "Ok" /\ val # file.page[cursor]
    <3>1. DisconnectAndReturn("ErrVerify")
      BY <1>11, <2>3 DEF PageVerified
    <3> QED BY <1>3, <3>1
  <2>4. CASE ret = "Ok" /\ val = file.page[cursor]
    <3>1. wpc' = "verify" /\ cursor' = cursor + 1 /\ pc' = "ret"
      BY <1>11, <2>1, <2>4 DEF PageVerified, Goto, nvmVars
    <3>2. EqualUpTo(cursor - 1)'
      BY <1>1, <2>1, <2>4, <3>1 DEF EqualUpTo, Pages
    <3> QED BY <1>1, <2>1, <3>1, <3>2 DEF ContentInv, Calm
  <2> QED BY <2>2, <2>3, <2>4
<1>12. CASE DumpFlash \/ PageDumped \/ SaveDump
  <2>1. Calm /\ pc = "ret" /\ op = "Dump"
    BY <1>1, <1>12 DEF DumpFlash, PageDumped, SaveDump, At, ContentInv, CallInv
  <2>2. CASE DumpFlash
    BY <1>2, <2>1, <2>2 DEF DumpFlash, CallPage, Invoke, Goto, nvmVars
  <2>3. CASE PageDumped
    BY <1>2, <2>1, <2>3 DEF PageDumped, Goto, Return, nvmVars
  <2>4. CASE SaveDump
    <3>1. CASE Return("ErrParam")
      BY <1>2, <2>1, <3>1 DEF Return, nvmVars
    <3> QED BY <1>3, <2>1, <2>4, <3>1 DEF SaveDump
  <2> QED BY <1>12, <2>2, <2>3, <2>4
<1>13. CASE ReadFuses \/ FuseRead
  <2>1. Calm /\ pc = "ret" /\ op = "ReadFuses"
    BY <1>1, <1>13 DEF ReadFuses, FuseRead, At, ContentInv, CallInv
  <2>2. ASSUME NEW st, DisconnectAndReturn(st) PROVE ContentInv'
    BY <1>3, <2>1, <2>2
  <2> QED BY <1>2, <1>13, <2>1, <2>2 DEF ReadFuses, FuseRead, Call, Invoke, Goto, nvmVars
<1>14. CASE Disconnected
  BY <1>1, <1>14 DEF Disconnected, At, nvmVars, ContentInv, AllBlank, Calm
<1> QED
  BY <1>4, <1>5, <1>6, <1>7, <1>8, <1>9, <1>10, <1>11, <1>12, <1>13, <1>14 DEF Operation
-----------------------------------------------------------------------------
(* Power, user and start                                                   *)

\* Power that is lost while nothing is under way leaves the content alone.
LEMMA PowerStep ==
    ASSUME NvmTypeOK, PowerCycle
    PROVE  /\ tgt'.chip = tgt.chip /\ tgt'.locked = tgt.locked
           /\ tgt'.dis /\ ~tgt'.prog /\ tgt'.busy = 0
           /\ tgt.busy = 0 => tgt'.flash = tgt.flash
<1>1. PICK S : tgt' = PowerUp(tgt, S) /\ (tgt.busy = 0 => S = {})
  BY DEF PowerCycle
<1>2. tgt \in Targets
  BY DEF NvmTypeOK
<1>3. /\ tgt'.chip = tgt.chip /\ tgt'.locked = tgt.locked
      /\ tgt'.dis = TRUE /\ tgt'.prog = FALSE /\ tgt'.busy = 0
      /\ tgt'.flash = [p \in Pages |-> IF p \in S THEN "torn" ELSE tgt.flash[p]]
  BY <1>1, <1>2 DEF PowerUp, Targets
<1>4. S = {} => tgt'.flash = tgt.flash
  BY <1>2, <1>3 DEF Targets
<1> QED BY <1>1, <1>3, <1>4

LEMMA SessionInvPower ==
    ASSUME SessionInv, PowerCycle, UNCHANGED <<workerVars, history>>
    PROVE  SessionInv'
<1>1. TypeOK' /\ NvmTypeOK /\ CallInv /\ ConnectInv /\ ContentInv
  BY NextType DEF SessionInv, TypeOK, Next, Environment
<1>2. UNCHANGED <<wpc, op, result, transport, device, connected, file, cursor, pc, ret, val, arg>>
  BY DEF workerVars, PowerCycle
<1>3. /\ tgt'.chip = tgt.chip /\ tgt'.locked = tgt.locked
      /\ tgt'.dis /\ ~tgt'.prog /\ tgt'.busy = 0
      /\ tgt.busy = 0 => tgt'.flash = tgt.flash
  BY <1>1, PowerStep
<1>4. CallInv'
  BY <1>1, <1>2 DEF CallInv
<1>5. ConnectInv'
  BY <1>1, <1>2, <1>3 DEF ConnectInv, InSession
<1>6. ContentInv'
  <2>1. Calm' /\ (Calm /\ AllBlank => AllBlank')
    BY <1>3 DEF Calm, AllBlank
  <2>2. /\ Calm /\ BlankAfter(cursor) => BlankAfter(cursor)'
        /\ Calm /\ BlankAfter(cursor - 1) => BlankAfter(cursor - 1)'
        /\ Calm /\ EqualUpTo(cursor - 1) => EqualUpTo(cursor - 1)'
        /\ Calm /\ EqualUpTo(file.len) => EqualUpTo(file.len)'
    BY <1>2, <1>3 DEF Calm, EqualUpTo, BlankAfter
  <2>3. Erasing => Erasing'
    BY <1>2, <1>3, <2>1 DEF Erasing
  <2>4. Writing => Writing'
    BY <1>2, <1>3, <2>1, <2>2 DEF Writing
  <2>5. Calm => tgt'.flash = tgt.flash
    BY <1>3 DEF Calm
  <2> QED BY <1>1, <1>2, <1>3, <2>1, <2>2, <2>3, <2>4, <2>5 DEF ContentInv
<1>7. PageInv'
  BY <1>1, PageInvPower
<1> QED BY <1>1, <1>4, <1>5, <1>6, <1>7 DEF SessionInv

LEMMA SessionInvEnvironment ==
    ASSUME SessionInv, Environment
    PROVE  SessionInv'
<1>1. TypeOK' /\ TypeOK /\ CallInv /\ ConnectInv /\ ContentInv /\ tgt \in Targets
  BY NextType DEF SessionInv, TypeOK, NvmTypeOK, Next
<1>2. CASE PowerCycle /\ UNCHANGED <<workerVars, history>>
  BY <1>2, SessionInvPower
<1>3. ASSUME NEW o \in UserOps, Start(o) PROVE SessionInv'
  <2>1. /\ wpc = "idle" /\ wpc' = "transport" /\ op' \in Ops /\ pc' = pc
        /\ tgt' = Settle(tgt) /\ UNCHANGED <<transport, connected>>
    BY <1>3, WorkerAssumption DEF Start
  <2>2. pc = "ret"
    BY <1>1, <2>1 DEF CallInv, PlacesOf
  <2>3. tgt'.busy = 0 /\ tgt'.prog = tgt.prog /\ tgt'.locked = tgt.locked
    BY <1>1, <2>1 DEF Settle, Targets
  <2>4. CallInv'
    BY <2>1, <2>2, CallsAllowed DEF CallInv
  <2>5. ConnectInv'
    BY <1>1, <2>1, <2>3 DEF ConnectInv, ConnectPlaces, SessionPlaces
  <2>6. ContentInv'
    BY <1>1, <2>1, <2>2, <2>3 DEF ContentInv, Calm
  <2> QED BY <1>1, <2>1, <2>2, <2>4, <2>5, <2>6, PageInvIdle DEF SessionInv
<1>4. CASE Relaunch
  <2>1. /\ wpc \in {"idle", "crashed"} /\ wpc' = "idle" /\ op' = "None" /\ pc' = pc
        /\ tgt' = tgt /\ transport' = "NULL" /\ connected' = FALSE
    BY <1>4 DEF Relaunch
  <2>2. pc = "ret"
    BY <1>1, <2>1 DEF CallInv, PlacesOf
  <2>3. CallInv'
    BY <2>1, <2>2, CallsAllowed DEF CallInv
  <2>4. ConnectInv'
    BY <1>1, <2>1 DEF ConnectInv, ConnectPlaces, SessionPlaces
  <2>5. ContentInv'
    BY <2>1, <2>2 DEF ContentInv
  <2> QED BY <1>1, <2>1, <2>2, <2>3, <2>4, <2>5, PageInvIdle DEF SessionInv
<1>5. CASE SwapTarget
  <2>1. /\ wpc = "idle" /\ wpc' = "idle" /\ op' = "None" /\ pc' = pc
        /\ UNCHANGED <<transport, connected>> /\ ~tgt'.prog
    BY <1>5 DEF SwapTarget, FreshTargets, Fresh
  <2>2. pc = "ret"
    BY <1>1, <2>1 DEF CallInv, PlacesOf
  <2>3. CallInv'
    BY <2>1, <2>2, CallsAllowed DEF CallInv
  <2>4. ConnectInv'
    BY <1>1, <2>1 DEF ConnectInv, ConnectPlaces, SessionPlaces
  <2>5. ContentInv'
    BY <2>1, <2>2 DEF ContentInv
  <2> QED BY <1>1, <2>1, <2>2, <2>3, <2>4, <2>5, PageInvIdle DEF SessionInv
<1> QED BY <1>2, <1>3, <1>4, <1>5 DEF Environment

LEMMA SessionInvInit == Init => SessionInv
<1> SUFFICES ASSUME Init PROVE SessionInv
  OBVIOUS
<1>1. /\ wpc = "idle" /\ op = "None" /\ pc = "ret" /\ connected = FALSE /\ transport = "NULL"
      /\ ~tgt.prog
  BY DEF Init, NvmInit, FreshTargets, Fresh
<1>2. CallInv
  BY <1>1, CallsAllowed DEF CallInv
<1>3. ConnectInv
  BY <1>1 DEF ConnectInv, ConnectPlaces, SessionPlaces
<1>4. ContentInv
  BY <1>1 DEF ContentInv
<1>5. PageInv
  BY <1>1 DEF PageInv
<1> QED BY <1>2, <1>3, <1>4, <1>5, InitType DEF SessionInv

LEMMA SessionInvNext == SessionInv /\ [Next]_vars => SessionInv'
<1> SUFFICES ASSUME SessionInv, [Next]_vars PROVE SessionInv'
  OBVIOUS
<1>1. TypeOK'
  BY NextType DEF SessionInv
<1>2. CASE NvmStep /\ UNCHANGED <<workerVars, history>>
  BY <1>2, SessionInvNvm
<1>3. CASE (DoConnect \/ Operation) /\ UNCHANGED history
  BY <1>1, <1>3, CallInvWorker, PageInvWorker, ConnectInvWorker, ContentInvWorker DEF SessionInv
<1>4. CASE Environment
  BY <1>4, SessionInvEnvironment
<1>5. CASE UNCHANGED vars
  <2>1. CallInv' /\ ConnectInv'
    BY <1>5 DEF SessionInv, CallInv, ConnectInv, InSession, vars, nvmVars, workerVars
  <2>2. ContentInv'
    BY <1>5 DEF SessionInv, ContentInv, Erasing, Writing, Calm, AllBlank, BlankAfter, EqualUpTo,
       vars, nvmVars, workerVars
  <2>3. PageInv'
    BY <1>5 DEF SessionInv, PageInv, vars, nvmVars
  <2> QED BY <1>1, <2>1, <2>2, <2>3 DEF SessionInv
<1> QED BY <1>2, <1>3, <1>4, <1>5 DEF Next, WorkerStep

LEMMA SessionInvAlways == Spec => []SessionInv
<1> QED BY SessionInvInit, SessionInvNext, PTL DEF Spec

-----------------------------------------------------------------------------
(* What it gives                                                           *)

(***************************************************************************)
(* Between connect and disconnect the target is unlocked, in programming   *)
(* mode and the one the device table entry belongs to, unless it lost      *)
(* power, whatever is lost and however often.                              *)
(***************************************************************************)
THEOREM SessionHolds == Spec => []ConnectedMeansProgmode
<1>1. SessionInv => ConnectedMeansProgmode
  <2> SUFFICES ASSUME SessionInv, connected,
                      wpc \notin {"idle", "transport", "connect", "disconnect"}
               PROVE  \/ tgt.dis
                      \/ tgt.prog /\ tgt.boot = 0 /\ ~tgt.locked /\ device = tgt.chip
    BY DEF ConnectedMeansProgmode
  <2>1. ConnectInv /\ wpc \in WorkerPlaces
    BY DEF SessionInv, TypeOK
  <2>2. wpc \in SessionPlaces
    BY <2>1 DEF ConnectInv, ConnectPlaces, SessionPlaces, WorkerPlaces
  <2> QED BY <2>1, <2>2 DEF ConnectInv, InSession
<1> QED BY <1>1, SessionInvAlways, PTL

\* No page is programmed that is not blank: write_flash_page may assume it.
THEOREM PagesAreErased == Spec => []WritesBlankPages
<1>1. SessionInv => WritesBlankPages
  <2> SUFFICES ASSUME SessionInv, pc = "write_cmd" PROVE tgt.flash[arg.page] = "blank"
    BY DEF WritesBlankPages
  <2>1. wpc = "write_page"
    BY Callers DEF SessionInv, CallInv, WritePagePlaces
  <2>2. BlankAfter(cursor - 1) /\ arg.page = cursor /\ cursor \in Nat
    BY <2>1 DEF SessionInv, ContentInv, Writing, BeforeWrite, TypeOK
  <2>3. arg.page \in Pages
    BY DEF SessionInv, TypeOK, NvmTypeOK
  <2> QED BY <2>2, <2>3 DEF BlankAfter, Pages
<1> QED BY <1>1, SessionInvAlways, PTL

\* A Chip Erase that reports UpdiOk has left the target blank and unlocked.
THEOREM EraseIsDone == Spec => []EraseOkMeansBlank
<1>1. SessionInv => EraseOkMeansBlank
  BY DEF SessionInv, ContentInv, AllBlank, EraseOkMeansBlank, Over
<1> QED BY <1>1, SessionInvAlways, PTL

\* A flash that holds the image up to its end and nothing beyond it is the image.
LEMMA FlashIsImage ==
    ASSUME TypeOK, op = "Flash", file # BadFile, EqualUpTo(file.len)
    PROVE  tgt.flash = file.page
<1>1. NPages \in Nat /\ file \in Images /\ tgt.flash \in [Pages -> Content]
  BY NPagesAssumption DEF TypeOK, NvmTypeOK, Targets
<1>2. /\ file.len \in 0..NPages /\ file.page \in [Pages -> Data \cup {"blank"}]
      /\ \A p \in Pages : p > file.len => file.page[p] = "blank"
  BY <1>1 DEF Images
<1>3. \A p \in Pages : tgt.flash[p] = file.page[p]
  BY <1>1, <1>2 DEF EqualUpTo, Pages
<1> QED BY <1>1, <1>2, <1>3

(***************************************************************************)
(* A Flash or a Verify that is about to report UpdiOk has found the target *)
(* to hold the image; after a Flash the rest of the flash is blank.        *)
(***************************************************************************)
THEOREM VerifiedIsEqual == Spec => []VerifiedMeansEqual
<1>1. SessionInv => VerifiedMeansEqual
  <2> SUFFICES ASSUME SessionInv, pc = "leave", result = "Ok"
               PROVE  /\ op = "Verify" =>
                           \A p \in 1..file.len : tgt.flash[p] = file.page[p]
                      /\ op = "Flash" => tgt.flash = file.page
    BY DEF VerifiedMeansEqual
  <2>1. /\ op \in {"Flash", "Verify"} => EqualUpTo(file.len)
        /\ op = "Flash" => file # BadFile
    BY DEF SessionInv, ContentInv
  <2>2. NPages \in Nat /\ file \in Images \cup {BadFile} /\ tgt.flash \in [Pages -> Content]
    BY NPagesAssumption DEF SessionInv, TypeOK, NvmTypeOK, Targets
  <2>3. file.len \in 0..NPages
    BY <2>2 DEF Images, BadFile
  <2>4. ASSUME op = "Verify", NEW p \in 1..file.len
        PROVE  tgt.flash[p] = file.page[p]
    BY <2>1, <2>2, <2>3, <2>4 DEF EqualUpTo, Pages
  <2>5. op = "Flash" => tgt.flash = file.page
    BY <2>1, FlashIsImage DEF SessionInv
  <2> QED BY <2>4, <2>5
<1> QED BY <1>1, SessionInvAlways, PTL
=============================================================================
