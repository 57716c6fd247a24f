-------------------------- MODULE UpdiNvmApiProofs --------------------------
(***************************************************************************)
(* Theorems about UpdiNvmApi: commands do not overlap, a page erase or     *)
(* write keeps to its page, and success means done, whatever the caller    *)
(* calls, for every number of pages, faults and poll iterations and for    *)
(* all the times a target may take.                                        *)
(***************************************************************************)
EXTENDS UpdiNvmApi, UpdiNvmProofs

-----------------------------------------------------------------------------
(* Which function is executed *)

\* The caller is told which function the machine executes.
FnInv ==
    /\ pc \in UnlockPlaces => fn = "unlock"
    /\ pc \in EraseChipPlaces => fn = "chip_erase"
    /\ pc \in ErasePagePlaces => fn = "erase_page"
    /\ pc \in WritePagePlaces => fn = "write_page"
    /\ pc \in FusePlaces => fn = "write_fuse"
    /\ pc = "nocmd" => fn \in {"chip_erase", "erase_page", "write_page", "write_fuse"}
    /\ pc \in ActivatePlaces \cup ProgmodePlaces \cup ReadPlaces =>
          fn \notin {"unlock", "chip_erase", "erase_page", "write_page", "write_fuse"}

LEMMA FnStep == ASSUME FnInv, NvmStep, UNCHANGED fn PROVE FnInv'
<1> USE DEF FnInv, ActivatePlaces, ProgmodePlaces, UnlockPlaces, ReadPlaces, EraseChipPlaces,
        ErasePagePlaces, WritePagePlaces, FusePlaces
<1>1. CASE Activate \/ EnterProgmode \/ LeaveProgmode \/ Reads
  BY <1>1, ControlFlow
<1>2. CASE Unlock \/ EraseChip \/ EraseFlashPage
  BY <1>2, ControlFlow
<1>3. CASE WriteFlashPage \/ WriteFuseP3 \/ WriteFuseP0 \/ ClearCommand
  BY <1>3, ControlFlow
<1> QED BY <1>1, <1>2, <1>3 DEF NvmStep

Calling == CallPlain \/ SetDevice \/ CallPaged \/ CallFuse

LEMMA FnCall == ASSUME Calling PROVE FnInv'
<1> USE DEF FnInv, ActivatePlaces, ProgmodePlaces, UnlockPlaces, ReadPlaces, EraseChipPlaces,
        ErasePagePlaces, WritePagePlaces, FusePlaces
<1>1. CASE CallPlain
  BY <1>1 DEF CallPlain, Plain, Invoke
<1>2. CASE SetDevice
  BY <1>2 DEF SetDevice
<1>3. CASE CallPaged
  BY <1>3 DEF CallPaged, Invoke
<1>4. CASE CallFuse
  BY <1>4 DEF CallFuse, Invoke
<1> QED BY <1>1, <1>2, <1>3, <1>4 DEF Calling

-----------------------------------------------------------------------------
(* Commands do not overlap *)

\* Where a function goes on once wait_nvm_ready has said that NVMCTRL is ready,
\* up to its next command.
ReadyPlaces ==
    {"chip_erase_cmd", "erase_page_select", "erase_page_cmd", "write_clear", "write_fill",
     "write_cmd", "ee_clear", "ee_fill", "ee_cmd", "fuse_addr", "fuse_addr_high", "fuse_data",
     "fuse_cmd"}

ReadyInv == pc \in ReadyPlaces => tgt.busy = 0

LEMMA ReadyStep == ASSUME NvmTypeOK, ReadyInv, NvmStep PROVE ReadyInv'
<1> SUFFICES ASSUME pc' \in ReadyPlaces PROVE tgt'.busy = 0
  BY DEF ReadyInv
<1>0. tgt \in Targets
  BY DEF NvmTypeOK
<1>1. pc' \notin {"ret", "nocmd"}
  BY DEF ReadyPlaces
<1>2. CASE Activate \/ EnterProgmode \/ LeaveProgmode \/ Unlock \/ Reads \/ ClearCommand
  BY <1>2, ControlFlow DEF ReadyPlaces, ActivatePlaces, ProgmodePlaces, UnlockPlaces
<1>3. ASSUME NEW here, NEW u, NEW there, Command(here, u, there), there \notin ReadyPlaces
      PROVE  FALSE
  BY <1>1, <1>3, CommandOk
<1>4. ASSUME NEW here, here \notin ReadyPlaces, NEW timeout, NEW onOk, NEW onError,
             onError \notin ReadyPlaces, WaitReady(here, timeout, onOk, onError)
      PROVE  tgt'.busy = 0
  BY <1>4, WaitedReady
<1>5. ASSUME NEW here \in ReadyPlaces, NEW u, u.busy = tgt.busy, NEW there,
             Try(here, StByte(tgt, u), there)
      PROVE  tgt'.busy = 0
  <2>1. tgt.busy = 0
    BY <1>5 DEF ReadyInv, Try
  <2> QED BY <1>1, <1>5, <2>1, TryOk, StoreOk
<1>6. "ret" \notin ReadyPlaces /\ Finish \notin ReadyPlaces
  BY DEF ReadyPlaces, Finish
<1>7. CASE EraseChip
  BY <1>3, <1>4, <1>6, <1>7 DEF EraseChip, ReadyPlaces
<1>8. CASE EraseFlashPage
  <2>1. SelectPage(tgt, arg.page).busy = tgt.busy
    BY <1>0 DEF SelectPage, Targets
  <2>2. CASE Try("erase_page_select", StByte(tgt, SelectPage(tgt, arg.page)), "erase_page_cmd")
    BY <1>5, <2>1, <2>2 DEF ReadyPlaces
  <2> QED BY <1>3, <1>4, <1>6, <1>8, <2>2 DEF EraseFlashPage, ReadyPlaces
<1>9. CASE WriteFlashPage
  <2>1. CASE Try("write_fill", WriteDataWords(tgt, arg.page, arg.data), "write_cmd")
    <3>1. tgt.busy = 0 /\ arg.page \in Pages
      BY <2>1 DEF ReadyInv, ReadyPlaces, Try, NvmTypeOK
    <3> QED BY <1>0, <1>1, <2>1, <3>1, TryOk, BlockKeepsFlash
  <2> QED BY <1>3, <1>4, <1>6, <1>9, <2>1 DEF WriteFlashPage, ReadyPlaces
<1>10. CASE WriteFuseP3 \/ WriteFuseP0
  <2>1. LoadFuse(tgt).busy = tgt.busy /\ AddressFuse(tgt).busy = tgt.busy
    BY <1>0 DEF LoadFuse, AddressFuse, Targets
  <2>2. CASE WriteFuseP3
    <3>1. CASE Try("ee_fill", StByte(tgt, LoadFuse(tgt)), "ee_cmd")
      BY <1>5, <2>1, <3>1 DEF ReadyPlaces
    <3> QED BY <1>3, <1>4, <1>6, <2>2, <3>1 DEF WriteFuseP3, ReadyPlaces
  <2>3. CASE WriteFuseP0
    <3>1. CASE \/ Try("fuse_addr", StByte(tgt, tgt), "fuse_addr_high")
               \/ Try("fuse_addr_high", StByte(tgt, AddressFuse(tgt)), "fuse_data")
               \/ Try("fuse_data", StByte(tgt, LoadFuse(tgt)), "fuse_cmd")
      BY <1>5, <2>1, <3>1 DEF ReadyPlaces
    <3> QED BY <1>3, <1>4, <1>6, <2>3, <3>1 DEF WriteFuseP0, ReadyPlaces
  <2> QED BY <1>10, <2>2, <2>3
<1> QED BY <1>2, <1>7, <1>8, <1>9, <1>10 DEF NvmStep

LEMMA ReadyPower == ASSUME NvmTypeOK, PowerCycle PROVE ReadyInv'
BY DEF PowerCycle, PowerUp, ReadyInv, NvmTypeOK, Targets

-----------------------------------------------------------------------------
(* One page at a time *)

\* Nothing but the page the function is called for changes.
OnlyPage(t, u) == \A p \in Pages \ {arg.page} : u.flash[p] = t.flash[p]

LEMMA OnlyPageTry ==
    ASSUME NEW outs, \A o \in outs : OnlyPage(tgt, o.tgt), NEW here, NEW there,
           Try(here, outs, there) \/ Ignore(here, outs, there)
    PROVE  OnlyPage(tgt, tgt')
BY DEF Try, Ignore, Take

\* A store has an effect only in programming mode.
LEMMA OnlyPageStore ==
    ASSUME NEW u, tgt.prog => OnlyPage(tgt, u)
    PROVE  \A o \in StByte(tgt, u) : OnlyPage(tgt, o.tgt)
BY DEF StByte, Out, OnlyPage, Acknowledges, Accessible, NvmProgStatus

LEMMA OnlyPageCommand ==
    ASSUME NvmTypeOK, NEW u, tgt.prog => OnlyPage(tgt, u), NEW here, NEW there,
           Command(here, u, there)
    PROVE  OnlyPage(tgt, tgt')
<1> DEFINE refused == {[o EXCEPT !.fault = 1] : o \in StByte(tgt, Refuse(tgt))}
<1>1. OnlyPage(tgt, Refuse(tgt))
  BY DEF OnlyPage, Refuse, NvmTypeOK, Targets
<1>2. ASSUME NEW r \in StByte(tgt, Refuse(tgt))
      PROVE  OnlyPage(tgt, [r EXCEPT !.fault = 1].tgt)
  <2>1. [r EXCEPT !.fault = 1].tgt = r.tgt
    BY DEF StByte, Out
  <2> QED BY <1>1, <2>1, OnlyPageStore
<1>3. \A o \in StByte(tgt, u) \cup refused : OnlyPage(tgt, o.tgt)
  BY <1>2, OnlyPageStore
<1>4. Try(here, StByte(tgt, u) \cup refused, there)
  BY DEF Command
<1> HIDE DEF refused
<1> QED BY <1>3, <1>4, OnlyPageTry

LEMMA OnlyPageWait ==
    ASSUME NvmTypeOK, NEW here, NEW timeout, NEW onOk, NEW onError,
           WaitReady(here, timeout, onOk, onError)
    PROVE  OnlyPage(tgt, tgt')
<1>1. PICK o \in LdByte(tgt) : Take([o EXCEPT !.tgt = Elapse(@, CostOf(o.st))])
  BY DEF WaitReady
<1>2. o.tgt = tgt /\ [o EXCEPT !.tgt = Elapse(@, CostOf(o.st))].tgt = Elapse(o.tgt, CostOf(o.st))
  BY DEF LdByte, Load, Out
<1>3. Elapse(tgt, CostOf(o.st)).flash = tgt.flash
  BY DEF Elapse, NvmTypeOK, Targets
<1> QED BY <1>1, <1>2, <1>3 DEF Take, OnlyPage

LEMMA OnlyPageStep ==
    ASSUME NvmTypeOK, FnInv, PageInv, NvmStep, fn \in {"erase_page", "write_page"}
    PROVE  OnlyPage(tgt, tgt')
<1>0. tgt \in Targets /\ arg.page \in Pages
  BY DEF NvmTypeOK
<1>1. EraseFlashPage \/ WriteFlashPage \/ ClearCommand
  BY ControlFlow DEF NvmStep, FnInv
<1>2. /\ OnlyPage(tgt, tgt) /\ OnlyPage(tgt, SelectPage(tgt, arg.page))
      /\ OnlyPage(tgt, ClearBuffer(tgt))
  BY <1>0 DEF OnlyPage, SelectPage, ClearBuffer, Targets
<1>3. WriteTimes \subseteq Nat
  BY NvmAssumption
<1>4. CASE EraseFlashPage
  <2>1. CASE Try("erase_page_select", StByte(tgt, SelectPage(tgt, arg.page)), "erase_page_cmd")
    BY <1>2, <2>1, OnlyPageStore, OnlyPageTry
  <2>2. ASSUME NEW ms \in WriteTimes,
               Command("erase_page_cmd", ErasePage(tgt, ms), "erase_page_wait")
        PROVE  OnlyPage(tgt, tgt')
    <3>1. tgt.prog => tgt.page = arg.page
      BY <2>2 DEF PageInv, Command, Try
    <3>2. tgt.prog => OnlyPage(tgt, ErasePage(tgt, ms))
      BY <1>0, <1>3, <3>1, PageCommandOthers DEF OnlyPage
    <3> QED BY <2>2, <3>2, OnlyPageCommand
  <2> QED BY <1>4, <2>1, <2>2, OnlyPageWait DEF EraseFlashPage
<1>5. CASE WriteFlashPage
  <2>1. CASE Try("write_fill", WriteDataWords(tgt, arg.page, arg.data), "write_cmd")
    <3>1. ASSUME NEW o \in WriteDataWords(tgt, arg.page, arg.data)
          PROVE  o.tgt.flash = tgt.flash
      BY <1>0, BlockKeepsFlash
    <3> QED BY <2>1, <3>1, OnlyPageTry DEF OnlyPage
  <2>2. ASSUME NEW ms \in WriteTimes, Command("write_cmd", WritePage(tgt, ms), "write_wait")
        PROVE  OnlyPage(tgt, tgt')
    <3>1. tgt.prog => tgt.page = arg.page \/ tgt.buf = "blank"
      BY <2>2 DEF PageInv, Command, Try
    <3>2. tgt.prog => OnlyPage(tgt, WritePage(tgt, ms))
      BY <1>0, <1>3, <3>1, PageCommandOthers DEF OnlyPage
    <3> QED BY <2>2, <3>2, OnlyPageCommand
  <2> QED BY <1>2, <1>5, <2>1, <2>2, OnlyPageWait, OnlyPageCommand DEF WriteFlashPage
<1>6. CASE ClearCommand
  BY <1>2, <1>6, OnlyPageStore, OnlyPageTry DEF ClearCommand
<1> QED BY <1>1, <1>4, <1>5, <1>6

-----------------------------------------------------------------------------
(* Success means done *)

Slow == {"chip_erase", "erase_page", "write_fuse"}

\* What the function called last is to do.
Done ==
    CASE fn = "chip_erase" -> tgt.flash = Filled("blank")
      [] fn = "erase_page" -> tgt.flash[arg.page] = "blank"
      [] fn = "write_fuse" -> tgt.fuse = "new"
      [] OTHER -> TRUE

\* OkMeansDone made inductive: while a command is waited for it has been carried
\* out, or refused, or the target has lost power, which the wait will notice;
\* once it has been waited for no loss of power can undo it.
DoneInv ==
    /\ pc \in {"ee_cmd", "fuse_cmd"} => tgt.fuseReg = "new" \/ tgt.dis
    /\ pc \in {"chip_erase_wait", "erase_page_wait", "ee_wait", "fuse_wait"} =>
          Done \/ tgt.wrerr \/ tgt.dis
    /\ pc \in {"nocmd", "ret"} /\ fn \in Slow /\ ret = "Ok" => Done /\ tgt.busy = 0
    /\ pc = "ret" /\ fn = "unlock" /\ ret = "Ok" => ~tgt.locked

\* A wait after a command: when it is over without an error, the command was
\* carried out.
LEMMA WaitDone ==
    ASSUME NvmTypeOK, DoneInv, UNCHANGED fn, NEW timeout, NEW next, next \in {"nocmd", "ret"},
           NEW here \in {"chip_erase_wait", "erase_page_wait", "ee_wait", "fuse_wait"},
           WaitReady(here, timeout, next, next), fn # "unlock"
    PROVE  DoneInv'
<1>1. PICK o \in LdByte(tgt) : Take([o EXCEPT !.tgt = Elapse(@, CostOf(o.st))])
  BY DEF WaitReady
<1>2. o.tgt = tgt /\ [o EXCEPT !.tgt = Elapse(@, CostOf(o.st))].tgt = Elapse(o.tgt, CostOf(o.st))
  BY DEF LdByte, Load, Out
<1>3. tgt' = Elapse(tgt, CostOf(o.st))
  BY <1>1, <1>2 DEF Take
<1>4. /\ tgt'.flash = tgt.flash /\ tgt'.fuse = tgt.fuse /\ tgt'.wrerr = tgt.wrerr
      /\ tgt'.dis = tgt.dis /\ arg' = arg
  BY <1>3 DEF Elapse, NvmTypeOK, Targets, WaitReady
<1>5. Done' <=> Done
  BY <1>4 DEF Done
<1>6. pc = here /\ pc' \in {here, next}
  BY DEF WaitReady
<1>7. CASE pc' = here
  BY <1>4, <1>5, <1>6, <1>7 DEF DoneInv
<1>8. CASE pc' # here
  <2>1. CASE ret' = "Ok"
    <3>1. Accessible(tgt) /\ ~tgt.wrerr /\ tgt.busy = 0
      BY <1>8, <2>1, WaitReadyOk
    <3>2. tgt'.busy = 0
      BY <1>3, <3>1, CostType, ElapseReady DEF NvmTypeOK
    <3>3. Done
      BY <1>6, <3>1 DEF DoneInv, Accessible, Responds
    <3> QED BY <1>5, <1>6, <1>8, <3>2, <3>3 DEF DoneInv
  <2>2. CASE ret' # "Ok"
    BY <1>6, <1>8, <2>2 DEF DoneInv
  <2> QED BY <2>1, <2>2
<1> QED BY <1>7, <1>8

\* The waits before a command, and accesses that fail, promise nothing.
LEMMA OpenDone ==
    ASSUME pc' \notin {"ret", "nocmd", "ee_cmd", "fuse_cmd", "chip_erase_wait", "erase_page_wait",
                       "ee_wait", "fuse_wait"}
             \/ (pc' \in {"ret", "nocmd"} /\ ret' # "Ok")
    PROVE  DoneInv'
BY DEF DoneInv

LEMMA WaitOpen ==
    ASSUME NEW here, NEW timeout, NEW onOk, WaitReady(here, timeout, onOk, "ret"),
           {here, onOk} \cap {"ret", "nocmd", "ee_cmd", "fuse_cmd", "chip_erase_wait",
                              "erase_page_wait", "ee_wait", "fuse_wait"} = {}
    PROVE  DoneInv'
<1>1. \/ pc' \in {here, onOk}
      \/ pc' = "ret" /\ ret' # "Ok"
  BY DEF WaitReady
<1> QED BY <1>1, OpenDone

\* A command that is given has its effect, or is refused.
LEMMA CommandDone ==
    ASSUME NvmTypeOK, NEW u \in Targets, NEW here, UNCHANGED <<fn, arg>>,
           NEW there \in {"chip_erase_wait", "erase_page_wait", "ee_wait", "fuse_wait"},
           Command(here, u, there),
           \/ tgt.dis \/ ~tgt.prog
           \/ fn = "chip_erase" /\ u.flash = Filled("blank")
           \/ fn = "erase_page" /\ u.flash[arg.page] = "blank"
           \/ fn = "write_fuse" /\ u.fuse = "new"
    PROVE  DoneInv'
<1>1. CASE pc' = "ret"
  <2>1. ret' # "Ok"
    BY <1>1, TryFailed DEF Command
  <2> QED BY <1>1, <2>1, OpenDone
<1>2. CASE pc' # "ret"
  <2>1. pc' = there /\ ~tgt.dis /\ tgt.prog /\ (tgt' = u \/ tgt' = Refuse(tgt))
    BY <1>2, CommandOk DEF Acknowledges, Accessible, Responds, NvmProgStatus
  <2>2. Refuse(tgt).wrerr
    BY DEF Refuse, NvmTypeOK, Targets
  <2>3. Done' \/ tgt'.wrerr
    BY <2>1, <2>2 DEF Done
  <2> QED BY <2>1, <2>3 DEF DoneInv
<1> QED BY <1>1, <1>2

LEMMA EraseChipDone ==
    ASSUME NvmTypeOK, FnInv, DoneInv, UNCHANGED fn, EraseChip
    PROVE  DoneInv'
<1>0. tgt \in Targets /\ arg.page \in Pages /\ "blank" \in Content
  BY DEF NvmTypeOK, Content
<1>1. fn = "chip_erase" /\ UNCHANGED arg /\ Finish \in {"nocmd", "ret"}
  BY ControlFlow, ArgumentsStay DEF FnInv, NvmStep, Finish
<1>2. CASE WaitReady("chip_erase", 100, "chip_erase_cmd", "ret")
  BY <1>2, WaitOpen
<1>3. ASSUME NEW ms \in EraseTimes, Command("chip_erase_cmd", ChipErase(tgt, ms), "chip_erase_wait")
      PROVE  DoneInv'
  <2>1. ms \in Nat
    BY NvmAssumption
  <2>2. ChipErase(tgt, ms) \in Targets
    BY <1>0, <2>1, StoreType
  <2>3. ChipErase(tgt, ms).flash = Filled("blank")
    BY <1>0 DEF ChipErase, Targets
  <2> QED BY <1>1, <1>3, <2>2, <2>3, CommandDone
<1>4. CASE WaitReady("chip_erase_wait", 500, Finish, Finish)
  BY <1>1, <1>4, WaitDone
<1> QED BY <1>2, <1>3, <1>4 DEF EraseChip

LEMMA ErasePageDone ==
    ASSUME NvmTypeOK, FnInv, PageInv, DoneInv, UNCHANGED fn, EraseFlashPage
    PROVE  DoneInv'
<1>0. tgt \in Targets /\ arg.page \in Pages /\ "blank" \in Content
  BY DEF NvmTypeOK, Content
<1>1. fn = "erase_page" /\ UNCHANGED arg /\ Finish \in {"nocmd", "ret"}
  BY ControlFlow, ArgumentsStay DEF FnInv, NvmStep, Finish
<1>2. CASE WaitReady("erase_page", 100, "erase_page_select", "ret")
  BY <1>2, WaitOpen
<1>3. CASE Try("erase_page_select", StByte(tgt, SelectPage(tgt, arg.page)), "erase_page_cmd")
  <2>1. pc' = "erase_page_cmd" \/ (pc' = "ret" /\ ret' # "Ok")
    BY <1>3 DEF Try
  <2> QED BY <2>1, OpenDone
<1>4. ASSUME NEW ms \in WriteTimes,
             Command("erase_page_cmd", ErasePage(tgt, ms), "erase_page_wait")
      PROVE  DoneInv'
  <2>1. ms \in Nat /\ (tgt.prog => tgt.page = arg.page)
    BY <1>4, NvmAssumption DEF PageInv, Command, Try
  <2>2. ErasePage(tgt, ms) \in Targets
    BY <1>0, <2>1, StoreType
  <2>3. tgt.page = arg.page => ErasePage(tgt, ms).flash[arg.page] = "blank"
    BY <1>0 DEF ErasePage, Targets
  <2> QED BY <1>1, <1>4, <2>1, <2>2, <2>3, CommandDone
<1>5. CASE WaitReady("erase_page_wait", 100, Finish, Finish)
  BY <1>1, <1>5, WaitDone
<1> QED BY <1>2, <1>3, <1>4, <1>5 DEF EraseFlashPage

\* The command that writes a fuse finds the value where it takes it from.
LEMMA FuseCommandDone ==
    ASSUME NvmTypeOK, DoneInv, fn = "write_fuse", UNCHANGED <<fn, arg>>, NEW ms \in WriteTimes,
           NEW here \in {"ee_cmd", "fuse_cmd"}, NEW there \in {"ee_wait", "fuse_wait"},
           Command(here, WriteFuse(tgt, ms), there)
    PROVE  DoneInv'
<1>0. tgt \in Targets /\ ms \in Nat
  BY NvmAssumption DEF NvmTypeOK
<1>1. pc = here
  BY DEF Command, Try
<1>2. tgt.fuseReg = "new" \/ tgt.dis
  BY <1>1 DEF DoneInv
<1>3. WriteFuse(tgt, ms) \in Targets /\ (tgt.fuseReg = "new" => WriteFuse(tgt, ms).fuse = "new")
  BY <1>0 DEF WriteFuse, Targets
<1> QED BY <1>2, <1>3, CommandDone

LEMMA FuseDone ==
    ASSUME NvmTypeOK, FnInv, DoneInv, UNCHANGED fn, WriteFuseP3 \/ WriteFuseP0
    PROVE  DoneInv'
<1>0. tgt \in Targets
  BY DEF NvmTypeOK
<1>1. fn = "write_fuse" /\ UNCHANGED arg
  BY ControlFlow, ArgumentsStay DEF FnInv, NvmStep
<1>2. ASSUME NEW here, NEW there \in {"ee_cmd", "fuse_cmd"},
             Try(here, StByte(tgt, LoadFuse(tgt)), there)
      PROVE  DoneInv'
  <2>1. CASE pc' = "ret"
    BY <1>2, <2>1, TryFailed, OpenDone
  <2>2. CASE pc' # "ret"
    <3>1. pc' = there /\ tgt' = LoadFuse(tgt)
      BY <1>2, <2>2, TryOk, StoreOk
    <3>2. LoadFuse(tgt).fuseReg = "new"
      BY <1>0 DEF LoadFuse, AddressFuse, Targets
    <3> QED BY <3>1, <3>2 DEF DoneInv
  <2> QED BY <2>1, <2>2
<1>3. CASE WriteFuseP3
  <2>1. CASE Command("ee_clear", ClearFuse(tgt), "ee_clear_wait")
    <3>1. pc' = "ee_clear_wait" \/ (pc' = "ret" /\ ret' # "Ok")
      BY <2>1 DEF Command, Try
    <3> QED BY <3>1, OpenDone
  <2>2. CASE WaitReady("ee_wait", 100, "nocmd", "nocmd")
    BY <1>1, <2>2, WaitDone
  <2>3. CASE WaitReady("write_fuse_p3", 100, "ee_clear", "ret")
             \/ WaitReady("ee_clear_wait", 100, "ee_fill", "ret")
    BY <2>3, WaitOpen
  <2>4. CASE \E ms \in WriteTimes : Command("ee_cmd", WriteFuse(tgt, ms), "ee_wait")
    BY <1>1, <2>4, FuseCommandDone
  <2> QED BY <1>2, <1>3, <2>1, <2>2, <2>3, <2>4 DEF WriteFuseP3
<1>4. CASE WriteFuseP0
  <2>1. CASE Try("fuse_addr", StByte(tgt, tgt), "fuse_addr_high")
             \/ Try("fuse_addr_high", StByte(tgt, AddressFuse(tgt)), "fuse_data")
    <3>1. pc' \in {"fuse_addr_high", "fuse_data"} \/ (pc' = "ret" /\ ret' # "Ok")
      BY <2>1 DEF Try
    <3> QED BY <3>1, OpenDone
  <2>2. CASE WaitReady("fuse_wait", 100, "ret", "ret")
    BY <1>1, <2>2, WaitDone
  <2>3. CASE WaitReady("write_fuse_p0", 100, "fuse_addr", "ret")
    BY <2>3, WaitOpen
  <2>4. CASE \E ms \in WriteTimes : Command("fuse_cmd", WriteFuse(tgt, ms), "fuse_wait")
    BY <1>1, <2>4, FuseCommandDone
  <2> QED BY <1>2, <1>4, <2>1, <2>2, <2>3, <2>4 DEF WriteFuseP0
<1> QED BY <1>3, <1>4

\* The unlock succeeds when the target says that it is not locked.
LEMMA UnlockDone ==
    ASSUME NvmTypeOK, FnInv, UNCHANGED fn, Unlock
    PROVE  DoneInv'
<1>0. fn' = "unlock"
  BY ControlFlow DEF FnInv
<1>1. pc' \in UnlockPlaces \cup {"ret"}
  BY ControlFlow
<1>2. CASE pc' # "ret"
  BY <1>1, <1>2, OpenDone DEF UnlockPlaces
<1>3. CASE pc' = "ret" /\ ret' # "Ok"
  BY <1>3, OpenDone
<1>4. CASE pc' = "ret" /\ ret' = "Ok"
  <2>1. WaitUnlocked("erase_wait", 500, "ret", "ErrNvm")
    BY <1>4 DEF Unlock, Try, TryBit, Ignore
  <2>2. PICK o \in Ldcs(tgt) :
          /\ o.st = "Ok" /\ ~LockStatus(tgt)
          /\ Take([o EXCEPT !.tgt = Elapse(@, CostOf(o.st))])
    BY <1>4, <2>1 DEF WaitUnlocked
  <2>3. o.tgt = tgt /\ [o EXCEPT !.tgt = Elapse(@, CostOf(o.st))].tgt = Elapse(o.tgt, CostOf(o.st))
    BY DEF Ldcs, Load, Out
  <2>4. ~tgt'.locked
    BY <2>2, <2>3 DEF Take, Elapse, LockStatus, NvmTypeOK, Targets
  <2> QED BY <1>0, <1>4, <2>4 DEF DoneInv, Slow
<1> QED BY <1>2, <1>3, <1>4

LEMMA DoneStep ==
    ASSUME NvmTypeOK, FnInv, PageInv, DoneInv, NvmStep, UNCHANGED fn
    PROVE  DoneInv'
<1>1. CASE Activate \/ EnterProgmode \/ LeaveProgmode \/ Reads
  <2>1. /\ fn' \notin {"unlock", "chip_erase", "erase_page", "write_page", "write_fuse"}
        /\ pc' \in ActivatePlaces \cup ProgmodePlaces \cup {"ret"}
    BY <1>1, ControlFlow DEF FnInv
  <2> QED BY <2>1 DEF DoneInv, Slow, ActivatePlaces, ProgmodePlaces
<1>2. CASE WriteFlashPage
  <2>1. fn' = "write_page" /\ pc' \in WritePagePlaces \cup {"ret", "nocmd"}
    BY <1>2, ControlFlow DEF FnInv
  <2> QED BY <2>1 DEF DoneInv, Slow, WritePagePlaces
<1>3. CASE ClearCommand
  <2>1. pc = "nocmd" /\ pc' = "ret" /\ fn' # "unlock"
    BY <1>3, ControlFlow DEF FnInv
  <2>2. tgt' = tgt /\ ret' = ret /\ arg' = arg
    BY <1>3 DEF ClearCommand, Ignore, Take, StByte, Out
  <2>3. Done' <=> Done
    BY <2>2 DEF Done
  <2> QED BY <2>1, <2>2, <2>3 DEF DoneInv
<1> QED BY <1>1, <1>2, <1>3, EraseChipDone, ErasePageDone, FuseDone, UnlockDone DEF NvmStep

LEMMA DonePower ==
    ASSUME NvmTypeOK, DoneInv, PowerCycle, UNCHANGED fn
    PROVE  DoneInv'
<1>1. PICK S \in IF tgt.busy > 0 THEN SUBSET Pages ELSE {{}} : tgt' = PowerUp(tgt, S)
  BY DEF PowerCycle
<1>2. /\ tgt'.dis /\ tgt'.busy = 0 /\ tgt'.locked = tgt.locked /\ tgt'.fuse = tgt.fuse
      /\ UNCHANGED <<pc, ret, arg>>
  BY <1>1 DEF PowerCycle, PowerUp, NvmTypeOK, Targets
<1>3. tgt.busy = 0 => tgt'.flash = tgt.flash
  <2> SUFFICES ASSUME tgt.busy = 0 PROVE tgt'.flash = tgt.flash
    OBVIOUS
  <2>1. tgt' = PowerUp(tgt, {})
    BY <1>1
  <2> QED BY <2>1 DEF PowerUp, NvmTypeOK, Targets
<1>4. tgt.busy = 0 /\ Done => Done'
  BY <1>2, <1>3 DEF Done
<1> QED BY <1>2, <1>4 DEF DoneInv

LEMMA DoneCall == ASSUME Calling PROVE DoneInv'
<1>1. CASE CallPlain
  BY <1>1, OpenDone DEF CallPlain, Plain, Invoke
<1>2. CASE SetDevice
  BY <1>2 DEF SetDevice, DoneInv, Slow
<1>3. CASE CallPaged
  BY <1>3, OpenDone DEF CallPaged, Invoke
<1>4. CASE CallFuse
  BY <1>4, OpenDone DEF CallFuse, Invoke
<1> QED BY <1>1, <1>2, <1>3, <1>4 DEF Calling

-----------------------------------------------------------------------------
(* The theorems *)

ApiInv == NvmTypeOK /\ FnInv /\ ReadyInv /\ PageInv /\ DoneInv

LEMMA CallType ==
    ASSUME NvmTypeOK, Calling
    PROVE  NvmTypeOK'
<1>1. /\ Plain \cup {"chip_erase", "erase_page", "write_page", "read", "fuse", "write_fuse_p3",
                     "write_fuse_p0"} \subseteq Locations
      /\ 1 \in Pages
  BY NPagesAssumption DEF Plain, Locations, Pages
<1>2. dev \in {"P0", "P3", "NULL"}
  BY DEF NvmTypeOK
<1>3. CASE CallPlain
  BY <1>1, <1>2, <1>3, InvokeType DEF CallPlain
<1>4. CASE SetDevice
  BY <1>4 DEF SetDevice, NvmTypeOK
<1>5. CASE CallPaged
  BY <1>1, <1>2, <1>5, InvokeType DEF CallPaged
<1>6. CASE CallFuse
  BY <1>1, <1>2, <1>6, InvokeType DEF CallFuse
<1> QED BY <1>3, <1>4, <1>5, <1>6 DEF Calling

LEMMA ApiInit == Init => ApiInv
<1> SUFFICES ASSUME Init PROVE ApiInv
  OBVIOUS
<1>1. pc = "ret" /\ fn = "set_device"
  BY DEF Init, NvmInit
<1>2. NvmTypeOK
  BY NvmInitType DEF Init
<1> QED BY <1>1, <1>2 DEF ApiInv, FnInv, ReadyInv, PageInv, DoneInv, ReadyPlaces, Slow, ActivatePlaces,
        ProgmodePlaces, UnlockPlaces, ReadPlaces, EraseChipPlaces, ErasePagePlaces,
        WritePagePlaces, FusePlaces

LEMMA ReadyCall == ASSUME Calling PROVE ReadyInv'
<1>1. pc' \notin ReadyPlaces
  BY DEF Calling, CallPlain, Plain, SetDevice, CallPaged, CallFuse, Invoke, ReadyPlaces
<1> QED BY <1>1 DEF ReadyInv

LEMMA PageCall == ASSUME Calling PROVE PageInv'
<1>1. pc' \notin PagePlaces
  BY DEF Calling, CallPlain, Plain, SetDevice, CallPaged, CallFuse, Invoke, PagePlaces
<1> QED BY <1>1, PageInvElsewhere

LEMMA ApiNext == ApiInv /\ [Next]_apiVars => ApiInv'
<1> SUFFICES ASSUME ApiInv, [Next]_apiVars PROVE ApiInv'
  OBVIOUS
<1>1. CASE NvmStep /\ UNCHANGED fn
  BY <1>1, NvmStepType, FnStep, ReadyStep, PageInvNvm, DoneStep DEF ApiInv
<1>2. CASE PowerCycle /\ UNCHANGED fn
  <2>1. FnInv'
    BY <1>2 DEF ApiInv, FnInv, PowerCycle
  <2> QED BY <1>2, <2>1, PowerCycleType, ReadyPower, PageInvPower, DonePower DEF ApiInv
<1>3. CASE Calling
  BY <1>3, CallType, FnCall, ReadyCall, PageCall, DoneCall DEF ApiInv
<1>4. CASE UNCHANGED apiVars
  <2>1. NvmTypeOK'
    BY <1>4 DEF ApiInv, NvmTypeOK, apiVars, nvmVars
  <2>2. Done' <=> Done
    BY <1>4 DEF Done, apiVars, nvmVars
  <2>3. PageInv'
    BY <1>4 DEF ApiInv, PageInv, apiVars, nvmVars
  <2> QED BY <1>4, <2>1, <2>2, <2>3 DEF ApiInv, FnInv, ReadyInv, DoneInv, apiVars, nvmVars
<1> QED BY <1>1, <1>2, <1>3, <1>4 DEF Next, Calling

\* Whatever is called, an erase or write command is given only to an NVMCTRL
\* that is not busy.
THEOREM CommandsDoNotOverlap == Spec => []CommandsWhenReady
<1>1. ApiInv => CommandsWhenReady
  BY DEF ApiInv, ReadyInv, ReadyPlaces, CommandsWhenReady
<1> QED BY ApiInit, ApiNext, <1>1, PTL DEF Spec

\* A function that returns UpdiOk has done what its name says, whatever failed
\* before it and whatever is lost while it runs.
THEOREM SuccessMeansDone == Spec => []OkMeansDone
<1>1. ApiInv => OkMeansDone
  BY DEF ApiInv, DoneInv, Done, Slow, OkMeansDone, Returned
<1> QED BY ApiInit, ApiNext, <1>1, PTL DEF Spec

\* A page erase or page write changes no other page, whatever is refused or lost
\* before it and while it runs, unless power is lost: the page it commands is the
\* one it was called for, or its buffer is empty.
THEOREM OtherPagesKept == Spec => OnePageAtATime
<1>1. ApiInv /\ [Next]_apiVars =>
        [(fn \in {"erase_page", "write_page"} /\ ~PowerCycle)
            => (\A p \in Pages \ {arg.page} : tgt'.flash[p] = tgt.flash[p])]_apiVars
  <2> SUFFICES ASSUME ApiInv, Next, fn \in {"erase_page", "write_page"}, ~PowerCycle
               PROVE  OnlyPage(tgt, tgt')
    BY DEF OnlyPage
  <2>1. CASE NvmStep
    BY <2>1, OnlyPageStep DEF ApiInv
  <2>2. CASE Calling
    BY <2>2 DEF Calling, CallPlain, SetDevice, CallPaged, CallFuse, Invoke, OnlyPage
  <2> QED BY <2>1, <2>2 DEF Next, Calling
<1> QED BY ApiInit, ApiNext, <1>1, PTL DEF Spec, OnePageAtATime
=============================================================================
