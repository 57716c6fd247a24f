---------------------------- MODULE UpdiAppProofs ----------------------------
(***************************************************************************)
(* Theorems about UpdiApp, for queues and progress of any length and any   *)
(* items of the menu: nothing runs outside of the progress screen, the end *)
(* of an operation is announced only to its own screen, workers are        *)
(* started only for what was chosen, the progress on the screen does not   *)
(* run backwards, and the application implements the safety part of        *)
(* OperationCycle.                                                         *)
(***************************************************************************)
EXTENDS UpdiApp, TLAPS

Scenes == {"Start", "Progress", "DeviceInfo", "Fuses", "Result", "Settings", "About"}
Events == Items \cup {"Tick", "WorkerDone"}

Types ==
    /\ stack \in Seq(Scenes) /\ stack # <<>>
    /\ queue \in Seq(Events)
    /\ gui \in {"loop", "entering", "timing", "joining", "leaving", "freed"}
    /\ worker \in {"NULL", "run", "finish", "failed", "post", "posted", "returned"}
    /\ timer \in BOOLEAN
    /\ op \in Operations \cup {"None"}
    /\ result \in {"Ok", "Err"}

\* Where the GUI thread may be in which scene.
GuiInScene ==
    /\ gui \in {"entering", "timing", "joining"} => Scene = "Progress"
    /\ gui \in {"leaving", "freed"} => Scene = "Start"
    /\ gui = "joining" => worker \in {"posted", "returned"}

\* The thread and the timer live within the progress screen.
Lifetimes ==
    /\ worker # "NULL" <=> Scene = "Progress" /\ gui # "entering"
    /\ timer => Scene = "Progress" /\ gui = "loop"

\* The announcement in the queue is the one of the worker that is there.
Dones == {i \in DOMAIN queue : queue[i] = "WorkerDone"}
DoneOfWorker ==
    \A i \in Dones :
        /\ worker \in {"posted", "returned"}
        /\ gui \in {"loop", "timing"}
        /\ \A j \in Dones : i = j

\* What is in the queue or on the progress screen was chosen.
Chosen ==
    /\ \A i \in DOMAIN queue : queue[i] \in Items => queue[i] \in asked
    /\ Scene = "Progress" => op \in asked /\ op \in Operations

AppInv == Types /\ GuiInScene /\ Lifetimes /\ DoneOfWorker /\ Chosen

-----------------------------------------------------------------------------
(* The queue and the stack.                                                *)

LEMMA Appended ==
    ASSUME NEW S, NEW q \in Seq(S), NEW e \in S
    PROVE  /\ Append(q, e) \in Seq(S) /\ Append(q, e) # <<>>
           /\ Last(Append(q, e)) = e
           /\ Len(q) + 1 \in DOMAIN Append(q, e) /\ Append(q, e)[Len(q) + 1] = e
           /\ \A i \in DOMAIN Append(q, e) :
                  \/ i \in DOMAIN q /\ Append(q, e)[i] = q[i]
                  \/ i = Len(q) + 1 /\ Append(q, e)[i] = e
<1>1. /\ Append(q, e) \in Seq(S) /\ Len(Append(q, e)) = Len(q) + 1
      /\ Len(q) \in Nat /\ DOMAIN q = 1..Len(q)
      /\ DOMAIN Append(q, e) = 1..(Len(q) + 1)
  OBVIOUS
<1>2. Append(q, e)[Len(q) + 1] = e
  OBVIOUS
<1>3. \A i \in DOMAIN q : Append(q, e)[i] = q[i]
  OBVIOUS
<1>4. Append(q, e) # <<>>
  BY <1>1
<1>5. Last(Append(q, e)) = e
  BY <1>1, <1>2 DEF Last
<1> QED BY <1>1, <1>2, <1>3, <1>4, <1>5

LEMMA Taken ==
    ASSUME NEW S, NEW q \in Seq(S), q # <<>>
    PROVE  /\ Tail(q) \in Seq(S)
           /\ 1 \in DOMAIN q /\ Head(q) = q[1] /\ Head(q) \in S
           /\ \A i \in DOMAIN Tail(q) : i + 1 \in DOMAIN q /\ Tail(q)[i] = q[i + 1] /\ i + 1 # 1
OBVIOUS

LEMMA SceneType ==
    ASSUME Types
    PROVE  Scene \in Scenes
BY DEF Types, Scene, Last

\* A new event.
LEMMA Posted ==
    ASSUME Types, NEW e \in Events, Post(e)
    PROVE  /\ queue' \in Seq(Events)
           /\ \A i \in DOMAIN queue' :
                  \/ i \in DOMAIN queue /\ queue'[i] = queue[i]
                  \/ i = Len(queue) + 1 /\ queue'[i] = e
           /\ e # "WorkerDone" => \A i \in Dones' : i \in Dones
<1>1. queue' = Append(queue, e)
  BY DEF Post
<1>2. /\ queue' \in Seq(Events)
      /\ \A i \in DOMAIN queue' :
             \/ i \in DOMAIN queue /\ queue'[i] = queue[i]
             \/ i = Len(queue) + 1 /\ queue'[i] = e
  BY <1>1, Appended DEF Types
<1> QED BY <1>2 DEF Dones

\* The next event is taken.
LEMMA Dequeued ==
    ASSUME Types, queue # <<>>, queue' = Tail(queue)
    PROVE  /\ queue' \in Seq(Events)
           /\ 1 \in DOMAIN queue /\ Head(queue) = queue[1] /\ Head(queue) \in Events
           /\ \A i \in DOMAIN queue' : i + 1 \in DOMAIN queue /\ queue'[i] = queue[i + 1]
           /\ \A i \in Dones' : i + 1 \in Dones /\ i + 1 # 1 /\ i \in Nat
<1>1. /\ queue' \in Seq(Events)
      /\ 1 \in DOMAIN queue /\ Head(queue) = queue[1] /\ Head(queue) \in Events
      /\ \A i \in DOMAIN queue' :
             i + 1 \in DOMAIN queue /\ queue'[i] = queue[i + 1] /\ i + 1 # 1
  BY Taken DEF Types
<1>2. \A i \in DOMAIN queue' : i \in Nat
  BY <1>1
<1> QED BY <1>1, <1>2 DEF Dones

\* A scene is put on the stack.
LEMMA NextScene ==
    ASSUME Types, NEW s \in Scenes, stack' = Append(stack, s)
    PROVE  stack' \in Seq(Scenes) /\ stack' # <<>> /\ Scene' = s
BY Appended DEF Types, Scene

-----------------------------------------------------------------------------
(* The invariant, action by action.                                        *)

LEMMA InitInv == Init => AppInv
<1> SUFFICES ASSUME Init PROVE AppInv
  OBVIOUS
<1>1. stack \in Seq(Scenes) /\ stack # <<>> /\ Scene = "Start"
  BY DEF Init, Scene, Last, Scenes
<1>2. queue \in Seq(Events) /\ DOMAIN queue = {} /\ Dones = {}
  BY DEF Init, Dones
<1> QED
  BY <1>1, <1>2 DEF Init, AppInv, Types, GuiInScene, Lifetimes, DoneOfWorker, Chosen

LEMMA WorkerInv == AppInv /\ Worker => AppInv'
<1> SUFFICES ASSUME AppInv, Worker PROVE AppInv'
  OBVIOUS
<1> USE DEF AppInv
<1>1. CASE Work \/ Finish \/ ReturnFromThread
  BY <1>1 DEF Work, Finish, ReturnFromThread, set_phase, Types, GuiInScene, Lifetimes, DoneOfWorker, Dones, Chosen, Scene
<1>2. CASE PostDone
  <2>1. queue' \in Seq(Events) /\ (\A i \in Dones' : i = Len(queue) + 1)
    <3>1. Dones = {} /\ Post("WorkerDone") /\ "WorkerDone" \in Events
      BY <1>2 DEF PostDone, DoneOfWorker, Events
    <3>2. /\ queue' \in Seq(Events)
          /\ \A i \in DOMAIN queue' :
                 \/ i \in DOMAIN queue /\ queue'[i] = queue[i]
                 \/ i = Len(queue) + 1 /\ queue'[i] = "WorkerDone"
      BY <3>1, Posted
    <3> QED BY <3>1, <3>2 DEF Dones
  <2>2. Types' /\ GuiInScene' /\ Lifetimes'
    BY <1>2, <2>1 DEF PostDone, Types, GuiInScene, Lifetimes, Scene
  <2>3. DoneOfWorker'
    <3>1. gui \in {"loop", "timing"}
      BY <1>2 DEF PostDone, Types, GuiInScene, Lifetimes
    <3> QED BY <1>2, <2>1, <3>1 DEF PostDone, DoneOfWorker
  <2>4. Chosen'
    <3>1. "WorkerDone" \notin Items /\ "WorkerDone" \in Events
      BY UpdiAppAssumption DEF Events
    <3> QED BY <1>2, <3>1, Posted DEF PostDone, Chosen, Scene
  <2> QED BY <2>2, <2>3, <2>4
<1> QED BY <1>1, <1>2 DEF Worker

LEMMA TickInv == AppInv /\ Tick => AppInv'
<1> SUFFICES ASSUME AppInv, Tick PROVE AppInv'
  OBVIOUS
<1> USE DEF AppInv
<1>1. Types' /\ GuiInScene' /\ Lifetimes' /\ DoneOfWorker'
  BY Posted DEF Tick, Types, GuiInScene, Lifetimes, DoneOfWorker, Scene, Events
<1>2. Chosen'
  BY Posted, UpdiAppAssumption DEF Tick, Chosen, Scene, Events
<1> QED BY <1>1, <1>2

LEMMA UserInv == AppInv /\ User => AppInv'
<1> SUFFICES ASSUME AppInv, User PROVE AppInv'
  OBVIOUS
<1> USE DEF AppInv
<1>1. CASE Choose
  <2> PICK i \in Items : Post(i) /\ asked' = asked \cup {i}
    BY <1>1 DEF Choose
  <2>1. i # "WorkerDone" /\ i \in Events
    BY UpdiAppAssumption DEF Events
  <2> QED BY <1>1, <2>1, Posted DEF Choose, Types, GuiInScene, Lifetimes, DoneOfWorker, Chosen, Scene
<1>2. CASE Back
  <2>1. CASE Scene = "Start"
    BY <1>2, <2>1 DEF Back, Types, GuiInScene, Lifetimes, DoneOfWorker, Dones, Chosen, Scene
  <2>2. CASE Scene # "Start"
    <3>1. /\ stack' = <<"Start">> /\ timer' = FALSE /\ worker' = "NULL" /\ asked' = Pending
          /\ gui = "loop" /\ Scene # "Progress" /\ UNCHANGED <<gui, queue, op, result>>
      BY <1>2, <2>2 DEF Back, ToStart, BackBlocked
    <3>2. Scene' = "Start" /\ stack' \in Seq(Scenes) /\ stack' # <<>>
      BY <3>1 DEF Scene, Last, Scenes
    <3>3. Dones = {} /\ Dones' = {}
      BY <3>1 DEF DoneOfWorker, Lifetimes, Dones
    <3>4. Chosen'
      BY <3>1, <3>2 DEF Chosen, Pending, Range
    <3> QED BY <3>1, <3>2, <3>3, <3>4 DEF Types, GuiInScene, Lifetimes, DoneOfWorker
  <2> QED BY <2>1, <2>2
<1> QED BY <1>1, <1>2 DEF User

LEMMA StartEventInv == AppInv /\ StartEvent => AppInv'
<1> SUFFICES ASSUME AppInv, StartEvent PROVE AppInv'
  OBVIOUS
<1> USE DEF AppInv
<1>1. Scene = "Start" /\ gui = "loop" /\ worker = "NULL" /\ ~timer /\ Dones = {}
  BY DEF StartEvent, Lifetimes, DoneOfWorker
<1>2. queue' \in Seq(Events) /\ Dones' = {}
  BY <1>1, Dequeued DEF StartEvent
<1>3. Head(queue) \in Items => Head(queue) \in asked
  BY Dequeued DEF StartEvent, Chosen
<1>4. \A i \in DOMAIN queue' : queue'[i] \in Items => queue'[i] \in asked'
  BY Dequeued DEF StartEvent, Chosen
<1>5. CASE Head(queue) \in Operations /\ op' = Head(queue) /\ stack' = Append(stack, "Progress")
                                    /\ gui' = "entering"
  <2>1. stack' \in Seq(Scenes) /\ stack' # <<>> /\ Scene' = "Progress"
    BY <1>5, NextScene DEF Scenes
  <2>2. op' \in asked'
    <3>1. Head(queue) \in Events /\ Head(queue) \notin {"Tick", "WorkerDone"}
      BY <1>5, Dequeued DEF StartEvent, Operations
    <3> QED BY <1>3, <1>5, <3>1 DEF Events, StartEvent
  <2> QED
    BY <1>1, <1>2, <1>4, <1>5, <2>1, <2>2
       DEF StartEvent, Types, GuiInScene, Lifetimes, DoneOfWorker, Chosen
<1>6. CASE \E s \in {"Settings", "About"} : stack' = Append(stack, s) /\ UNCHANGED <<op, gui>>
  <2>1. stack' \in Seq(Scenes) /\ stack' # <<>> /\ Scene' \in {"Settings", "About"}
    BY <1>6, NextScene DEF Scenes
  <2> QED
    BY <1>1, <1>2, <1>4, <1>6, <2>1
       DEF StartEvent, Types, GuiInScene, Lifetimes, DoneOfWorker, Chosen
<1>7. CASE UNCHANGED <<op, stack, gui>>
  BY <1>1, <1>2, <1>4, <1>7
     DEF StartEvent, Types, GuiInScene, Lifetimes, DoneOfWorker, Chosen, Scene
<1> QED BY <1>5, <1>6, <1>7 DEF StartEvent, Id

LEMMA IgnoredInv ==
    ASSUME AppInv, OtherEvent \/ ProgressTick \/ ProgressIgnores
    PROVE  AppInv'
<1> USE DEF AppInv
<1>1. queue # <<>> /\ queue' = Tail(queue)
  BY DEF OtherEvent, ProgressTick, ProgressIgnores, Take
<1>2. UNCHANGED <<stack, gui, timer, worker, op, result, asked>>
  BY DEF OtherEvent, ProgressTick, ProgressIgnores
<1>3. Types' /\ GuiInScene' /\ Lifetimes'
  BY <1>1, <1>2, Dequeued DEF Types, GuiInScene, Lifetimes, Scene
<1>4. DoneOfWorker'
  <2>1. \A i, j \in Dones' : i + 1 = j + 1 /\ i \in Nat /\ j \in Nat
    BY <1>1, Dequeued DEF DoneOfWorker
  <2>2. Dones' # {} => Dones # {}
    BY <1>1, Dequeued
  <2> QED BY <1>2, <2>1, <2>2 DEF DoneOfWorker
<1>5. Chosen'
  BY <1>1, <1>2, Dequeued DEF Chosen, Scene
<1> QED BY <1>3, <1>4, <1>5

LEMMA ProgressDoneInv == AppInv /\ ProgressDone => AppInv'
<1> SUFFICES ASSUME AppInv, ProgressDone PROVE AppInv'
  OBVIOUS
<1> USE DEF AppInv
<1>1. /\ queue # <<>> /\ queue' = Tail(queue) /\ Head(queue) = "WorkerDone"
      /\ Scene = "Progress" /\ gui = "loop" /\ gui' = "joining" /\ timer' = FALSE
      /\ UNCHANGED <<stack, worker, op, result, asked>>
  BY DEF ProgressDone, Take, TimerStopped
<1>2. 1 \in Dones
  BY <1>1, Dequeued DEF Dones
<1>3. worker \in {"posted", "returned"} /\ Dones' = {}
  BY <1>1, <1>2, Dequeued DEF DoneOfWorker
<1>4. Types' /\ GuiInScene' /\ Lifetimes' /\ DoneOfWorker'
  BY <1>1, <1>3, Dequeued DEF Types, GuiInScene, Lifetimes, DoneOfWorker, Scene
<1>5. Chosen'
  BY <1>1, Dequeued DEF Chosen, Scene
<1> QED BY <1>4, <1>5

LEMMA EntryInv == AppInv /\ (StartWorker \/ StartTimer \/ updi_app_free \/ Freed) => AppInv'
<1> SUFFICES ASSUME AppInv, StartWorker \/ StartTimer \/ updi_app_free \/ Freed PROVE AppInv'
  OBVIOUS
<1> USE DEF AppInv
<1>1. UNCHANGED <<stack, queue, op, asked>> /\ Scene' = Scene /\ Dones' = Dones
  BY DEF StartWorker, StartTimer, updi_app_free, Freed, vars, Scene, Dones
<1>2. Chosen'
  BY <1>1 DEF Chosen
<1>3. CASE StartWorker
  BY <1>1, <1>2, <1>3 DEF StartWorker, Types, GuiInScene, Lifetimes, DoneOfWorker
<1>4. CASE StartTimer
  BY <1>1, <1>2, <1>4 DEF StartTimer, Types, GuiInScene, Lifetimes, DoneOfWorker
<1>5. CASE updi_app_free
  BY <1>1, <1>2, <1>5 DEF updi_app_free, Types, GuiInScene, Lifetimes, DoneOfWorker
<1>6. CASE Freed
  BY <1>1, <1>2, <1>6 DEF Freed, vars, Types, GuiInScene, Lifetimes, DoneOfWorker
<1> QED BY <1>3, <1>4, <1>5, <1>6

LEMMA JoinInv == AppInv /\ Join => AppInv'
<1> SUFFICES ASSUME AppInv, Join PROVE AppInv'
  OBVIOUS
<1> USE DEF AppInv
<1>1. /\ gui = "joining" /\ gui' = "loop" /\ worker' = "NULL" /\ ~timer
      /\ UNCHANGED <<queue, timer, op, result, asked>> /\ Dones = {} /\ Dones' = {}
  BY DEF Join, Lifetimes, DoneOfWorker, Dones
<1>2. PICK s \in {"DeviceInfo", "Fuses", "Result"} : stack' = Append(stack, s)
  BY DEF Join
<1>3. stack' \in Seq(Scenes) /\ stack' # <<>> /\ Scene' = s
  BY <1>2, NextScene DEF Scenes
<1> QED BY <1>1, <1>2, <1>3 DEF Types, GuiInScene, Lifetimes, DoneOfWorker, Chosen

LEMMA StepInv == AppInv /\ [Next]_vars => AppInv'
<1> SUFFICES ASSUME AppInv, [Next]_vars PROVE AppInv'
  OBVIOUS
<1>1. CASE Gui
  BY <1>1, StartEventInv, IgnoredInv, ProgressDoneInv, EntryInv, JoinInv DEF Gui
<1>2. CASE Worker \/ Tick \/ User \/ Freed
  BY <1>2, WorkerInv, TickInv, UserInv, EntryInv
<1>3. CASE UNCHANGED vars
  BY <1>3 DEF vars, AppInv, Types, GuiInScene, Lifetimes, DoneOfWorker, Dones, Chosen, Scene
<1> QED BY <1>1, <1>2, <1>3 DEF Next

THEOREM Invariance == Spec => []AppInv
BY InitInv, StepInv, PTL DEF Spec

-----------------------------------------------------------------------------
(* What follows from it.                                                   *)

\* Outside of the progress screen there is neither thread nor timer, so that
\* menu and settings may touch what the worker uses, and the end may free it.
THEOREM NothingRunsOutside == Spec => []IdleOutsideProgress
<1>1. AppInv => IdleOutsideProgress
  BY DEF AppInv, Lifetimes, IdleOutsideProgress
<1> QED BY <1>1, Invariance, PTL

\* The WorkerDone in the queue is of the operation on the screen.
THEOREM DoneIsOwn == Spec => []NoStaleDone
<1>1. AppInv => NoStaleDone
  <2> SUFFICES ASSUME AppInv PROVE NoStaleDone
    OBVIOUS
  <2>1. Dones # {} => worker \in {"posted", "returned"}
    BY DEF AppInv, DoneOfWorker
  <2>2. Dones # {} => Scene = "Progress" /\ gui # "entering"
    BY <2>1 DEF AppInv, Lifetimes
  <2>3. \A i, j \in Dones : i = j
    BY DEF AppInv, DoneOfWorker
  <2> QED BY <2>1, <2>2, <2>3 DEF NoStaleDone, Dones
<1> QED BY <1>1, Invariance, PTL

\* Every worker that is started was asked for, when none is there.
THEOREM StartedAreChosen == Spec => StartsAreAsked
<1>1. AppInv /\ [Next]_vars => [StartWorker => op \in asked /\ worker = "NULL" /\ ~timer]_vars
  BY DEF AppInv, StartWorker, GuiInScene, Lifetimes, Chosen
<1> QED BY <1>1, Invariance, PTL DEF Spec, StartsAreAsked

\* The screen implements the safety part of OperationCycle: every step of the
\* application is one of Begin, End, Report and Dismiss, or changes none of
\* state, operation and outcome.
THEOREM RefinesCycle == Spec => Cycle!Safety
<1>1. Init => Cycle!Init
  BY DEF Init, Cycle!Init, OpState, OpOutcome, Scene, Last, Ended, Reports
<1>2. AppInv /\ AppInv' /\ [Next]_vars => [Cycle!Next]_(Cycle!vars)
  <2> SUFFICES ASSUME AppInv, AppInv', [Next]_vars PROVE [Cycle!Next]_(Cycle!vars)
    OBVIOUS
  <2> USE DEF Ended, Reports, OpState, OpOutcome, Cycle!vars
  <2>1. CASE StartEvent
    <3>1. Scene = "Start" /\ UNCHANGED worker
      BY <2>1 DEF StartEvent
    <3>2. CASE Head(queue) \in Operations /\ op' = Head(queue)
               /\ stack' = Append(stack, "Progress") /\ gui' = "entering"
      <4>1. Scene' = "Progress" /\ worker = "NULL"
        BY <3>1, <3>2, NextScene DEF AppInv, Scenes, Lifetimes
      <4> QED BY <3>1, <3>2, <4>1 DEF Cycle!Next, Cycle!Begin
    <3>3. CASE \E s \in {"Settings", "About"} : stack' = Append(stack, s) /\ UNCHANGED <<op, gui>>
      <4>1. Scene' \in {"Settings", "About"} /\ UNCHANGED op
        BY <3>3, NextScene DEF AppInv, Scenes
      <4> QED BY <3>1, <4>1
    <3>4. CASE UNCHANGED <<op, stack, gui>>
      BY <3>1, <3>4 DEF Scene
    <3> QED BY <2>1, <3>2, <3>3, <3>4 DEF StartEvent, Id
  <2>2. CASE OtherEvent \/ ProgressTick \/ ProgressIgnores \/ ProgressDone \/ StartTimer
    BY <2>2 DEF OtherEvent, ProgressTick, ProgressIgnores, ProgressDone, StartTimer, Scene
  <2>3. CASE StartWorker
    BY <2>3 DEF StartWorker, Scene, AppInv, GuiInScene, Lifetimes
  <2>4. CASE Join
    <3>1. PICK s \in {"DeviceInfo", "Fuses", "Result"} : stack' = Append(stack, s)
      BY <2>4 DEF Join
    <3>2. /\ Scene = "Progress" /\ Scene' = s /\ worker \in {"posted", "returned"}
          /\ UNCHANGED <<op, result>>
      BY <2>4, <3>1, NextScene DEF Join, AppInv, GuiInScene, Scenes
    <3>3. /\ OpState = "ended" /\ OpState' = "reported"
          /\ OpOutcome = result /\ OpOutcome' = result'
      BY <3>2
    <3> HIDE DEF OpState, OpOutcome
    <3>4. Cycle!Report
      BY <3>2, <3>3 DEF Cycle!Report
    <3> QED BY <3>4 DEF Cycle!Next
  <2>5. CASE updi_app_free
    BY <2>5 DEF updi_app_free, Scene, AppInv, GuiInScene
  <2>6. CASE Work \/ PostDone \/ ReturnFromThread
    BY <2>6 DEF Work, set_phase, PostDone, ReturnFromThread, Scene
  <2>7. CASE Finish
    <3>1. Scene = "Progress" /\ Scene' = "Progress"
      BY <2>7 DEF Finish, AppInv, Lifetimes, Scene
    <3>2. OpState = "running" /\ OpState' = "ended" /\ OpOutcome' \in {"Ok", "Err"} /\ UNCHANGED op
      BY <2>7, <3>1 DEF Finish
    <3> HIDE DEF OpState, OpOutcome
    <3>3. Cycle!End
      BY <3>1, <3>2 DEF Cycle!End
    <3> QED BY <3>3 DEF Cycle!Next
  <2>8. CASE Tick \/ Choose
    BY <2>8 DEF Tick, Choose, Scene
  <2>9. CASE Back
    <3>1. CASE Scene = "Start"
      BY <2>9, <3>1 DEF Back, Scene
    <3>2. CASE Scene # "Start"
      <4>1. Scene' = "Start" /\ Scene # "Progress" /\ UNCHANGED op
        BY <2>9, <3>2 DEF Back, BackBlocked, ToStart, Scene, Last
      <4> QED BY <3>2, <4>1 DEF Cycle!Next, Cycle!Dismiss
    <3> QED BY <3>1, <3>2
  <2>10. CASE Freed \/ UNCHANGED vars
    BY <2>10 DEF Freed, vars, Scene
  <2> QED
    BY <2>1, <2>2, <2>3, <2>4, <2>5, <2>6, <2>7, <2>8, <2>9, <2>10 DEF Next, Gui, Worker, User
<1> QED BY <1>1, <1>2, Invariance, PTL DEF Spec, Cycle!Safety

-----------------------------------------------------------------------------
(* What the progress screen says.                                          *)

\* A phase of an operation comes once, and is not Done.
LEMMA PhasesAre ==
    ASSUME NEW o \in Operations
    PROVE  /\ Len(Phases(o)) \in Nat \ {0}
           /\ \A i \in 1..Len(Phases(o)) : Phases(o)[i] \notin {"none", "Done"}
           /\ \A i, j \in 1..Len(Phases(o)) : Phases(o)[i] = Phases(o)[j] => i = j
           /\ Phases(o)[1] = "Connecting"
<1>1. o \in {"Connect", "Flash", "Verify", "Dump", "ChipErase", "ReadFuses"}
  BY DEF Operations
<1>2. CASE o = "Flash"
  <2>1. Phases(o) = <<"Connecting", "ReadingFile", "Erasing", "Writing", "Verifying">>
    BY <1>2 DEF Phases
  <2> QED BY <2>1
<1>3. CASE o = "Verify"
  <2>1. Phases(o) = <<"Connecting", "ReadingFile", "Verifying">>
    BY <1>3 DEF Phases
  <2> QED BY <2>1
<1>4. CASE o = "Dump"
  <2>1. Phases(o) = <<"Connecting", "Reading">>
    BY <1>4 DEF Phases
  <2> QED BY <2>1
<1>5. CASE o = "ChipErase"
  <2>1. Phases(o) = <<"Connecting", "Erasing">>
    BY <1>5 DEF Phases
  <2> QED BY <2>1
<1>6. CASE o \in {"Connect", "ReadFuses"}
  <2>1. Phases(o) = <<"Connecting">>
    BY <1>6 DEF Phases
  <2> QED BY <2>1
<1> QED BY <1>1, <1>2, <1>3, <1>4, <1>5, <1>6

\* The phase of the worker, and that the screen has not seen the next one yet.
PhaseInv ==
    /\ phase # "none"
    /\ worker # "run" => lock = "none"
    /\ worker = "run" =>
        /\ lock \in {"none", "worker"}
        /\ at \in 1..Len(Phases(op))
        /\ phase # Phases(op)[at] => lock = "none" /\ shown[1] # Phases(op)[at]
        /\ phase \in {Phases(op)[i] : i \in 1..at}
        /\ lock = "worker" => phase = Phases(op)[at] /\ shown[1] # phase
        /\ \A i \in (at + 1)..Len(Phases(op)) : shown[1] # Phases(op)[i]
    /\ worker \in {"run", "finish", "failed"} => shown[1] # "Done"
    /\ worker \in {"finish", "failed"} => phase # "Done"

\* What the screen shows is not ahead of what it would show next.
ShownInv ==
    /\ prog_done \in Nat /\ shown[2] \in Nat
    /\ shown[1] = "none" => shown[2] = 0
    /\ worker # "NULL" /\ lock = "none" /\ shown[1] = phase => shown[2] <= prog_done

LEMMA ShownInit == Init => PhaseInv /\ ShownInv
BY DEF Init, PhaseInv, ShownInv

LEMMA WorkShown == AppInv /\ PhaseInv /\ ShownInv /\ Work => PhaseInv' /\ ShownInv'
<1> SUFFICES ASSUME AppInv, PhaseInv, ShownInv, Work  PROVE PhaseInv' /\ ShownInv'
  OBVIOUS
<1> DEFINE ph == Phases(op)[at]
           n == Len(Phases(op))
<1>1. worker = "run" /\ UNCHANGED <<op, shown>>
  BY DEF Work
<1>2. op \in Operations
  BY <1>1 DEF AppInv, Lifetimes, Chosen
<1>3. /\ n \in Nat /\ at \in 1..n
      /\ \A i, j \in 1..n : Phases(op)[i] = Phases(op)[j] => i = j
      /\ \A i \in 1..n : Phases(op)[i] \notin {"none", "Done"}
  BY <1>1, <1>2, PhasesAre DEF PhaseInv
<1>4. /\ lock \in {"none", "worker"}
      /\ phase # ph => lock = "none" /\ shown[1] # ph
      /\ lock = "worker" => phase = ph /\ shown[1] # phase
      /\ phase \in {Phases(op)[i] : i \in 1..at}
      /\ \A i \in (at + 1)..n : shown[1] # Phases(op)[i]
      /\ shown[1] # "Done" /\ phase # "none"
      /\ prog_done \in Nat /\ shown[2] \in Nat /\ shown[1] = "none" => shown[2] = 0
      /\ lock = "none" /\ shown[1] = phase => shown[2] <= prog_done
  BY <1>1 DEF PhaseInv, ShownInv
<1>5. phase # "Done"
  BY <1>3, <1>4
<1>6. ph \in {Phases(op)[i] : i \in 1..at} /\ ph # "none"
  BY <1>3
<1>7. CASE lock = "none" /\ phase # ph /\ lock' = "worker" /\ phase' = ph
           /\ UNCHANGED <<prog_done, worker, at>>
  <2>1. PhaseInv'
    BY <1>1, <1>3, <1>4, <1>6, <1>7 DEF PhaseInv
  <2>2. ShownInv'
    BY <1>1, <1>4, <1>7 DEF ShownInv
  <2> QED BY <2>1, <2>2
<1>8. CASE lock = "worker" /\ lock' = "none" /\ prog_done' = 0 /\ UNCHANGED <<phase, worker, at>>
  <2>1. PhaseInv'
    BY <1>1, <1>3, <1>4, <1>8 DEF PhaseInv
  <2>2. ShownInv'
    BY <1>1, <1>4, <1>8 DEF ShownInv
  <2> QED BY <2>1, <2>2
<1>9. CASE lock = "none" /\ phase = ph /\ prog_done' = prog_done + 1
           /\ UNCHANGED <<lock, phase, worker, at>>
  <2>1. PhaseInv'
    BY <1>1, <1>3, <1>4, <1>9 DEF PhaseInv
  <2>2. ShownInv'
    BY <1>1, <1>4, <1>9 DEF ShownInv
  <2> QED BY <2>1, <2>2
<1>10. CASE lock = "none" /\ phase = ph /\ at < n /\ at' = at + 1
            /\ UNCHANGED <<lock, phase, prog_done, worker>>
  <2>1. /\ at' \in 1..n /\ phase \in {Phases(op)[i] : i \in 1..at'}
        /\ shown[1] # Phases(op)[at'] /\ phase # Phases(op)[at']
        /\ \A i \in (at' + 1)..n : i \in (at + 1)..n
    BY <1>3, <1>4, <1>10
  <2>2. PhaseInv'
    BY <1>1, <1>4, <1>10, <2>1 DEF PhaseInv
  <2>3. ShownInv'
    BY <1>1, <1>4, <1>10 DEF ShownInv
  <2> QED BY <2>2, <2>3
<1>11. CASE lock = "none" /\ worker' \in {"finish", "failed"} /\ UNCHANGED <<lock, phase, prog_done>>
  <2>1. PhaseInv'
    BY <1>1, <1>4, <1>5, <1>11 DEF PhaseInv
  <2>2. ShownInv'
    BY <1>1, <1>4, <1>11 DEF ShownInv
  <2> QED BY <2>1, <2>2
<1> QED BY <1>7, <1>8, <1>9, <1>10, <1>11 DEF Work, set_phase

LEMMA ScreenShown ==
    AppInv /\ PhaseInv /\ ShownInv /\ (StartWorker \/ ProgressTick) => PhaseInv' /\ ShownInv'
<1> SUFFICES ASSUME AppInv, PhaseInv, ShownInv, StartWorker \/ ProgressTick
             PROVE  PhaseInv' /\ ShownInv'
  OBVIOUS
<1>1. CASE StartWorker
  <2>1. /\ shown' = <<"none", 0, 0>> /\ worker' = "run" /\ at' = 1 /\ phase' = "Connecting"
        /\ prog_done' = 0 /\ UNCHANGED <<op, lock>>
        /\ worker = "NULL" /\ lock = "none" /\ op \in Operations
    BY <1>1 DEF StartWorker, AppInv, Lifetimes, GuiInScene, Chosen, PhaseInv
  <2>2. /\ Len(Phases(op)) \in Nat \ {0} /\ Phases(op)[1] = "Connecting"
        /\ \A i \in 1..Len(Phases(op)) : Phases(op)[i] # "none"
    BY <2>1, PhasesAre
  <2>3. PhaseInv'
    BY <2>1, <2>2 DEF PhaseInv
  <2>4. ShownInv'
    BY <2>1 DEF ShownInv
  <2> QED BY <2>3, <2>4
<1>2. CASE ProgressTick
  <2>1. /\ shown' = <<phase, prog_done, prog_total>> /\ lock = "none"
        /\ UNCHANGED <<worker, at, op, phase, prog_done, lock>>
    BY <1>2 DEF ProgressTick, Readable, progress
  <2>2. worker # "NULL" /\ op \in Operations
    BY <1>2 DEF ProgressTick, Take, AppInv, Lifetimes, Chosen
  <2>3. /\ Len(Phases(op)) \in Nat
        /\ \A i, j \in 1..Len(Phases(op)) : Phases(op)[i] = Phases(op)[j] => i = j
        /\ \A i \in 1..Len(Phases(op)) : Phases(op)[i] \notin {"none", "Done"}
    BY <2>2, PhasesAre
  <2>4. ASSUME worker = "run"
        PROVE  /\ phase \notin {"none", "Done"}
               /\ \A i \in (at + 1)..Len(Phases(op)) : phase # Phases(op)[i]
    <3>1. PICK j \in 1..at : phase = Phases(op)[j]
      BY <2>4 DEF PhaseInv
    <3>2. at \in 1..Len(Phases(op)) /\ j \in 1..Len(Phases(op))
      BY <2>3, <2>4 DEF PhaseInv
    <3> QED BY <2>3, <3>1, <3>2
  <2>5. phase # "none"
    BY DEF PhaseInv
  <2>6. PhaseInv'
    BY <2>1, <2>4 DEF PhaseInv
  <2>7. ShownInv'
    BY <2>1, <2>5 DEF ShownInv
  <2> QED BY <2>6, <2>7
<1> QED BY <1>1, <1>2

LEMMA OthersShown ==
    AppInv /\ PhaseInv /\ ShownInv /\ [Next]_vars => PhaseInv' /\ ShownInv'
<1> SUFFICES ASSUME AppInv, PhaseInv, ShownInv, [Next]_vars  PROVE PhaseInv' /\ ShownInv'
  OBVIOUS
<1>1. CASE Finish
  BY <1>1 DEF Finish, PhaseInv, ShownInv
<1>2. CASE PostDone \/ ReturnFromThread \/ Join \/ updi_app_free
  BY <1>2 DEF PostDone, ReturnFromThread, Join, updi_app_free, PhaseInv, ShownInv, Joinable
<1>3. CASE Back
  BY <1>3 DEF Back, Joinable, PhaseInv, ShownInv
<1>4. CASE StartEvent
  <2>1. worker = "NULL" /\ UNCHANGED <<worker, at, phase, prog_done, lock, shown>>
    BY <1>4 DEF StartEvent, AppInv, Lifetimes
  <2> QED BY <2>1 DEF PhaseInv, ShownInv
<1>5. CASE UNCHANGED <<worker, at, op, phase, prog_done, lock, shown>>
  BY <1>5 DEF PhaseInv, ShownInv
<1> QED
  BY <1>1, <1>2, <1>3, <1>4, <1>5, WorkShown, ScreenShown
     DEF Next, Gui, Worker, User, vars, OtherEvent, StartTimer, ProgressIgnores, ProgressDone,
         Tick, Choose, Freed

\* The progress screen never shows a phase with the count of the one before it,
\* though set_phase writes its fields one after the other: it reads under the lock.
THEOREM ProgressIsForward == Spec => ProgressRunsForward
<1>1. AppInv /\ PhaseInv /\ ShownInv /\ [Next]_vars =>
          [shown'[1] = shown[1] => shown'[2] >= shown[2]]_vars
  <2> SUFFICES ASSUME AppInv, PhaseInv, ShownInv, Next, shown'[1] = shown[1]
               PROVE  shown'[2] >= shown[2]
    BY DEF vars
  <2>1. CASE StartWorker
    BY <2>1 DEF StartWorker, ShownInv
  <2>2. CASE ProgressTick
    <3>1. /\ shown' = <<phase, prog_done, prog_total>> /\ lock = "none" /\ worker # "NULL"
      BY <2>2 DEF ProgressTick, Readable, progress, Take, AppInv, Lifetimes
    <3> QED BY <3>1 DEF ShownInv
  <2>3. CASE shown' = shown
    BY <2>3 DEF ShownInv
  <2> QED
    BY <2>1, <2>2, <2>3
       DEF Next, Gui, Worker, User, StartEvent, OtherEvent, StartTimer, ProgressIgnores,
           ProgressDone, Join, updi_app_free, Work, Finish, PostDone, ReturnFromThread,
           Tick, Choose, Back, Freed, vars
<1>2. Spec => [](PhaseInv /\ ShownInv)
  BY ShownInit, OthersShown, Invariance, PTL DEF Spec
<1> QED BY <1>1, <1>2, Invariance, PTL DEF Spec, ProgressRunsForward
=============================================================================
