------------------------------ MODULE UpdiApp ------------------------------
(***************************************************************************)
(* The application around the operations: updi_prog.c, ui/updi_scenes.c    *)
(* and the thread of ui/updi_worker.c.  Four actors share the app object:  *)
(* the user, the GUI thread with its event queue, the worker thread and    *)
(* the periodic timer.  What an operation does to the target is the        *)
(* business of UpdiWorker; here it passes its phases and ends.             *)
(*                                                                         *)
(* The firmware's queue, scene manager and timer are external: the queue   *)
(* is bounded and a thread that posts to a full one waits, stopping a      *)
(* timer ends its callbacks.  The GUI thread never falls behind by a       *)
(* queue of ticks (16 of them, two seconds), so that a tick finds room     *)
(* as long as anybody takes events out.                                    *)
(***************************************************************************)
EXTENDS Naturals, Sequences, SequencesExt

CONSTANTS
    Items,          \* the menu items that get chosen
    QueueLen,       \* of the event queue
    Total           \* of the progress of a phase

ASSUME UpdiAppAssumption ==
    /\ Items \subseteq {"Connect", "Flash", "Verify", "Dump", "ChipErase", "ReadFuses",
                        "Settings", "About"}
    /\ QueueLen \in Nat \ {0, 1} /\ Total \in Nat \ {0}

VARIABLES
    stack,      \* of the scene manager
    gui,        \* what the GUI thread is doing
    queue,      \* custom events
    timer,      \* app->timer: running or NULL
    worker,     \* app->worker: where the thread is, or "NULL"
    at,         \* the phase it works at
    op, phase, prog_done, prog_total, result,
    lock,       \* who holds app->lock
    shown,      \* what the progress screen says
    asked       \* ghost: the items chosen and not yet forgotten

vars == <<stack, gui, queue, timer, worker, at, op, phase, prog_done, prog_total, result, lock,
          shown, asked>>

Operations == {"Connect", "Flash", "Verify", "Dump", "ChipErase", "ReadFuses"}
Scene == Last(stack)
Room == Len(queue) < QueueLen
Post(event) == Room /\ queue' = Append(queue, event)

Phases(o) ==
    CASE o = "Flash" -> <<"Connecting", "ReadingFile", "Erasing", "Writing", "Verifying">>
      [] o = "Verify" -> <<"Connecting", "ReadingFile", "Verifying">>
      [] o = "Dump" -> <<"Connecting", "Reading">>
      [] o = "ChipErase" -> <<"Connecting", "Erasing">>
      [] OTHER -> <<"Connecting">>
Counted == {"Writing", "Verifying", "Reading"}

Init ==
    /\ stack = <<"Start">> /\ gui = "loop" /\ queue = <<>> /\ timer = FALSE
    /\ worker = "NULL" /\ op = "None" /\ phase = "Connecting" /\ prog_done = 0 /\ prog_total = 0
    /\ at = 1 /\ result = "Ok" /\ lock = "none" /\ shown = <<"none", 0, 0>> /\ asked = {}

-----------------------------------------------------------------------------
(* The worker thread.                                                      *)

progress == <<phase, prog_done, prog_total>>

\* set_phase writes its fields one after the other, under the lock.
set_phase(ph, total) ==
    \/ /\ lock = "none" /\ phase # ph
       /\ lock' = "worker" /\ phase' = ph
       /\ UNCHANGED <<prog_done, prog_total>>
    \/ /\ lock = "worker"
       /\ lock' = "none" /\ prog_done' = 0 /\ prog_total' = total
       /\ UNCHANGED phase

Work ==
    /\ worker = "run"
    /\  LET ph == Phases(op)[at]
            total == IF ph \in Counted THEN Total ELSE 0
        IN     \/ /\ set_phase(ph, total)
                  /\ UNCHANGED <<worker, at, result>>
               \/ /\ lock = "none" /\ phase = ph /\ prog_total = total
                  /\ prog_done < total                      \* worker_progress
                  /\ prog_done' = prog_done + 1
                  /\ UNCHANGED <<lock, phase, prog_total, worker, at, result>>
               \/ /\ lock = "none" /\ phase = ph /\ prog_done = total
                  /\ IF at < Len(Phases(op)) THEN at' = at + 1 /\ UNCHANGED worker
                     ELSE worker' = "finish" /\ UNCHANGED at
                  /\ UNCHANGED <<lock, phase, prog_done, prog_total, result>>
               \/ /\ lock = "none" /\ phase = ph            \* or it fails
                  /\ worker' = "failed"
                  /\ UNCHANGED <<at, lock, phase, prog_done, prog_total, result>>
    /\ UNCHANGED <<stack, gui, queue, timer, op, shown, asked>>

\* The status and UpdiPhaseDone, under the lock.
Finish ==
    /\ worker \in {"finish", "failed"} /\ lock = "none"
    /\ result' = IF worker = "finish" THEN "Ok" ELSE "Err"
    /\ phase' = "Done" /\ worker' = "post"
    /\ UNCHANGED <<stack, gui, queue, timer, at, op, prog_done, prog_total, lock, shown, asked>>

PostDone ==
    /\ worker = "post"
    /\ Post("WorkerDone")
    /\ worker' = "posted"
    /\ UNCHANGED <<stack, gui, timer, at, op, phase, prog_done, prog_total, result, lock, shown, asked>>

\* The event may be taken before the thread has returned.
ReturnFromThread ==
    /\ worker = "posted"
    /\ worker' = "returned"
    /\ UNCHANGED <<stack, gui, queue, timer, at, op, phase, prog_done, prog_total, result, lock,
                   shown, asked>>

-----------------------------------------------------------------------------
(* The timer and the user.                                                 *)

Tick ==
    /\ timer /\ gui # "freed"
    /\ Post("Tick")
    /\ UNCHANGED <<stack, gui, timer, worker, at, op, phase, prog_done, prog_total, result, lock,
                   shown, asked>>

\* An item of the menu; the event is its index.
Choose ==
    /\ gui = "loop" /\ Scene = "Start"
    /\ \E i \in Items :
        /\ Post(i)
        /\ asked' = asked \cup {i}
    /\ UNCHANGED <<stack, gui, timer, worker, at, op, phase, prog_done, prog_total, result, lock, shown>>

\* The items still in the queue when Start is entered again.
Pending == Range(queue) \cap Items

\* A bug: Back leaves the progress screen.
BackLeavesProgress == {}
BackBlocked == {"Progress"}

\* furi_thread_join waits for the thread to return.
Joinable == worker \in {"NULL", "returned"}

\* scene_manager_search_and_switch_to_previous_scene
ToStart == <<"Start">>

\* Back: blocked by Progress, to Start from everywhere else, out of Start.
Back ==
    /\ gui = "loop" /\ Scene \notin BackBlocked
    /\ \/ /\ Scene = "Start"
          /\ gui' = "leaving"
          /\ UNCHANGED <<stack, timer, worker, asked>>
       \/ /\ Scene # "Start" /\ Joinable     \* updi_worker_join
          /\ stack' = ToStart /\ asked' = Pending
          /\ timer' = FALSE /\ worker' = "NULL"
          /\ UNCHANGED gui
    /\ UNCHANGED <<queue, at, op, phase, prog_done, prog_total, result, lock, shown>>

-----------------------------------------------------------------------------
(* The GUI thread.                                                         *)

\* A bug: the ids of the progress events are among those of the menu.
IdsOverlap(event) == IF event = "Tick" THEN "ChipErase" ELSE event

\* UpdiCustomEventTick is 1000, an item is its index in the menu.
Id(event) == event

Take(event) == gui = "loop" /\ queue # <<>> /\ Head(queue) = event /\ queue' = Tail(queue)

\* updi_scene_start_on_event; a file dialog may be cancelled.
StartEvent ==
    /\ gui = "loop" /\ Scene = "Start" /\ queue # <<>>
    /\ LET item == Id(Head(queue))
       IN  \/ /\ item \in Operations
              /\ op' = item /\ stack' = Append(stack, "Progress") /\ gui' = "entering"
           \/ /\ item \in {"Settings", "About"}
              /\ stack' = Append(stack, item) /\ UNCHANGED <<op, gui>>
           \/ /\ item \in {"Flash", "Verify", "Tick", "WorkerDone"}
              /\ UNCHANGED <<op, stack, gui>>
    /\ queue' = Tail(queue)
    /\ UNCHANGED <<timer, worker, at, phase, prog_done, prog_total, result, lock, shown, asked>>

\* The other scenes take no custom event.
OtherEvent ==
    /\ gui = "loop" /\ Scene \notin {"Start", "Progress"} /\ queue # <<>>
    /\ queue' = Tail(queue)
    /\ UNCHANGED <<stack, gui, timer, worker, at, op, phase, prog_done, prog_total, result, lock,
                   shown, asked>>

\* updi_scene_progress_on_enter: "Starting...", the worker, then the timer.
StartWorker ==
    /\ gui = "entering"
    /\ shown' = <<"none", 0, 0>>
    /\ worker' = "run" /\ at' = 1 /\ result' = "Ok"
    /\ prog_done' = 0 /\ prog_total' = 0 /\ phase' = "Connecting"
    /\ gui' = "timing"
    /\ UNCHANGED <<stack, queue, timer, op, lock, asked>>

StartTimer ==
    /\ gui = "timing"
    /\ timer' = TRUE /\ gui' = "loop"
    /\ UNCHANGED <<stack, queue, worker, at, op, phase, prog_done, prog_total, result, lock, shown, asked>>

\* A bug: the progress is read without the lock.
Unlocked == TRUE
Readable == lock = "none"

ProgressTick ==
    /\ Scene = "Progress" /\ Take("Tick")
    /\ Readable
    /\ shown' = progress
    /\ UNCHANGED <<stack, gui, timer, worker, at, op, phase, prog_done, prog_total, result, lock, asked>>

\* Items chosen twice arrive here too, and are not for this scene.
ProgressIgnores ==
    /\ Scene = "Progress" /\ gui = "loop" /\ queue # <<>> /\ Head(queue) \in Items
    /\ queue' = Tail(queue)
    /\ UNCHANGED <<stack, gui, timer, worker, at, op, phase, prog_done, prog_total, result, lock,
                   shown, asked>>

\* A bug: the timer is left running.
TimerKept == timer
TimerStopped == FALSE

ProgressDone ==
    /\ Scene = "Progress" /\ Take("WorkerDone")
    /\ timer' = TimerStopped
    /\ gui' = "joining"
    /\ UNCHANGED <<stack, worker, at, op, phase, prog_done, prog_total, result, lock, shown, asked>>

\* updi_worker_join, and on to the scene of the result.
Join ==
    /\ gui = "joining" /\ Joinable
    /\ worker' = "NULL" /\ gui' = "loop"
    /\ stack' = Append(stack, CASE result = "Ok" /\ op = "Connect" -> "DeviceInfo"
                                [] result = "Ok" /\ op = "ReadFuses" -> "Fuses"
                                [] OTHER -> "Result")
    /\ UNCHANGED <<queue, timer, at, op, phase, prog_done, prog_total, result, lock, shown, asked>>

-----------------------------------------------------------------------------
(* The end: updi_app_free.                                                 *)

updi_app_free ==
    /\ gui = "leaving" /\ Joinable
    /\ gui' = "freed" /\ worker' = "NULL"
    /\ UNCHANGED <<stack, queue, timer, at, op, phase, prog_done, prog_total, result, lock, shown, asked>>

Freed == gui = "freed" /\ UNCHANGED vars

Gui ==
    \/ StartEvent \/ OtherEvent \/ StartWorker \/ StartTimer \/ ProgressTick \/ ProgressIgnores
    \/ ProgressDone \/ Join \/ updi_app_free
Worker == Work \/ Finish \/ PostDone \/ ReturnFromThread
User == Choose \/ Back

Next == Gui \/ Worker \/ Tick \/ User \/ Freed

Spec == Init /\ [][Next]_vars

\* Both threads run; a thread that waits for room in the queue gets it before
\* those who come later do.  Nothing is assumed of the user and of the timer.
FairSpec ==
    /\ Spec
    /\ WF_vars(Gui) /\ WF_vars(Work) /\ WF_vars(Finish) /\ SF_vars(PostDone)
    /\ WF_vars(ReturnFromThread)

-----------------------------------------------------------------------------

\* The end of an operation is announced once, and only to the progress screen
\* of that operation: none is left in the queue for the next one.
NoStaleDone ==
    LET done == {i \in DOMAIN queue : queue[i] = "WorkerDone"}
    IN  done # {} =>
            /\ Scene = "Progress" /\ gui # "entering"
            /\ worker \in {"posted", "returned"} /\ \A i, j \in done : i = j

\* Outside of the progress screen nothing runs: settings and menu may touch the
\* transport and app->op, and when the app object is freed nobody uses it.
IdleOutsideProgress == Scene # "Progress" => worker = "NULL" /\ ~timer

\* What the progress screen says of a phase never runs backwards: a phase is not
\* shown with the count of the one before it.
ProgressRunsForward ==
    [][shown'[1] = shown[1] => shown'[2] >= shown[2]]_vars

\* A worker is started only for an item that was chosen, when none is there.
StartsAreAsked ==
    [][StartWorker => op \in asked /\ worker = "NULL" /\ ~timer]_vars

Reports == {"Result", "DeviceInfo", "Fuses"}
Ended == Scene = "Progress" /\ worker \in {"post", "posted", "returned"}

\* The operation on the screen: from the choice in the menu to the way back.
OpState ==
    CASE Ended -> "ended"
      [] Scene = "Progress" /\ ~Ended -> "running"
      [] Scene \in Reports -> "reported"
      [] OTHER -> "idle"
OpOutcome == IF Ended \/ Scene \in Reports THEN result ELSE "none"

Cycle == INSTANCE OperationCycle WITH
    Outcomes <- {"Ok", "Err"}, what <- op, state <- OpState, outcome <- OpOutcome

\* Every operation that is begun comes to its end, its own result is what the
\* screen after it reports, whatever else is in the queue, and no other one is
\* begun before the user has gone back.
ImplementsCycle == Cycle!Spec
=============================================================================
