----------------------------- MODULE UpdiWorker -----------------------------
(***************************************************************************)
(* The operations of the application (ui/updi_worker.c) and the session    *)
(* functions they are made of (updi/updi_session.c), on top of UpdiNvm.    *)
(*                                                                         *)
(* wpc says which call the worker waits for, or what it does next; it      *)
(* moves only when UpdiNvm is not executing a function.  A user starts one *)
(* operation after the other (the progress scene admits no second one),    *)
(* closes the application, and plugs in another target in between.         *)
(*                                                                         *)
(* Publishing phase and progress to the GUI is left out.                   *)
(***************************************************************************)
EXTENDS UpdiNvm

CONSTANTS
    NFuses,         \* fuses of a device
    UserOps,        \* the operations a user starts
    PortCanBeBusy   \* the USART may be held by somebody else

Ops == {"Connect", "ChipErase", "Flash", "Verify", "Dump", "ReadFuses"}
EraseOps == {"Flash", "ChipErase"}      \* do_connect(app, true)

ASSUME WorkerAssumption ==
    /\ NFuses \in Nat \ {0}
    /\ UserOps \subseteq Ops
    /\ PortCanBeBusy \in BOOLEAN

VARIABLES
    wpc,        \* what the worker does, "idle" between operations
    op,         \* UpdiApp.op, "None" when none ran on this target yet
    result,     \* UpdiApp.result; while leaving progmode, what it will be
    retried,    \* do_connect has been through the unlock
    transport,  \* UpdiApp.transport: NULL, allocated and ready, or not ready
    device,     \* UpdiSession.device
    connected,  \* UpdiSession.connected
    file,       \* the HEX file the user picked
    cursor,     \* page or fuse the loop being executed is at
    \* History, for the properties:
    asked,      \* an operation that may erase was started on this target
    budget,     \* faults when the operation started
    wasLocked   \* the target was locked when the operation started

workerVars == <<wpc, op, result, retried, transport, device, connected, file,
                cursor>>
history == <<asked, budget, wasLocked>>
vars == <<nvmVars, workerVars, history>>

WorkerPlaces ==
    {"idle", "crashed", "transport", "connect", "activate", "sib", "enter",
     "signature", "unlock", "body", "parse", "erase", "write", "write_page",
     "verify", "verify_page", "dump", "dump_page", "save", "fuses", "fuse",
     "disconnect"}

\* A HEX file is refused, or it fills an image: the pages up to max_offset,
\* the rest is the 0xFF the image was initialised with.
Images == {i \in [len : 0..NPages, page : [Pages -> Data \cup {"blank"}]] :
               \A p \in Pages : p > i.len => i.page[p] = "blank"}
BadFile == [len |-> 0, page |-> Filled("old")]

-----------------------------------------------------------------------------
(* Calling and returning *)

Call(entry, place) ==
    /\ Invoke(entry, 1, "blank")
    /\ wpc' = place
    /\ UNCHANGED <<dev, op, result, retried, transport, device, connected, file, cursor>>

CallPage(entry, page, data, place) ==
    /\ Invoke(entry, page, data)
    /\ wpc' = place
    /\ UNCHANGED <<dev, op, result, retried, transport, device, connected, file, cursor>>

Goto(place, at) ==
    /\ wpc' = place
    /\ cursor' = at
    /\ UNCHANGED <<nvmVars, op, result, retried, transport, device, connected, file>>

\* return st;
Return(st) ==
    /\ wpc' = "idle"
    /\ result' = st
    /\ UNCHANGED <<nvmVars, op, retried, transport, device, connected, file, cursor>>

\* updi_session_disconnect(&app->session); return st;
DisconnectAndReturn(st) ==
    /\ Invoke("leave", 1, "blank")
    /\ wpc' = "disconnect"
    /\ result' = st
    /\ UNCHANGED <<dev, op, retried, transport, device, connected, file, cursor>>

At(place) == wpc = place /\ pc = "ret"

-----------------------------------------------------------------------------
(* do_connect: ensure_transport, updi_session_connect, updi_session_unlock *)

\* An allocated transport is not looked at again, ready or not; without
\* updi_session_init the link has no transport and the first send crashes.
EnsureTransport ==
    /\ At("transport")
    /\ \/ /\ transport = "NULL"
          /\ transport' = "ready"
          /\ wpc' = "connect" /\ UNCHANGED result
       \/ /\ transport = "NULL" /\ PortCanBeBusy
          /\ transport' = "not_ready"
          /\ wpc' = "idle" /\ result' = "ErrTransport"
       \/ /\ transport = "ready"
          /\ wpc' = "connect" /\ UNCHANGED <<transport, result>>
       \/ /\ transport = "not_ready"
          /\ wpc' = "crashed" /\ UNCHANGED <<transport, result>>
    /\ UNCHANGED <<nvmVars, op, retried, device, connected, file, cursor>>

\* A bug: do_connect without allow_erase.
ConnectFailedErases(st) ==
    IF st = "ErrLocked" /\ ~retried
    THEN /\ Invoke("unlock", 1, "blank")
         /\ wpc' = "unlock"
         /\ retried' = TRUE
         /\ UNCHANGED <<dev, op, result, transport, device, connected, file, cursor>>
    ELSE Return(st)

\* An error of updi_session_connect in do_connect.
ConnectFailed(st) ==
    IF st = "ErrLocked" /\ op \in EraseOps /\ ~retried
    THEN /\ Invoke("unlock", 1, "blank")
         /\ wpc' = "unlock"
         /\ retried' = TRUE
         /\ UNCHANGED <<dev, op, result, transport, device, connected, file, cursor>>
    ELSE Return(st)

\* A bug: the session of the last operation is not forgotten.
SessionConnectKeeps == At("connect") /\ Call("activate", "activate")

SessionConnect ==
    /\ At("connect")
    /\ Invoke("activate", 1, "blank")
    /\ wpc' = "activate"
    /\ connected' = FALSE
    /\ device' = "NULL"
    /\ UNCHANGED <<dev, op, result, retried, transport, file, cursor>>

Activated ==
    /\ At("activate")
    /\ IF ret = "Ok" THEN Call("sib", "sib") ELSE ConnectFailed(ret)

\* updi_nvm_init(&s->nvm, &s->link, NULL)
SibRead ==
    /\ At("sib")
    /\ IF ret = "Ok"
       THEN /\ Invoke("enter", 1, "blank")
            /\ dev' = "NULL"
            /\ wpc' = "enter"
            /\ UNCHANGED <<op, result, retried, transport, device, connected, file, cursor>>
       ELSE ConnectFailed(ret)

Entered ==
    /\ At("enter")
    /\ IF ret = "Ok" THEN Call("signature", "signature") ELSE ConnectFailed(ret)

\* updi_device_find_by_id
Known(chip) == chip \in {"P0", "P3"}

Identified ==
    /\ At("signature")
    /\ IF ret = "Ok" /\ Known(val)
       THEN /\ dev' = val
            /\ device' = val
            /\ connected' = TRUE
            /\ wpc' = "body"
            /\ UNCHANGED <<tgt, faults, pc, ret, val, poll, arg, op, result,
                           retried, transport, file, cursor>>
       ELSE ConnectFailed(IF ret = "Ok" THEN "ErrUnsupported" ELSE ret)

Unlocked ==
    /\ At("unlock")
    /\ IF ret = "Ok" THEN Goto("connect", cursor) ELSE Return(ret)

DoConnect ==
    \/ EnsureTransport \/ SessionConnect \/ Activated \/ SibRead \/ Entered
    \/ Identified \/ Unlocked

-----------------------------------------------------------------------------
(* The operations, once connected                                          *)

\* A bug: op_flash erases while it has the target, then reads the file.
BodyErasesFirst ==
    /\ At("body")
    /\ CASE op = "Connect"   -> DisconnectAndReturn("Ok")
         [] op = "Verify"    -> Goto("parse", 1)
         [] op = "Dump"      -> Goto("dump", 1)
         [] op = "ReadFuses" -> Goto("fuses", 1)
         [] OTHER            -> Call("chip_erase", "erase")

Body ==
    /\ At("body")
    /\ CASE op = "Connect"   -> DisconnectAndReturn("Ok")
         [] op = "ChipErase" -> Call("chip_erase", "erase")
         [] op = "Dump"      -> Goto("dump", 1)
         [] op = "ReadFuses" -> Goto("fuses", 1)
         [] OTHER            -> Goto("parse", 1)

\* parse_hex_file; the target stays in programming mode when it fails.
ParseHexFile ==
    /\ At("parse")
    /\ IF file = BadFile THEN Return("ErrParam")
       ELSE IF op = "Flash" THEN Call("chip_erase", "erase")
       ELSE Goto("verify", 1)

\* Bugs: the status of the erase is not looked at.
ErasedReportsOk ==
    /\ At("erase")
    /\ IF op = "ChipErase" THEN DisconnectAndReturn("Ok")
       ELSE IF ret = "Ok" THEN Goto("write", 1)
       ELSE Return(ret)

ErasedGoesOn ==
    /\ At("erase")
    /\ IF op = "ChipErase" THEN DisconnectAndReturn(ret) ELSE Goto("write", 1)

Erased ==
    /\ At("erase")
    /\ IF op = "ChipErase" THEN DisconnectAndReturn(ret)
       ELSE IF ret = "Ok" THEN Goto("write", 1)
       ELSE Return(ret)

\* updi_session_write_flash: pages that are all 0xFF are skipped.
WriteFlash ==
    /\ At("write")
    /\ IF cursor > file.len THEN Goto("verify", 1)
       ELSE IF file.page[cursor] = "blank" THEN Goto("write", cursor + 1)
       ELSE CallPage("write_page", cursor, file.page[cursor], "write_page")

PageWritten ==
    /\ At("write_page")
    /\ IF ret = "Ok" THEN Goto("write", cursor + 1) ELSE Return(ret)

\* Bugs: the loop ends a page early, or a page late.
VerifyFlashShort ==
    /\ At("verify")
    /\ IF cursor >= file.len THEN DisconnectAndReturn("Ok")
       ELSE CallPage("read", cursor, "blank", "verify_page")

VerifyFlashLong ==
    /\ At("verify")
    /\ IF cursor > file.len + 1 THEN DisconnectAndReturn("Ok")
       ELSE CallPage("read", cursor, "blank", "verify_page")

\* updi_session_verify_flash
VerifyFlash ==
    /\ At("verify")
    /\ IF cursor > file.len THEN DisconnectAndReturn("Ok")
       ELSE CallPage("read", cursor, "blank", "verify_page")

\* A bug: what was read is not compared.
PageVerifiedUnseen ==
    /\ At("verify_page")
    /\ IF ret # "Ok" THEN DisconnectAndReturn(ret) ELSE Goto("verify", cursor + 1)

PageVerified ==
    /\ At("verify_page")
    /\ IF ret # "Ok" THEN DisconnectAndReturn(ret)
       ELSE IF val # file.page[cursor] THEN DisconnectAndReturn("ErrVerify")
       ELSE Goto("verify", cursor + 1)

\* updi_session_read_flash, then the file on the SD card.
DumpFlash ==
    /\ At("dump")
    /\ IF cursor > NPages THEN Goto("save", cursor)
       ELSE CallPage("read", cursor, "blank", "dump_page")

PageDumped ==
    /\ At("dump_page")
    /\ IF ret = "Ok" THEN Goto("dump", cursor + 1) ELSE Return(ret)

SaveDump ==
    /\ At("save")
    /\ \/ Return("ErrParam")                    \* the file cannot be opened
       \/ DisconnectAndReturn("Ok")
       \/ DisconnectAndReturn("ErrParam")       \* a write failed

\* updi_session_read_fuses
ReadFuses ==
    /\ At("fuses")
    /\ IF cursor > NFuses THEN DisconnectAndReturn("Ok") ELSE Call("fuse", "fuse")

FuseRead ==
    /\ At("fuse")
    /\ IF ret = "Ok" THEN Goto("fuses", cursor + 1) ELSE DisconnectAndReturn(ret)

Disconnected ==
    /\ At("disconnect")
    /\ wpc' = "idle"
    /\ connected' = FALSE
    /\ UNCHANGED <<nvmVars, op, result, retried, transport, device, file, cursor>>

Operation ==
    \/ Body \/ ParseHexFile \/ Erased \/ WriteFlash \/ PageWritten
    \/ VerifyFlash \/ PageVerified \/ DumpFlash \/ PageDumped \/ SaveDump
    \/ ReadFuses \/ FuseRead \/ Disconnected

-----------------------------------------------------------------------------
(* The user *)

\* updi_worker_start, after a file was picked for Flash and Verify.  Nothing the
\* last operation left running in the target takes as long as the user does.
Start(o) ==
    /\ wpc = "idle"
    /\ wpc' = "transport"
    /\ op' = o
    /\ result' = "Ok"
    /\ retried' = FALSE
    /\ \E f \in IF o \in {"Flash", "Verify"} THEN Images \cup {BadFile} ELSE {BadFile} :
          file' = f
    /\ cursor' = 1
    /\ asked' = (asked \/ o \in EraseOps)
    /\ budget' = faults
    /\ wasLocked' = tgt.locked
    /\ tgt' = Settle(tgt)
    /\ UNCHANGED <<faults, pc, ret, val, poll, arg, dev, transport, device, connected>>

\* The application is closed, or restarted after a crash (updi_app_alloc).
Relaunch ==
    /\ wpc \in {"idle", "crashed"}
    /\ wpc' = "idle"
    /\ op' = "None"
    /\ result' = "Ok"
    /\ retried' = FALSE
    /\ transport' = "NULL"
    /\ device' = "NULL" /\ dev' = "NULL"
    /\ connected' = FALSE
    /\ file' = BadFile
    /\ cursor' = 1
    /\ UNCHANGED <<tgt, faults, pc, ret, val, poll, arg, history>>

\* Another target is plugged in, or the wire is pulled off.
SwapTarget ==
    /\ wpc = "idle"
    /\ tgt' \in FreshTargets
    /\ op' = "None"
    /\ asked' = FALSE
    /\ wasLocked' = FALSE
    /\ UNCHANGED <<faults, pc, ret, val, poll, arg, dev, wpc, result, retried,
                   transport, device, connected, file, cursor, budget>>

-----------------------------------------------------------------------------

Init ==
    /\ NvmInit
    /\ wpc = "idle"
    /\ op = "None"
    /\ result = "Ok"
    /\ retried = FALSE
    /\ transport = "NULL"
    /\ device = "NULL"
    /\ connected = FALSE
    /\ file = BadFile
    /\ cursor = 1
    /\ asked = FALSE
    /\ budget = MaxFaults
    /\ wasLocked = FALSE

\* The worker thread runs until the operation is over.
WorkerStep ==
    \/ NvmStep /\ UNCHANGED <<workerVars, history>>
    \/ (DoConnect \/ Operation) /\ UNCHANGED history

Environment ==
    \/ PowerCycle /\ UNCHANGED <<workerVars, history>>
    \/ \E o \in UserOps : Start(o)
    \/ Relaunch \/ SwapTarget

Next == WorkerStep \/ Environment

-----------------------------------------------------------------------------
(* Properties.  An operation is over when wpc is "idle" again.             *)

\* The C types of app, session and loop counters, over the values they take.
TypeOK ==
    /\ NvmTypeOK
    /\ wpc \in WorkerPlaces
    /\ op \in Ops \cup {"None"}
    /\ result \in Statuses
    /\ retried \in BOOLEAN
    /\ transport \in {"NULL", "ready", "not_ready"}
    /\ device \in {"P0", "P3", "NULL"}
    /\ connected \in BOOLEAN
    /\ file \in Images \cup {BadFile}
    /\ cursor \in Nat \ {0}
    /\ asked \in BOOLEAN
    /\ budget \in 0..MaxFaults
    /\ wasLocked \in BOOLEAN

Over(o) == wpc = "idle" /\ op = o

\* No fault happened since the operation started.
Undisturbed == faults = budget

(***************************************************************************)
(* The content of a target is erased or written only after the user        *)
(* started an operation on it that may do so (Flash, Chip Erase), whatever *)
(* failed on the way: a chip-erase key that is left armed in the target    *)
(* erases at the next reset, which Connect or Verify may issue.            *)
(***************************************************************************)
ErasedOnRequest == (\E p \in Pages : tgt.flash[p] # "old") => asked

(***************************************************************************)
(* When a Flash or a Verify finds its image and starts to leave            *)
(* programming mode, the flash holds the image up to its end, and after a  *)
(* Flash all of the flash does, although frames of the block writes can be *)
(* lost without any error, and 0xFF pages are neither written nor, beyond  *)
(* max_offset, read back.                                                  *)
(***************************************************************************)
VerifiedMeansEqual ==
    pc = "leave" /\ result = "Ok" =>
        /\ op = "Verify" => \A p \in 1..file.len : tgt.flash[p] = file.page[p]
        /\ op = "Flash" => tgt.flash = file.page

(***************************************************************************)
(* "Write + read-back verify passed": the same once the operation is over. *)
(* It takes two faults to break it: a chip-erase key armed by an operation *)
(* that failed outlives the next, successful one, whose reset on leaving   *)
(* programming mode then erases what was verified.                         *)
(***************************************************************************)
FlashOkMeansProgrammed == Over("Flash") /\ result = "Ok" => tgt.flash = file.page

\* After a Chip Erase that reports UpdiOk the target is blank and unlocked.
EraseOkMeansBlank ==
    Over("ChipErase") /\ result = "Ok" =>
        tgt.flash = Filled("blank") /\ ~tgt.locked

\* write_flash_page "assumes the page is already erased": it is.
WritesBlankPages ==
    pc = "write_cmd" /\ Accessible(tgt) => tgt.flash[arg.page] = "blank"

(***************************************************************************)
(* Between connect and disconnect the target is unlocked, in programming   *)
(* mode and the device is the right one, unless it lost power (and UPDI    *)
(* with it).                                                               *)
(***************************************************************************)
ConnectedMeansProgmode ==
    connected /\ wpc \notin {"idle", "transport", "connect", "disconnect"} =>
        \/ tgt.dis
        \/ tgt.prog /\ tgt.boot = 0 /\ ~tgt.locked /\ device = tgt.chip

(***************************************************************************)
(* Connect tells what is on the wire whatever state an earlier, disturbed  *)
(* operation left the target in: held in reset, in programming mode, keys  *)
(* armed, acknowledgements off.                                            *)
(***************************************************************************)
ConnectReportsTarget ==
    Over("Connect") /\ Undisturbed /\ transport = "ready" =>
        result = IF tgt.chip = "none" THEN "ErrTimeout"
                 ELSE IF tgt.locked THEN "ErrLocked"
                 ELSE IF ~Known(tgt.chip) THEN "ErrUnsupported"
                 ELSE "Ok"

(***************************************************************************)
(* An undisturbed Flash of a good file succeeds on every supported target, *)
(* locked or not, after anything that happened in earlier operations.  One *)
(* thing lasts: a write error in NVMCTRL, which the first wait_nvm_ready   *)
(* reports again until some operation resets the target.                   *)
(***************************************************************************)
FlashRecovers ==
    Over("Flash") /\ Undisturbed /\ transport = "ready" /\ file # BadFile
        /\ Known(tgt.chip) /\ ~tgt.wrerr
    => result = "Ok"

(***************************************************************************)
(* After an operation that reports UpdiOk the application of the target    *)
(* runs.  It takes three faults to break it: a target found in programming *)
(* mode can be left with an NVMProg key armed by an attempt that failed,   *)
(* and the reset on leaving then enters programming mode again.            *)
(***************************************************************************)
OkMeansRunning ==
    wpc = "idle" /\ op # "None" /\ result = "Ok" /\ Undisturbed => Running(tgt)

(***************************************************************************)
(* The file is read before the flash is erased: an undisturbed Flash with  *)
(* a file that is refused leaves an unlocked target as it was, whatever an *)
(* earlier operation has left armed in it because of one fault.  It takes  *)
(* two to break it: the first makes an open target look locked, the second *)
(* ends the unlock with its key armed.                                     *)
(***************************************************************************)
BadFileKeepsFlash ==
    [][op = "Flash" /\ op' = op /\ file = BadFile /\ ~wasLocked /\ Undisturbed
          => tgt'.flash = tgt.flash]_vars

\* Every operation comes to its end, also when nobody answers (not a hang).
OperationsEnd == wpc # "idle" ~> wpc \in {"idle", "crashed"}

(* What the documentation says and the code does not do.                   *)

\* updi_link.h: UpdiErrLocked means the device is locked.
LockedMeansLocked == wpc = "idle" /\ result = "ErrLocked" => tgt.locked

\* README: "Serial busy/failed" goes away when the USART is given free.
BusyPortCanBeRetried == wpc # "crashed"

-----------------------------------------------------------------------------
\* The scheduler keeps running the worker thread; nobody has to use the app.
Spec == Init /\ [][Next]_vars /\ WF_vars(WorkerStep)
=============================================================================
