----------------------------- MODULE SerialUpdi -----------------------------
(***************************************************************************)
(* The pymcuprog reference from the tool's provider down to the wire:      *)
(* nvmserialupdi.py and serialupdi/application.py over the NVM drivers     *)
(* (SerialUpdiNvm) and the data link (SerialUpdiLink), under a caller that *)
(* calls anything in any order, also after an exception.                   *)
(*                                                                         *)
(* The functions are programs, sequences of accesses to the target; an     *)
(* action below carries out the first access of what is left to do.        *)
(***************************************************************************)
EXTENDS SerialUpdiLink, SerialUpdiNvm

CONSTANTS
    Setups,         \* ways to use the tool: by name, a record of
                    \*   targets  those that get plugged in: by their NVM interface,
                    \*            lock bits, and having the expected signature or not
                    \*   options  what the tool was started with
                    \*   calls    the calls the caller may make
                    \*   busy     how long NVMCTRL may take
    BootMs,         \* how long the core may take
    PollMs,         \* how long one poll takes
    MaxFaults,      \* of the wire and the adapter
    Stalls          \* the host may stand still, or its clock be set

\* The memories of a pack, and what a caller may ask of them.
Memories == Areas \cup {"flash"}
Requests ==
    [f : {"construct", "start", "read_device_id", "hold_in_reset", "release_from_reset",
          "write_data", "stop"}, m : {"none"}]
    \cup [f : {"read", "write"}, m : Memories] \cup [f : {"erase"}, m : Memories \cup {"none"}]

ASSUME SetupsAssumption ==
    \A s \in DOMAIN Setups :
        /\ Setups[s].targets \subseteq
                [nvm : Variants, lockbits : {"old", "new"}, expected : BOOLEAN]
        /\ Setups[s].calls \subseteq Requests
        /\ Setups[s].busy \subseteq Nat

ASSUME BootAssumption == BootMs \subseteq Nat
ASSUME PollAssumption == PollMs \in Nat \ {0}
ASSUME FaultsAssumption == MaxFaults \in Nat
ASSUME StallsAssumption == Stalls \in BOOLEAN

VARIABLES
    setup,      \* one of DOMAIN Setups
    tgt,        \* the target
    avr,        \* the UpdiApplication object: driver, address width, last SIB
    todo,       \* what is left of the call
    call,       \* the call the caller made last
    exc,        \* how it ended
    waited,     \* ms since the current Timeout was started
    faults,
    before,     \* ghost: the memories, CTRLA and the session when it was made
    luck,       \* ghost: how the wire behaved since
    session,    \* ghost: how far a session got that nothing disturbed
    asked,      \* ghost: what the call asks for; and an erase that is pending
    short       \* the data read so far lack some bytes

vars == <<setup, tgt, avr, todo, call, exc, waited, faults, before, luck, session, asked, short>>

Options == Setups[setup].options
Calls == Setups[setup].calls
BusyMs == Setups[setup].busy

NoAvr == [drv |-> "none", width |-> 24, sib |-> "None", built |-> FALSE]

-----------------------------------------------------------------------------
(* link.py and physical.py: initialisation                                 *)

stcs(reg) == Do("stcs", reg)
key(k) == Do("key", k)
send_double_break == Do("double_break", "none")

init_session_parameters == stcs("CTRLB") \o stcs("CTRLA")

init_datalink ==
    init_session_parameters
    \o If("check_datalink", <<>>,
          send_double_break \o init_session_parameters
          \o If("check_datalink", <<>>, Raise("UpdiError")))

-----------------------------------------------------------------------------
(* application.py                                                          *)

reset(apply) == stcs(IF apply THEN "RESET_REQ" ELSE "RESET_REQ_off")

read_sib == <<[op |-> "sib"]>>
use(drv) == <<[op |-> "use", drv |-> drv]>>
read_data_op(then, else) == If("read_data", then, else)
Missing == <<[op |-> "short"]>>

\* The drivers by what the SIB says; the link stays what it was but for P:0.
select(sib) ==
    CASE sib = "P0" -> init_datalink \o use("P0")
      [] sib \in {"P2", "P3", "P4", "P5"} -> use(sib)
      [] OTHER -> <<>>

\* The ID and the revision are indexed when both have been read.
read_device_info ==
    read_sib
    \o If("sib_is_None",
          send_double_break \o read_sib \o If("sib_is_None", Raise("UpdiError"), <<>>), <<>>)
    \o <<[op |-> "select"]>>
    \o Do("ldcs", "STATUSA")
    \o If("NVMPROG", read_data_op(<<>>, Missing) \o read_data_op(<<>>, Missing)
                     \o If("short", Raise("IndexError"), <<>>), <<>>)

UpdiApplication == Do("break", "none") \o init_datalink \o read_device_info

NeedKey(k) == key(k) \o If(k, <<>>, Raise("UpdiError"))

enter_progmode ==
    If("NVMPROG", <<>>,
       reset(TRUE) \o NeedKey("NVMProg") \o reset(TRUE) \o reset(FALSE)
       \o While("unlocked", 100, <<>>, Raise("LockedError"))
       \o If("NVMPROG", <<>>, Raise("UpdiError")))

\* A bug: UPDI is disabled first, and the reset no longer reaches the target.
leave_progmode_disabled_first == stcs("UPDIDIS") \o reset(TRUE) \o reset(FALSE)

leave_progmode == reset(TRUE) \o reset(FALSE) \o stcs("UPDIDIS")

unlock ==
    NeedKey("NVMErase") \o reset(TRUE) \o reset(FALSE)
    \o While("unlocked", 500, <<>>, Raise("UpdiError"))

\* A bug: the key is not cleared before the last reset.
write_user_row_key_left ==
    NeedKey("NVMUs&te") \o reset(TRUE) \o reset(FALSE)
    \o While("urowprog", 500, <<>>, Raise("UpdiError"))
    \o write_data_op("user_row", "new") \o stcs("UROW_FINAL")
    \o While("no_urowprog", 500, <<>>, reset(TRUE) \o reset(FALSE) \o Raise("UpdiError"))
    \o reset(TRUE) \o reset(FALSE)

write_user_row_locked_device ==
    NeedKey("NVMUs&te") \o reset(TRUE) \o reset(FALSE)
    \o While("urowprog", 500, <<>>, Raise("UpdiError"))
    \o write_data_op("user_row", "new") \o stcs("UROW_FINAL")
    \o While("no_urowprog", 500, <<>>, reset(TRUE) \o reset(FALSE) \o Raise("UpdiError"))
    \o stcs("KEY_STATUS") \o reset(TRUE) \o reset(FALSE)

\* UpdiApplication.write_data calls itself, until the interpreter gives up.
RecursionLimit == 3
application_write_data == [d \in 1..RecursionLimit |-> [op |-> "call"]] \o Raise("RecursionError")

-----------------------------------------------------------------------------
(* nvmserialupdi.py                                                        *)

nvm == NvmDriver[avr.drv]

start ==
    Try(enter_progmode, {"LockedError"},
        IF "user-row-locked-device" \in Options THEN <<>>
        ELSE IF "chip-erase-locked-device" \in Options THEN unlock
        ELSE Raise("DeviceLockedError"))

read_device_id ==
    read_device_info
    \o read_data_op(If("expected", <<>>, Raise("SessionError")), Raise("SessionError"))
    \o read_data_op(<<>>, Raise("IndexError"))
    \o read_data_op(<<>>, <<>>)

\* A bug: the last page is not reached.
erase_one_page_short(memory) ==
    IF memory = "flash" THEN nvm.erase_flash_page["page1"] ELSE nvm.chip_erase

\* A bug: flash is erased with the chip.
erase_by_chip(memory) == nvm.chip_erase

\* Any memory without an erase of its own: all of the chip.
erase(memory) ==
    CASE memory = "eeprom"   -> nvm.erase_eeprom
      [] memory = "user_row" -> nvm.erase_user_row
      [] memory = "flash"    -> nvm.erase_flash_page["page1"] \o nvm.erase_flash_page["page2"]
      [] OTHER -> Try(nvm.chip_erase, {"SerialException"}, unlock)

\* "flash" stands for data of two pages, a page for data within it.
write(memory) ==
    CASE memory = "user_row" ->
            IF "user-row-locked-device" \in Options THEN write_user_row_locked_device
            ELSE nvm.write_user_row
      [] memory = "eeprom" -> nvm.write_eeprom
      [] memory \in {"fuses", "lockbits"} -> nvm.write_fuse[memory]
      [] memory = "flash" -> nvm.write_flash["page1"] \o nvm.write_flash["page2"]
      [] OTHER -> nvm.write_flash[memory]

read_chunk == read_data_op(<<>>, Missing)
read(memory) == IF memory = "flash" THEN read_chunk \o read_chunk ELSE read_chunk

Body(c) ==
    CASE c.f = "construct"      -> UpdiApplication
      [] c.f = "start"          -> start
      [] c.f = "read_device_id" -> read_device_id
      [] c.f = "erase"          -> erase(c.m)
      [] c.f = "write"          -> write(c.m)
      [] c.f = "read"           -> read(c.m)
      [] c.f = "hold_in_reset"  -> <<>>
      [] c.f = "write_data"     -> application_write_data
      [] c.f \in {"stop", "release_from_reset"} -> leave_progmode

-----------------------------------------------------------------------------
(* The caller.                                                             *)

Idle == call.f = "none" \/ exc # "running"

\* What a call asks to be done to which memory.
Wanted(c) ==
    LET all == IF c.m = "flash" THEN Pages ELSE {c.m}
    IN  CASE c.f = "start" /\ "chip-erase-locked-device" \in Options
             /\ "user-row-locked-device" \notin Options
             /\ tgt.mem.lockbits = "new" -> {<<"erase", a>> : a \in Erased(tgt)}
          [] c.f = "erase" -> {<<"erase", a>> : a \in
                                  IF c.m \in {"flash", "eeprom", "user_row"} THEN all ELSE Erased(tgt)}
          [] c.f = "write" -> {<<"write", a>> : a \in all}
          [] OTHER -> {}

Begin ==
    /\ Idle
    /\ \E c \in Calls :
        /\ c.f # "construct" => avr.built
        /\ call' = c
        /\ avr' = IF c.f = "construct" THEN NoAvr ELSE avr
        /\ todo' = Body(c)
        /\ asked' = Wanted(c) \cup IF "NVMErase" \in tgt.keys THEN asked ELSE {}
    /\ exc' = "running" /\ waited' = 0 /\ luck' = "calm" /\ short' = FALSE
    /\ before' = [mem |-> tgt.mem, cmd |-> tgt.cmd, session |-> session]
    /\ UNCHANGED <<tgt, faults, session>>

Working == exc = "running"

\* A session goes on as long as nothing goes wrong in it, and ends with a stop
\* that nothing disturbs.
NextSession ==
    IF luck # "calm" THEN "doubtful"
    ELSE CASE call.f \in {"stop", "release_from_reset"} -> "closed"
           [] call.f = "construct" /\ session = "closed" -> "built"
           [] call.f = "start" /\ session = "built" /\ tgt.mode = "prog" -> "started"
           [] call.f \notin {"construct", "start", "stop", "release_from_reset"}
              /\ session = "started" /\ tgt.mode = "prog" -> "started"
           [] OTHER -> "doubtful"

Return ==
    /\ Working /\ todo = <<>>
    /\ exc' = "none"
    /\ session' = NextSession
    /\ avr' = [avr EXCEPT !.built = @ \/ call.f = "construct"]
    /\ UNCHANGED <<tgt, todo, call, waited, faults, before, luck, asked, short>>

-----------------------------------------------------------------------------
(* One access after the other.                                             *)

Top == Head(todo)
Doing(op) == Working /\ todo # <<>> /\ Top.op = op

\* Go on with then, after which the rest follows.
GoOn(then) == todo' = then \o Tail(todo) /\ UNCHANGED <<exc, session>>

\* e goes to the next handler for it.
Throw(e) ==
    LET i == SelectInSubSeq(todo, 1, Len(todo),
                            LAMBDA o : o.op = "except" /\ e \in o.excs)
    IN  IF i = 0
        THEN todo' = <<>> /\ exc' = e /\ session' = "doubtful"
        ELSE /\ todo' = todo[i].handler \o SubSeq(todo, i + 1, Len(todo))
             /\ UNCHANGED <<exc, session>>

\* The access ended with o, and Then(o.val) is what comes next.
Ends(o, Then(_)) ==
    /\ faults + o.fault <= MaxFaults
    /\ faults' = faults + o.fault
    /\ luck' = IF o.silent \/ luck = "silent" THEN "silent"
               ELSE IF o.fault > 0 THEN "faulty" ELSE luck
    /\ tgt' = o.tgt
    /\ IF o.exc = "none" THEN Then(o.val) ELSE Throw(o.exc)

Stcs(t, reg, ms) ==
    CASE reg = "CTRLA" -> SetRsd(t, FALSE)
      [] reg = "RESET_REQ" -> HoldReset(t)
      [] reg = "RESET_REQ_off" -> ReleaseReset(t, ms)
      [] reg = "UPDIDIS" -> Disable(t)
      [] reg = "UROW_FINAL" -> UrowFinal(t, ms)
      [] reg = "KEY_STATUS" -> ClearUrowKey(t)
      [] OTHER -> t

Access(f, x, ms) ==
    CASE f = "break" -> send(tgt, [tgt EXCEPT !.on = TRUE])
      [] f = "double_break" -> send(tgt, DoubleBreak(tgt))
      [] f = "stcs" -> send(tgt, Stcs(tgt, x, ms))
      [] f = "key" -> send(tgt, TakeKey(tgt, x))
      [] f = "ldcs" -> ldcs(tgt, TRUE)
      [] f = "execute_nvm_command" ->
            st(tgt, TakeCommand(tgt, x, ms), avr.width)
            \cup (IF Acknowledges(tgt, avr.width) THEN {[Done(Refuse(tgt)) EXCEPT !.fault = 1]} ELSE {})
      [] f = "write_byte" ->
            st(tgt, IF x.reg = "ADDR" THEN [tgt EXCEPT !.reg = x.area]
                    ELSE [tgt EXCEPT !.dat = "new"], avr.width)
      [] f = "write_data" ->
            write_data(tgt, Store(tgt, x.area, x.c, ms),
                       Store(tgt, x.area, IF x.c = "blank" THEN "blank" ELSE "torn", ms), avr.width)
      [] f = "write_data_words" ->
            write_data_words(tgt, Store(tgt, x.area, x.c, ms), Store(tgt, x.area, "torn", ms), avr.width)

\* How long the access keeps the target busy.
Takes(f, x) ==
    CASE f = "stcs" -> IF x = "RESET_REQ_off" THEN BootMs ELSE BusyMs
      [] f \in {"execute_nvm_command", "write_data", "write_data_words"} -> BusyMs
      [] OTHER -> {0}

Perform ==
    /\ Doing("do")
    /\ \E ms \in Takes(Top.f, Top.x) :
        \E o \in Access(Top.f, Top.x, ms) : Ends(o, LAMBDA val : GoOn(<<>>))
    /\ UNCHANGED <<avr, call, waited, before, asked, short>>

\* _check_datalink takes a ProtocolError for an answer.
Answers(test) ==
    CASE test = "check_datalink" ->
            {IF o.exc = "ProtocolError" THEN [o EXCEPT !.exc = "none"] ELSE o :
                o \in ldcs(tgt, TRUE)}
      [] test = "NVMPROG" -> ldcs(tgt, NvmProg(tgt))
      [] test \in {"NVMProg", "NVMErase", "NVMUs&te"} -> ldcs(tgt, test \in tgt.keys)
      [] test = "sib_is_None" -> {Out(tgt, avr.sib = "None", "none", 0, FALSE)}
      [] test = "expected" -> {Out(tgt, tgt.expected, "none", 0, FALSE)}
      [] test = "short" -> {Out(tgt, short, "none", 0, FALSE)}
      [] test = "read_data" ->
            read_data(tgt, avr.width)

Test ==
    /\ Doing("if")
    /\ \E o \in Answers(Top.test) :
        Ends(o, LAMBDA val : GoOn(IF val THEN Top.then ELSE Top.else))
    /\ UNCHANGED <<avr, call, waited, before, asked, short>>

-----------------------------------------------------------------------------
(* The loops with a Timeout: wait_nvm_ready, wait_unlocked, wait_urow_prog *)

\* A driver for another interface reads some other register as its STATUS.
NvmStatus(t) == t.on /\ NVMCTRL_STATUS[avr.drv] = StatusOffset(t)

Poll(until) ==
    CASE until = "nvm_ready" ->
            {IF o.exc = "none" /\ NvmStatus(tgt) /\ tgt.err THEN [o EXCEPT !.exc = "NvmError"] ELSE o :
                o \in ld(tgt, avr.width, ~NvmStatus(tgt) \/ tgt.busy = 0)}
      [] until = "unlocked" -> ldcs(tgt, ~LockStatus(tgt))
      [] until = "urowprog" -> ldcs(tgt, UrowProg(tgt))
      [] until = "no_urowprog" -> ldcs(tgt, ~UrowProg(tgt))

Expired == waited > Top.ms

\* A bug: the Timeout is made anew for every poll.
SpentAnew(o) == 0
Spent(o) == IF o.exc = "none" /\ ~o.val THEN waited + PollMs ELSE 0

Wait ==
    /\ Doing("wait") /\ ~Expired
    /\ \E o \in Poll(Top.until) :
        /\ Ends([o EXCEPT !.tgt = Elapse(@, PollMs)],
                LAMBDA val : IF val THEN GoOn(Top.then) ELSE UNCHANGED <<todo, exc, session>>)
        /\ waited' = Spent(o)
    /\ UNCHANGED <<avr, call, before, asked, short>>

TimedOut ==
    /\ Doing("wait") /\ Expired
    /\ GoOn(Top.else)
    /\ waited' = 0
    /\ UNCHANGED <<tgt, avr, call, faults, before, luck, asked, short>>

\* expired() is asked before the first poll: a host that stood still, or whose
\* clock was set, gives up although the target may have been ready for long.
Stalled ==
    /\ Doing("wait") /\ ~Expired /\ Stalls /\ faults < MaxFaults
    /\ tgt' \in {tgt, Settle(tgt)}
    /\ GoOn(Top.else)
    /\ faults' = faults + 1 /\ luck' = IF luck = "calm" THEN "faulty" ELSE luck
    /\ waited' = 0
    /\ UNCHANGED <<avr, call, before, asked, short>>

-----------------------------------------------------------------------------
(* The rest.                                                               *)

ReadSib ==
    /\ Doing("sib")
    /\ \E o \in decode_sib(tgt) :
        /\ Ends(o, LAMBDA val : GoOn(<<>>))
        /\ avr' = [avr EXCEPT !.sib = IF o.val THEN tgt.nvm ELSE "None"]
    /\ UNCHANGED <<call, waited, before, asked, short>>

Local(then) ==
    /\ GoOn(then)
    /\ UNCHANGED <<tgt, call, waited, faults, before, luck, asked>>

Select == Doing("select") /\ Local(select(avr.sib)) /\ UNCHANGED <<avr, short>>

LinkKept(drv) == avr.width          \* a bug: P:0 keeps the 24-bit link
Link(drv) == IF drv = "P0" THEN 16 ELSE avr.width

Use ==
    /\ Doing("use") /\ Local(<<>>)
    /\ avr' = [avr EXCEPT !.drv = Top.drv, !.width = Link(Top.drv)]
    /\ UNCHANGED short

Short == Doing("short") /\ Local(<<>>) /\ short' = TRUE /\ UNCHANGED avr

\* The end of a try body, and one more call of the same function.
Skip == (Doing("except") \/ Doing("call")) /\ Local(<<>>) /\ UNCHANGED <<avr, short>>

RaiseIt ==
    /\ Doing("raise")
    /\ Throw(Top.exc)
    /\ UNCHANGED <<tgt, avr, call, waited, faults, before, luck, asked, short>>

HostStep ==
    \/ Return \/ Perform \/ Test \/ Wait \/ TimedOut \/ Stalled
    \/ ReadSib \/ Select \/ Use \/ Short \/ Skip \/ RaiseIt

\* Between two calls the target finishes what it was doing, or does not.
Pause ==
    /\ Idle /\ tgt # Settle(tgt)
    /\ tgt' = Settle(tgt)
    /\ UNCHANGED <<avr, todo, call, exc, waited, faults, before, luck, session, asked, short>>

Init ==
    /\ setup \in DOMAIN Setups
    /\ \E t \in Setups[setup].targets : tgt = Fresh(t.nvm, t.lockbits, t.expected)
    /\ avr = NoAvr /\ todo = <<>> /\ call = [f |-> "none", m |-> "none"]
    /\ exc = "none" /\ waited = 0 /\ faults = 0
    /\ before = [mem |-> tgt.mem, cmd |-> tgt.cmd, session |-> "closed"]
    /\ luck = "calm" /\ session = "closed" /\ asked = {} /\ short = FALSE

Next == (Begin \/ HostStep \/ Pause) /\ UNCHANGED setup

Spec == Init /\ [][Next]_vars
FairSpec == Spec /\ WF_vars(HostStep /\ UNCHANGED setup)
-----------------------------------------------------------------------------

Ended == Idle /\ call.f # "none"
Returned == Ended /\ exc = "none"

\* Written is what the caller was told to write, on top of what was there.
Written(a) == IF FlashLike(tgt, a) THEN Programmed(before.mem[a], "new") ELSE "new"

Wrote(a) == tgt.mem[a] = Written(a)
Blank(a) == tgt.mem[a] = "blank"

\* A call that returns without an exception did what it was asked to do, unless
\* the unacknowledged block lost something: erases have erased, writes have
\* written, start has reached programming mode or what the options ask for.
DoneMeansDone ==
    Returned /\ luck # "silent" =>
        CASE call.f = "erase" /\ call.m = "flash" -> \A p \in Pages : Blank(p)
          [] call.f = "erase" /\ call.m \in {"eeprom", "user_row"} -> Blank(call.m)
          [] call.f = "erase" -> \A a \in Erased(tgt) : Blank(a) \/ (a = "lockbits" /\ ~tgt.locked)
          [] call.f = "write" /\ call.m = "flash" -> \A p \in Pages : Wrote(p)
          [] call.f = "write" /\ call.m = "user_row" /\ "user-row-locked-device" \in Options ->
                tgt.mem.user_row = "new"
          [] call.f = "write" -> Wrote(call.m)
          [] call.f = "read" -> luck = "calm" /\ before.session = "started" => ~short
          [] call.f = "start" ->
                \/ NvmProg(tgt)
                \/ "user-row-locked-device" \in Options
                \/ "chip-erase-locked-device" \in Options /\ \A p \in Pages : Blank(p)
          [] OTHER -> TRUE

\* NVMCTRL is not left with a command that the next store would carry out: not
\* after success, and not after a wait that was not in time.
NoStaleCommand ==
    /\ Ended /\ before.cmd = "NOCMD" /\ exc \in {"none", "NvmTimeout"} /\ luck = "calm"
    /\ ~(exc = "NvmTimeout" /\ call.f = "write" /\ tgt.nvm \in {"P3", "P5"})
    => tgt.cmd = "NOCMD"

\* Contents change only as the call asks for: erased where it is to erase (and
\* start only if the target is locked), written where it is to write.  An erase
\* whose key a failed call left armed may still happen; so may whatever command
\* an undecided call left in CTRLA; and a start that a lost frame made wait in
\* vain takes the target for a locked one.
OnlyAddressed ==
    [][\A a \in Areas :
        tgt'.mem[a] # tgt.mem[a] /\ before.cmd = "NOCMD" /\ ~(call.f = "start" /\ luck # "calm") =>
            <<IF tgt'.mem[a] = "blank" THEN "erase" ELSE "write", a>> \in asked]_vars

\* No command but NOCMD is given while NVMCTRL is busy with the last one.
CommandsWhenReady ==
    [][Doing("do") /\ Top.f = "execute_nvm_command" /\ Top.x # 0 => tgt.busy = 0]_vars

\* A session in which nothing goes wrong ends every call without an exception,
\* whatever happened before the stop that came before it.
CleanSessionsSucceed ==
    /\ Ended /\ luck = "calm"
    /\ tgt.nvm # "P1" /\ tgt.expected
    /\ \/ call.f = "construct" /\ before.session = "closed"
       \/ call.f = "start" /\ before.session = "built" /\ before.mem.lockbits # "new"
       \/ before.session = "started" /\ call.f \notin {"construct", "write_data"}
    => exc \in {"none", "NvmTimeout"}

\* After a stop that nothing disturbed the target runs its own program.
StopMeansRunning ==
    Returned /\ call.f \in {"stop", "release_from_reset"} /\ luck = "calm"
        /\ before.session \in {"built", "started"} => Running(tgt)

\* Writing the user row with its key leaves that mode, and keeps the flash.
UserRowModeLeft ==
    Returned /\ call.f = "write" /\ call.m = "user_row" /\ luck = "calm"
        /\ "user-row-locked-device" \in Options
        => tgt.mode # "urow" /\ tgt.keys = {} /\ ~tgt.rst

\* Every call comes to an end, whatever the wire and the target do.
CallsEnd == Working ~> ~Working
=============================================================================
