-------------------------- MODULE SerialUpdiProofs --------------------------
(***************************************************************************)
(* Theorems about the pymcuprog reference, for every way to use it, every  *)
(* order of calls and any number of faults: its types; that no command is  *)
(* given to an NVM controller that is busy; that none stays in it; that    *)
(* sessions which nothing disturbs leave no key and no mode behind.        *)
(*                                                                         *)
(* The functions are programs, sequences of instructions that one action   *)
(* after the other takes off todo.  So an invariant speaks about what is   *)
(* left to do, and a lemma about each function says that its program       *)
(* has that property when it begins.                                       *)
(***************************************************************************)
EXTENDS SerialUpdi, TLAPS

-----------------------------------------------------------------------------
(* Types                                                                   *)

Keys == {"NVMProg", "NVMErase", "NVMUs&te"}

CommandNames ==
    {"NOCMD", "PAGE_WRITE", "PAGE_ERASE", "EEPROM_ERASE_WRITE", "PAGE_BUFFER_CLEAR",
     "CHIP_ERASE", "EEPROM_ERASE", "WRITE_FUSE", "FLASH_WRITE", "FLASH_PAGE_ERASE", "other"}

Targets ==
    [nvm : Variants, expected : BOOLEAN, on : BOOLEAN, rst : BOOLEAN, keys : SUBSET Keys,
     mode : {"run", "prog", "urow", "final"}, locked : BOOLEAN, rsd : BOOLEAN,
     cmd : CommandNames, err : BOOLEAN, busy : Nat, boot : Nat, addr : Areas \cup {"none"},
     buf : Content, reg : Areas \cup {"none"}, dat : Content \cup {"none"},
     mem : [Areas -> Content]]

WireErrors == {"SerialException", "ProtocolError", "IndexError", "NvmError"}
Raisable ==
    {"UpdiError", "LockedError", "DeviceLockedError", "SessionError", "IndexError",
     "NvmTimeout", "NotImplementedError", "RecursionError"}
Outcomes ==
    [tgt : Targets, val : BOOLEAN, exc : WireErrors \cup {"none"}, fault : {0, 1},
     silent : BOOLEAN]

(***************************************************************************)
(* Instructions.  Those outside the drivers branch, and the branches       *)
(* branch once more.                                                       *)
(***************************************************************************)
Registers ==
    {"none", "CTRLA", "CTRLB", "STATUSA", "RESET_REQ", "RESET_REQ_off", "KEY_STATUS", "UPDIDIS",
     "UROW_FINAL"}
Frames ==
    [op : {"do"}, f : {"break", "double_break", "ldcs", "stcs"}, x : Registers]
    \cup [op : {"do"}, f : {"key"}, x : Keys]
Loads ==
    [op : {"do"}, f : {"write_data", "write_data_words"}, x : [area : Areas, c : {"blank", "new"}]]
    \cup [op : {"do"}, f : {"write_byte"}, x : [reg : {"ADDR", "DATA"}, area : Areas]]
Raises == [op : {"raise"}, exc : Raisable]
Plain == Frames \cup Loads \cup Raises \cup [op : {"sib", "select", "short", "call"}]

Tests == Keys \cup {"check_datalink", "NVMPROG", "sib_is_None", "expected", "read_data", "short"}
Branching(S) ==
    [op : {"if"}, test : Tests, then : Seq(S), else : Seq(S)]
    \cup [op : {"wait"}, until : {"unlocked", "urowprog", "no_urowprog"}, ms : Nat,
          then : Seq(S), else : Seq(S)]
Plain2 == Plain \cup Branching(Plain)
Plain3 == Plain \cup Branching(Plain2)

Handlers ==
    [op : {"except"}, excs : SUBSET {"LockedError", "SerialException"}, handler : Seq(Plain2)]

\* There is no driver for P:1.
Drivers == {"none", "P0", "P2", "P3", "P4", "P5"}
Uses(n) == [op : {"use"}, drv : {n} \cap Drivers]

\* The instructions of the drivers: commands, their removal, and the two waits.
Command(x) == [op |-> "do", f |-> "execute_nvm_command", x |-> x]
Commands == [op : {"do"}, f : {"execute_nvm_command"}, x : Nat \ {0}]
Removal == Command(0)
Timeout == [op |-> "raise", exc |-> "NvmTimeout"]
WaitReady ==
    [op |-> "wait", until |-> "nvm_ready", ms |-> 100, then |-> <<>>, else |-> <<Timeout>>]
WaitFinish ==
    [op |-> "wait", until |-> "nvm_ready", ms |-> 100, then |-> <<Removal>>,
     else |-> <<Removal>> \o <<Timeout>>]
Driving == Commands \cup {Removal, WaitReady, WaitFinish}

\* What can be left to do with a target whose interface is n, by the driver d.
Instructions(n, d) ==
    Plain3 \cup Handlers \cup Uses(n) \cup IF d = "none" THEN {} ELSE Driving

Luck == {"calm", "faulty", "silent"}
Sessions == {"closed", "built", "started", "doubtful"}

\* What the variables hold; the driver is the one for the target, or none.
TypeInv ==
    /\ setup \in DOMAIN Setups
    /\ tgt \in Targets
    /\ avr \in [drv : Drivers, width : {16, 24}, sib : Variants \cup {"None"}, built : BOOLEAN]
    /\ avr.sib \in {tgt.nvm, "None"} /\ avr.drv \in {tgt.nvm, "none"}
    /\ todo \in Seq(Instructions(tgt.nvm, avr.drv))
    /\ call \in Requests \cup {[f |-> "none", m |-> "none"]}
    /\ exc \in Raisable \cup WireErrors \cup {"none", "running"}
    /\ waited \in Nat /\ faults \in 0..MaxFaults
    /\ before \in [mem : [Areas -> Content], cmd : CommandNames, session : Sessions]
    /\ luck \in Luck /\ session \in Sessions
    /\ asked \in SUBSET ({"erase", "write"} \X Areas)
    /\ short \in BOOLEAN

-----------------------------------------------------------------------------
(* The target                                                              *)

\* A target that is switched on has its types, no key and no command.
LEMMA FreshTarget ==
    ASSUME NEW n \in Variants, NEW l \in {"old", "new"}, NEW e \in BOOLEAN
    PROVE  /\ Fresh(n, l, e) \in Targets
           /\ Fresh(n, l, e).nvm = n /\ Fresh(n, l, e).cmd = "NOCMD"
           /\ Fresh(n, l, e).keys = {}
BY DEF Fresh, Targets, CommandNames, Content

\* What the fields of a target hold.
LEMMA FieldTypes ==
    ASSUME NEW t \in Targets
    PROVE  /\ t.nvm \in Variants /\ t.keys \in SUBSET Keys /\ t.cmd \in CommandNames
           /\ t.busy \in Nat /\ t.boot \in Nat /\ t.addr \in Areas \cup {"none"}
           /\ t.buf \in Content /\ t.reg \in Areas \cup {"none"} /\ t.dat \in Content \cup {"none"}
           /\ t.mem \in [Areas -> Content] /\ t.on \in BOOLEAN /\ t.rst \in BOOLEAN
           /\ t.rsd \in BOOLEAN /\ t.err \in BOOLEAN /\ t.locked \in BOOLEAN
           /\ t.mode \in {"run", "prog", "urow", "final"}
BY DEF Targets

\* What breaks, keys and stores to the registers of UPDI leave alone.
Calmly(t, u) == u.nvm = t.nvm /\ u.mem = t.mem /\ u.cmd = t.cmd /\ u.busy = t.busy

\* Breaks, keys and stores to the registers of UPDI (link.py) keep the types, the
\* memories, the command and the busy flag.
LEMMA SimpleTypes ==
    ASSUME NEW t \in Targets, NEW b \in BOOLEAN, NEW k \in Keys
    PROVE  /\ [t EXCEPT !.on = TRUE] \in Targets /\ Calmly(t, [t EXCEPT !.on = TRUE])
           /\ DoubleBreak(t) \in Targets /\ Calmly(t, DoubleBreak(t))
           /\ SetRsd(t, b) \in Targets /\ Calmly(t, SetRsd(t, b))
           /\ TakeKey(t, k) \in Targets /\ Calmly(t, TakeKey(t, k))
           /\ ClearUrowKey(t) \in Targets /\ Calmly(t, ClearUrowKey(t))
           /\ Disable(t) \in Targets /\ Calmly(t, Disable(t))
<1>1. [t EXCEPT !.on = TRUE] \in Targets /\ Calmly(t, [t EXCEPT !.on = TRUE])
  BY DEF Targets, Calmly
<1>2. DoubleBreak(t) \in Targets
  BY DEF Targets, DoubleBreak
<1>3. Calmly(t, DoubleBreak(t))
  BY DEF Targets, Calmly, DoubleBreak
<1>4. SetRsd(t, b) \in Targets /\ Calmly(t, SetRsd(t, b))
  BY DEF Targets, Calmly, SetRsd
<1>5. TakeKey(t, k) \in Targets
  <2>1. t.keys \cup {k} \in SUBSET Keys
    BY DEF Targets
  <2>2. [t EXCEPT !.keys = @ \cup {k}] \in Targets
    BY <2>1 DEF Targets
  <2> QED BY <2>2 DEF TakeKey
<1>6. ClearUrowKey(t) \in Targets
  <2>1. t.keys \ {"NVMUs&te"} \in SUBSET Keys
    BY DEF Targets
  <2>2. [t EXCEPT !.keys = @ \ {"NVMUs&te"}] \in Targets
    BY <2>1 DEF Targets
  <2> QED BY <2>2 DEF ClearUrowKey
<1>7. Calmly(t, TakeKey(t, k)) /\ Calmly(t, ClearUrowKey(t))
  BY DEF Targets, Calmly, TakeKey, ClearUrowKey
<1>8. Disable(t) \in Targets
  BY DEF Targets, Disable
<1>9. Calmly(t, Disable(t))
  BY DEF Targets, Calmly, Disable
<1> QED BY <1>1, <1>2, <1>3, <1>4, <1>5, <1>6, <1>7, <1>8, <1>9

\* Holding the target in reset (reset(True)) does no more to its command than end it.
LEMMA HoldType ==
    ASSUME NEW t \in Targets
    PROVE  /\ HoldReset(t) \in Targets /\ HoldReset(t).nvm = t.nvm
           /\ HoldReset(t).cmd \in {t.cmd, "NOCMD"} /\ HoldReset(t).mem = t.mem
<1>1. "NOCMD" \in CommandNames /\ "blank" \in Content
  BY DEF CommandNames, Content
<1>2. HoldReset(t) \in Targets
  BY <1>1 DEF Targets, HoldReset
<1>3. /\ HoldReset(t).nvm = t.nvm
      /\ HoldReset(t).cmd \in {t.cmd, "NOCMD"} /\ HoldReset(t).mem = t.mem
  BY DEF Targets, HoldReset
<1> QED BY <1>2, <1>3

\* Erasing some of the memories leaves memories.
LEMMA BlankedType ==
    ASSUME NEW t \in Targets, NEW S
    PROVE  Blanked(t, S) \in [Areas -> Content]
BY DEF Targets, Blanked, Content

\* Letting the target out of reset keeps its types, and its command.
LEMMA ReleaseType ==
    ASSUME NEW t \in Targets, NEW ms \in Nat
    PROVE  /\ ReleaseReset(t, ms) \in Targets /\ ReleaseReset(t, ms).nvm = t.nvm
           /\ ReleaseReset(t, ms).cmd = t.cmd
<1> DEFINE mem == IF "NVMErase" \in t.keys THEN Blanked(t, Erased(t)) ELSE t.mem
           locked == mem.lockbits = "new"
           mode == CASE "NVMProg" \in t.keys /\ ~locked -> "prog"
                     [] "NVMUs&te" \in t.keys -> "urow"
                     [] OTHER -> "run"
           u == [t EXCEPT !.rst = FALSE, !.boot = ms, !.mem = mem, !.locked = locked,
                          !.keys = @ \cap {"NVMUs&te"}, !.mode = mode]
<1>1. mem \in [Areas -> Content] /\ locked \in BOOLEAN
  BY BlankedType DEF Targets
<1>2. mode \in {"run", "prog", "urow", "final"}
  OBVIOUS
<1> HIDE DEF mem, locked, mode
<1>3. t.keys \cap {"NVMUs&te"} \in SUBSET Keys
  BY DEF Targets
<1>4. u \in Targets
  BY <1>1, <1>2, <1>3 DEF Targets
<1>5. u.nvm = t.nvm /\ u.cmd = t.cmd
  BY DEF Targets
<1> QED BY <1>4, <1>5 DEF ReleaseReset, mem, locked, mode

\* UROWWRITE_FINAL writes the user row and keeps the rest.
LEMMA FinalType ==
    ASSUME NEW t \in Targets, NEW ms \in Nat
    PROVE  /\ UrowFinal(t, ms) \in Targets /\ UrowFinal(t, ms).nvm = t.nvm
           /\ UrowFinal(t, ms).cmd = t.cmd
<1>1. /\ t.buf \in Content /\ t.mem \in [Areas -> Content] /\ "user_row" \in Areas
  BY DEF Targets, Areas
<1>2. [t.mem EXCEPT !.user_row = t.buf] \in [Areas -> Content]
  BY <1>1
<1>3. [t EXCEPT !.mode = "final", !.busy = ms, !.mem.user_row = t.buf] \in Targets
  BY <1>2 DEF Targets
<1>4. UrowFinal(t, ms) \in Targets
  BY <1>3 DEF UrowFinal
<1>5. UrowFinal(t, ms).nvm = t.nvm /\ UrowFinal(t, ms).cmd = t.cmd
  BY DEF UrowFinal, Targets
<1> QED BY <1>4, <1>5

\* A store does not change what is in CTRLA; the page buffer is loaded at once.
LEMMA StoreType ==
    ASSUME NEW t \in Targets, NEW a \in Areas, NEW c \in Content, NEW ms \in Nat
    PROVE  /\ Store(t, a, c, ms) \in Targets /\ Store(t, a, c, ms).nvm = t.nvm
           /\ Store(t, a, c, ms).cmd = t.cmd
           /\ ~WordOriented(t) => Store(t, a, c, ms).busy = t.busy
<1> DEFINE Good(u) == /\ u \in Targets /\ u.nvm = t.nvm /\ u.cmd = t.cmd
                      /\ ~WordOriented(t) => u.busy = t.busy
<1>1. t.mem[a] \in Content /\ Programmed(t.mem[a], c) \in Content /\ t.buf \in Content
  BY DEF Targets, Programmed, Content
<1>2. Good([t EXCEPT !.buf = c])
  BY DEF Targets
<1>3. Good([t EXCEPT !.addr = a, !.buf = IF c = "blank" THEN @ ELSE c])
  BY <1>1 DEF Targets
<1>4. ASSUME WordOriented(t), NEW d \in Content
      PROVE  Good([t EXCEPT !.mem[a] = d, !.busy = ms])
  BY <1>4 DEF Targets
<1>5. Good(Refuse(t))
  BY DEF Targets, Refuse
<1> HIDE DEF Good
<1>6. Good(Store(t, a, c, ms))
  <2>1. CASE t.mode = "urow"
    BY <1>2, <2>1 DEF Store
  <2>2. CASE t.mode # "urow" /\ ~WordOriented(t)
    BY <1>3, <2>2 DEF Store
  <2>3. CASE t.mode # "urow" /\ WordOriented(t)
    <3>1. "blank" \in Content
      BY DEF Content
    <3>2. /\ Good([t EXCEPT !.mem[a] = Programmed(@, c), !.busy = ms])
          /\ Good([t EXCEPT !.mem[a] = "blank", !.busy = ms])
          /\ Good([t EXCEPT !.mem[a] = c, !.busy = ms])
      BY <1>1, <1>4, <2>3, <3>1
    <3> QED BY <1>5, <2>3, <3>2 DEF Store
  <2> QED BY <2>1, <2>2, <2>3
<1> QED BY <1>6 DEF Good

\* Every code means some command to the controller, and 0 means none.
LEMMA DecodeType ==
    ASSUME NEW t \in Targets, NEW code
    PROVE  Decode(t, code) \in CommandNames /\ Decode(t, 0) = "NOCMD"
BY DEF Decode, CommandNames, WordOriented

\* Obeying a command keeps the command register.
LEMMA ObeyType ==
    ASSUME NEW t \in Targets, NEW cmd, NEW ms \in Nat
    PROVE  /\ Obey(t, cmd, ms) \in Targets /\ Obey(t, cmd, ms).nvm = t.nvm
           /\ Obey(t, cmd, ms).cmd = t.cmd
<1> DEFINE Good(u) == u \in Targets /\ u.nvm = t.nvm /\ u.cmd = t.cmd
           here == IF t.addr = "none" THEN "old" ELSE t.mem[t.addr]
<1>1. here \in Content /\ Programmed(here, t.buf) \in Content /\ "blank" \in Content
  BY DEF Targets, Programmed, Content
<1> HIDE DEF here
<1>2. Good(t) /\ Good(Refuse(t)) /\ Good([t EXCEPT !.buf = "blank"])
  BY <1>1 DEF Targets, Refuse
<1>3. Good([t EXCEPT !.mem = Blanked(t, Erased(t)), !.busy = ms])
  BY BlankedType DEF Targets
<1>4. Good([t EXCEPT !.mem.eeprom = "blank", !.busy = ms])
  BY <1>1 DEF Targets, Areas
<1>5. ASSUME NEW ok, NEW d \in Content
      PROVE  Good(PageCommand(t, ok, d, ms))
  <2>1. CASE t.addr = "none" \/ ~ok
    BY <1>2, <2>1 DEF PageCommand
  <2>2. CASE ~(t.addr = "none" \/ ~ok)
    <3>1. [t.mem EXCEPT ![t.addr] = d] \in [Areas -> Content]
      BY <1>5, <2>2 DEF Targets
    <3>2. [t EXCEPT !.mem[t.addr] = d, !.busy = ms, !.buf = "blank"] \in Targets
      BY <1>1, <3>1 DEF Targets
    <3>3. Good([t EXCEPT !.mem[t.addr] = d, !.busy = ms, !.buf = "blank"])
      BY <3>2 DEF Targets
    <3> QED BY <2>2, <3>3 DEF PageCommand
  <2> QED BY <2>1, <2>2
<1>6. t.reg # "none" /\ t.dat # "none" => Good([t EXCEPT !.mem[t.reg] = t.dat, !.busy = ms])
  BY DEF Targets
<1>7. t.buf \in Content
  BY DEF Targets
<1> HIDE DEF Good
<1>8. Good(Obey(t, cmd, ms))
  BY <1>1, <1>2, <1>3, <1>4, <1>5, <1>6, <1>7 DEF Obey, here
<1> QED BY <1>8 DEF Good

\* After the code 0 there is no command; a P:0 keeps none in any case, because its
\* CTRLA clears itself.
LEMMA TakeType ==
    ASSUME NEW t \in Targets, NEW code, NEW ms \in Nat
    PROVE  /\ TakeCommand(t, code, ms) \in Targets /\ TakeCommand(t, code, ms).nvm = t.nvm
           /\ TakeCommand(t, 0, ms).cmd = "NOCMD"
           /\ t.nvm = "P0" /\ t.cmd = "NOCMD" => TakeCommand(t, code, ms).cmd = "NOCMD"
<1>1. Decode(t, code) \in CommandNames /\ Decode(t, 0) = "NOCMD" /\ "NOCMD" \in CommandNames
  BY DecodeType DEF CommandNames
<1>2. ASSUME NEW c \in CommandNames
      PROVE  /\ [t EXCEPT !.cmd = c] \in Targets
             /\ [t EXCEPT !.cmd = c].nvm = t.nvm /\ [t EXCEPT !.cmd = c].cmd = c
  BY DEF Targets
<1>3. Refuse(t) \in Targets /\ Refuse(t).nvm = t.nvm /\ Refuse(t).cmd = t.cmd
  BY DEF Refuse, Targets
<1>4. TakeCommand(t, 0, ms) = [t EXCEPT !.cmd = "NOCMD"]
  BY <1>1 DEF TakeCommand
<1>5. ASSUME NEW c \in CommandNames, NEW n
      PROVE  /\ Obey([t EXCEPT !.cmd = c], n, ms) \in Targets
             /\ Obey([t EXCEPT !.cmd = c], n, ms).nvm = t.nvm
             /\ Obey([t EXCEPT !.cmd = c], n, ms).cmd = c
  <2> DEFINE u == [t EXCEPT !.cmd = c]
  <2>1. u \in Targets /\ u.nvm = t.nvm /\ u.cmd = c
    BY <1>2, <1>5
  <2> HIDE DEF u
  <2>2. /\ Obey(u, n, ms) \in Targets /\ Obey(u, n, ms).nvm = u.nvm
        /\ Obey(u, n, ms).cmd = u.cmd
    BY <2>1, ObeyType
  <2> QED BY <2>1, <2>2 DEF u
<1> QED BY <1>1, <1>2, <1>3, <1>4, <1>5 DEF TakeCommand

\* Time changes the busy flag only, and only from busy to idle.
LEMMA TimeType ==
    ASSUME NEW t \in Targets, NEW ms \in Nat
    PROVE  /\ Settle(t) \in Targets /\ Elapse(t, ms) \in Targets
           /\ \A u \in {Settle(t), Elapse(t, ms)} :
                 /\ u.nvm = t.nvm /\ u.cmd = t.cmd /\ u.mem = t.mem /\ u.keys = t.keys
                 /\ u.rst = t.rst /\ u.on = t.on /\ u.mode = t.mode
                 /\ t.busy = 0 => u.busy = 0
           /\ Settle(t).busy = 0
<1>1. t.busy \in Nat /\ t.boot \in Nat
  BY DEF Targets
<1>2. Less(t.busy, ms) \in Nat /\ Less(t.boot, ms) \in Nat /\ Less(0, ms) = 0
  BY <1>1 DEF Less
<1>3. Settle(t) \in Targets
  BY DEF Targets, Settle
<1>4. Elapse(t, ms) \in Targets
  BY <1>2 DEF Targets, Elapse
<1>5. /\ Settle(t).busy = 0 /\ Elapse(t, ms).busy = Less(t.busy, ms)
      /\ \A u \in {Settle(t), Elapse(t, ms)} :
            /\ u.nvm = t.nvm /\ u.cmd = t.cmd /\ u.mem = t.mem /\ u.keys = t.keys
            /\ u.rst = t.rst /\ u.on = t.on /\ u.mode = t.mode
  BY DEF Targets, Settle, Elapse
<1> QED BY <1>2, <1>3, <1>4, <1>5

-----------------------------------------------------------------------------
(* How an access can end                                                   *)

Missed(t) == {t, Settle(t)}

\* A fault on the wire is an exception, counts as one, and finds the target before or
\* after the transfer.
LEMMA TroubleWays ==
    ASSUME NEW t \in Targets, NEW u \in Targets, NEW x \in WireErrors, NEW o \in Trouble(t, u, x)
    PROVE  /\ o \in Outcomes /\ o.exc # "none" /\ o.fault = 1
           /\ o.tgt \in {Settle(t), Settle(u)}
<1>1. PICK v \in {t, u}, e \in {x, "SerialException"} : o = Out(Settle(v), FALSE, e, 1, FALSE)
  BY DEF Trouble, Raised, Late
<1>2. Settle(v) \in Targets /\ e \in WireErrors /\ e # "none"
  BY <1>1, TimeType DEF WireErrors
<1> QED BY <1>1, <1>2 DEF Out, Outcomes

\* An answer comes from a target that is there.
LEMMA LdcsWays ==
    ASSUME NEW t \in Targets, NEW val \in BOOLEAN, NEW o \in ldcs(t, val)
    PROVE  /\ o \in Outcomes /\ o.tgt \in Missed(t)
           /\ o.exc = "none" => t.on /\ o.tgt = t /\ o.val = val /\ o.fault = 0 /\ ~o.silent
           /\ o.exc # "none" /\ o.fault = 0 => o.exc = "ProtocolError"
<1>1. Settle(t) \in Targets /\ "ProtocolError" \in WireErrors
  BY TimeType DEF WireErrors
<1>2. CASE o \in Trouble(t, t, "ProtocolError")
  BY <1>1, <1>2, TroubleWays DEF Missed
<1>3. CASE o = Out(t, val, "none", 0, FALSE) /\ t.on
  BY <1>3 DEF Out, Outcomes, WireErrors, Missed
<1>4. CASE o = Out(Settle(t), FALSE, "ProtocolError", 0, FALSE)
  BY <1>1, <1>4 DEF Out, Outcomes, WireErrors, Missed
<1> QED BY <1>2, <1>3, <1>4 DEF ldcs, Raised, Late

\* What ld can end with.
LEMMA LdWays ==
    ASSUME NEW t \in Targets, NEW val \in BOOLEAN, NEW width, NEW o \in ld(t, width, val)
    PROVE  /\ o \in Outcomes /\ o.tgt \in Missed(t)
           /\ o.exc = "none" =>
                Accessible(t) /\ o.tgt = t /\ o.val = val /\ o.fault = 0 /\ ~o.silent
           /\ o.exc # "none" /\ o.fault = 0 => o.exc = "IndexError"
<1>1. Settle(t) \in Targets /\ "IndexError" \in WireErrors
  BY TimeType DEF WireErrors
<1>2. CASE o \in Trouble(t, t, "IndexError")
  BY <1>1, <1>2, TroubleWays DEF Missed
<1>3. CASE o = Out(t, val, "none", 0, FALSE) /\ Accessible(t)
  BY <1>3 DEF Out, Outcomes, WireErrors, Missed
<1>4. CASE o = Out(Settle(t), FALSE, "IndexError", 0, FALSE)
  BY <1>1, <1>4 DEF Out, Outcomes, WireErrors, Missed
<1> QED BY <1>2, <1>3, <1>4 DEF ld, Raised, Late

\* What read_data can end with.
LEMMA ReadDataWays ==
    ASSUME NEW t \in Targets, NEW width, NEW o \in read_data(t, width)
    PROVE  /\ o \in Outcomes /\ o.tgt \in Missed(t)
           /\ o.exc = "none" /\ o.fault = 0 => o.tgt = t
           /\ o.exc # "none" /\ o.fault = 0 => o.exc = "ProtocolError"
<1>1. Settle(t) \in Targets /\ "ProtocolError" \in WireErrors
  BY TimeType DEF WireErrors
<1>2. CASE o \in Trouble(t, t, "ProtocolError")
  BY <1>1, <1>2, TroubleWays DEF Missed
<1>3a. CASE o = Out(t, TRUE, "none", 0, FALSE)
  BY <1>1, <1>3a DEF Out, Outcomes, WireErrors, Missed
<1>3b. CASE o = Out(Settle(t), FALSE, "none", 1, FALSE)
  BY <1>1, <1>3b DEF Out, Outcomes, WireErrors, Missed
<1>3c. CASE o = Out(Settle(t), FALSE, "ProtocolError", 0, FALSE)
  BY <1>1, <1>3c DEF Out, Outcomes, WireErrors, Missed
<1> QED BY <1>2, <1>3a, <1>3b, <1>3c DEF read_data, Raised, Late

\* What reading the SIB can end with.
LEMMA SibWays ==
    ASSUME NEW t \in Targets, NEW o \in decode_sib(t)
    PROVE  o \in Outcomes /\ o.tgt \in Missed(t) /\ (o.exc # "none" => o.fault = 1)
           /\ (o.fault = 0 => o.exc = "none" /\ (o.val => t.on))
<1>1. Settle(t) \in Targets /\ {"SerialException", "IndexError"} \subseteq WireErrors
  BY TimeType DEF WireErrors
<1>2. CASE o \in Trouble(t, t, "SerialException")
  BY <1>1, <1>2, TroubleWays DEF Missed
<1>3a. CASE t.on /\ o = Out(t, TRUE, "none", 0, FALSE)
  BY <1>1, <1>3a DEF Out, Outcomes, WireErrors, Missed
<1>3b. CASE o = Out(t, FALSE, "IndexError", 1, FALSE)
  BY <1>1, <1>3b DEF Out, Outcomes, WireErrors, Missed
<1>3c. CASE o = Out(Settle(t), FALSE, "none", 0, FALSE)
  BY <1>1, <1>3c DEF Out, Outcomes, WireErrors, Missed
<1>3d. CASE o = Out(Settle(t), FALSE, "none", 1, FALSE)
  BY <1>1, <1>3d DEF Out, Outcomes, WireErrors, Missed
<1> QED BY <1>2, <1>3a, <1>3b, <1>3c, <1>3d DEF decode_sib, Done, Raised, Late

\* What an unacknowledged transfer can end with.
LEMMA SendWays ==
    ASSUME NEW t \in Targets, NEW u \in Targets, NEW o \in send(t, u)
    PROVE  /\ o \in Outcomes /\ o.tgt \in {t, u}
           /\ o.fault = 0 => o.exc = "none" /\ o.tgt = u
<1>1. "SerialException" \in WireErrors
  BY DEF WireErrors
<1>2a. CASE o = Out(u, TRUE, "none", 0, FALSE)
  BY <1>2a DEF Out, Outcomes, WireErrors
<1>2b. CASE o = Out(t, TRUE, "none", 1, FALSE)
  BY <1>2b DEF Out, Outcomes, WireErrors
<1>3. CASE \E v \in {t, u} : o = Out(v, FALSE, "SerialException", 1, FALSE)
  BY <1>1, <1>3 DEF Out, Outcomes, WireErrors
<1> QED BY <1>2a, <1>2b, <1>3 DEF send, Done, Raised

\* A store that is acknowledged arrived.
LEMMA StWays ==
    ASSUME NEW t \in Targets, NEW u \in Targets, NEW width, NEW o \in st(t, u, width)
    PROVE  /\ o \in Outcomes /\ o.tgt \in {t, u, Settle(t), Settle(u)}
           /\ o.exc = "none" => o.tgt = u /\ o.fault = 0 /\ Acknowledges(t, width)
           /\ o.exc # "none" /\ o.fault = 0 => o.exc = "ProtocolError"
<1>1. Settle(t) \in Targets /\ Settle(u) \in Targets /\ "ProtocolError" \in WireErrors
  BY TimeType DEF WireErrors
<1>2. CASE o \in Trouble(t, t, "ProtocolError") \cup Trouble(t, u, "ProtocolError")
  BY <1>1, <1>2, TroubleWays
<1>3a. CASE Acknowledges(t, width) /\ o = Out(u, TRUE, "none", 0, FALSE)
  BY <1>1, <1>3a DEF Out, Outcomes, WireErrors
<1>3b. CASE o = Out(Settle(t), FALSE, "ProtocolError", 0, FALSE)
  BY <1>1, <1>3b DEF Out, Outcomes, WireErrors
<1> QED BY <1>2, <1>3a, <1>3b DEF st, Done, Raised, Late

\* What write_data can end with.
LEMMA WriteDataWays ==
    ASSUME NEW t \in Targets, NEW u \in Targets, NEW torn \in Targets, NEW width,
           NEW o \in write_data(t, u, torn, width)
    PROVE  /\ o \in Outcomes /\ o.tgt \in {t, u, Settle(t), Settle(u), Settle(torn)}
           /\ o.exc = "none" => o.tgt = u /\ o.fault = 0
           /\ o.exc # "none" /\ o.fault = 0 => o.exc = "ProtocolError"
<1>1. /\ Settle(t) \in Targets /\ Settle(u) \in Targets /\ Settle(torn) \in Targets
      /\ "ProtocolError" \in WireErrors
  BY TimeType DEF WireErrors
<1>2. CASE o \in Trouble(t, t, "ProtocolError") \cup Trouble(t, u, "ProtocolError")
                 \cup Trouble(torn, torn, "ProtocolError")
  BY <1>1, <1>2, TroubleWays
<1>3a. CASE o = Out(u, TRUE, "none", 0, FALSE)
  BY <1>1, <1>3a DEF Out, Outcomes, WireErrors
<1>3b. CASE o = Out(Settle(t), FALSE, "ProtocolError", 0, FALSE)
  BY <1>1, <1>3b DEF Out, Outcomes, WireErrors
<1> QED BY <1>2, <1>3a, <1>3b DEF write_data, Done, Raised, Late

\* A block of words may get lost, or leave the acknowledgements off.
Worded(t, u, torn, w) ==
    \/ w \in {t, u, torn, Settle(t), SetRsd(u, TRUE)}
    \/ \E v \in {t, u, torn}, rsd \in BOOLEAN : w = Settle(SetRsd(v, rsd))

\* What write_data_words can end with.
LEMMA WriteWordsWays ==
    ASSUME NEW t \in Targets, NEW u \in Targets, NEW torn \in Targets, NEW width,
           NEW o \in write_data_words(t, u, torn, width)
    PROVE  /\ o \in Outcomes /\ Worded(t, u, torn, o.tgt)
           /\ o.exc = "none" /\ o.fault = 0 => o.tgt = u
           /\ o.exc # "none" /\ o.fault = 0 => o.exc = "ProtocolError"
<1>1. /\ Settle(t) \in Targets /\ SetRsd(u, TRUE) \in Targets
      /\ {"ProtocolError", "SerialException"} \subseteq WireErrors
  <2>1. TRUE \in BOOLEAN /\ "NVMErase" \in Keys
    BY DEF Keys
  <2> QED BY <2>1, TimeType, SimpleTypes DEF WireErrors
<1>2. CASE o \in Trouble(t, t, "ProtocolError")
  <2>1. o \in Outcomes /\ o.exc # "none" /\ o.fault = 1 /\ o.tgt = Settle(t)
    BY <1>1, <1>2, TroubleWays
  <2>2. Worded(t, u, torn, o.tgt)
    BY <2>1 DEF Worded
  <2> QED BY <2>1, <2>2
<1>3a. CASE o = Out(u, TRUE, "none", 0, FALSE)
  BY <1>1, <1>3a DEF Out, Outcomes, WireErrors, Worded
<1>3b. CASE o = Out(Settle(t), FALSE, "ProtocolError", 0, FALSE)
  BY <1>1, <1>3b DEF Out, Outcomes, WireErrors, Worded
<1>3c. CASE o = Out(Settle(t), FALSE, "ProtocolError", 1, FALSE)
  BY <1>1, <1>3c DEF Out, Outcomes, WireErrors, Worded
<1>3d. CASE o = Out(t, TRUE, "none", 1, TRUE)
  BY <1>1, <1>3d DEF Out, Outcomes, WireErrors, Worded
<1>3e. CASE o = Out(torn, TRUE, "none", 1, TRUE)
  BY <1>1, <1>3e DEF Out, Outcomes, WireErrors, Worded
<1>3f. CASE o = Out(SetRsd(u, TRUE), TRUE, "none", 1, FALSE)
  <2>1. /\ o \in Outcomes /\ o.exc = "none" /\ o.tgt = SetRsd(u, TRUE)
    BY <1>1, <1>3f DEF Out, Outcomes
  <2>3. o.fault # 0
    BY <1>3f DEF Out
  <2>2. Worded(t, u, torn, o.tgt)
    BY <2>1 DEF Worded
  <2> QED BY <2>1, <2>2, <2>3
<1>4. CASE \E v \in {t, u, torn}, rsd \in BOOLEAN :
              o = Out(Settle(SetRsd(v, rsd)), FALSE, "SerialException", 1, FALSE)
  <2>1. PICK v \in {t, u, torn}, rsd \in BOOLEAN :
              o = Out(Settle(SetRsd(v, rsd)), FALSE, "SerialException", 1, FALSE)
    BY <1>4
  <2>2. SetRsd(v, rsd) \in Targets
    <3>1. "NVMErase" \in Keys
      BY DEF Keys
    <3> QED BY <3>1, SimpleTypes
  <2>3. Settle(SetRsd(v, rsd)) \in Targets
    BY <2>2, TimeType
  <2>4. Worded(t, u, torn, Settle(SetRsd(v, rsd)))
    BY DEF Worded
  <2> QED BY <1>1, <2>1, <2>3, <2>4 DEF Out, Outcomes, WireErrors
<1> QED
  BY <1>2, <1>3a, <1>3b, <1>3c, <1>3d, <1>3e, <1>3f, <1>4
     DEF write_data_words, Done, Raised, Late

-----------------------------------------------------------------------------
(* Instructions                                                            *)

\* Sequences over a set are sequences over a larger one.
LEMMA SeqGrows == ASSUME NEW S, NEW T, S \subseteq T PROVE Seq(S) \subseteq Seq(T)
OBVIOUS

\* Two programs, one after the other, are a program.
LEMMA SeqJoins ==
    ASSUME NEW S, NEW s \in Seq(S), NEW t \in Seq(S) PROVE s \o t \in Seq(S)
OBVIOUS

\* Instructions of a lower level are instructions of the higher ones.
LEMMA PlainGrows ==
    /\ Plain \subseteq Plain2 /\ Plain2 \subseteq Plain3
    /\ Seq(Plain) \subseteq Seq(Plain2) /\ Seq(Plain2) \subseteq Seq(Plain3)
<1>1. Plain \subseteq Plain2
  BY DEF Plain2
<1>2. Seq(Plain) \subseteq Seq(Plain2)
  BY <1>1, SeqGrows
<1>3. Branching(Plain) \subseteq Branching(Plain2)
  BY <1>2 DEF Branching
<1>4. Plain2 \subseteq Plain3
  BY <1>1, <1>3 DEF Plain2, Plain3
<1> QED BY <1>1, <1>2, <1>4, SeqGrows

\* Instructions outside the drivers can be left to do whatever the driver is.
LEMMA PlainInstructions ==
    ASSUME NEW n, NEW d
    PROVE  /\ Plain3 \subseteq Instructions(n, d) /\ Seq(Plain3) \subseteq Seq(Instructions(n, d))
           /\ Seq(Plain2) \subseteq Seq(Instructions(n, d))
BY PlainGrows, SeqGrows DEF Instructions

\* What an instruction is, by its first word.
LEMMA Kinds ==
    ASSUME NEW n, NEW d, NEW o \in Instructions(n, d)
    PROVE  /\ o.op \in {"do", "if", "wait", "raise", "sib", "select", "short", "call", "except",
                        "use"}
           /\ o.op = "do" => o \in Frames \cup Loads \cup Commands \cup {Removal}
           /\ o.op = "if" => o.test \in Tests /\ o.then \in Seq(Plain2) /\ o.else \in Seq(Plain2)
           /\ o.op = "wait" => \/ o \in {WaitReady, WaitFinish}
                               \/ /\ o.until \in {"unlocked", "urowprog", "no_urowprog"}
                                  /\ o.then \in Seq(Plain2) /\ o.else \in Seq(Plain2)
           /\ o.op = "raise" => o \in Raises /\ o.exc \in Raisable
           /\ o.op = "use" => o.drv = n /\ n \in Drivers
           /\ o.op = "except" <=> o \in Handlers
           /\ o \in Commands => o.op = "do" /\ o.f = "execute_nvm_command" /\ o.x # 0
           /\ o.op = "do" /\ o.f = "execute_nvm_command" /\ o.x # 0 => o \in Commands
           /\ o \in Driving => d # "none"
<1>1. o.op = "except" <=> o \in Handlers
  <2>1. o \in Handlers => o.op = "except"
    BY DEF Handlers
  <2>2. o \in Plain3 => o.op # "except"
    BY DEF Plain3, Plain, Frames, Loads, Raises, Branching
  <2>3. o \in Uses(n) \cup Driving => o.op # "except"
    BY DEF Uses, Driving, Commands, Removal, Command, WaitReady, WaitFinish
  <2> QED BY <2>1, <2>2, <2>3 DEF Instructions
<1>2. o \in Driving => d # "none"
  <2>1. o \in Driving => o \notin Handlers \cup Uses(n)
    BY DEF Handlers, Uses, Driving, Commands, Removal, Command, WaitReady, WaitFinish
  <2>2. o \in Driving => o \notin Plain
    BY DEF Plain, Frames, Loads, Raises, Driving, Commands, Removal, Command, WaitReady, WaitFinish
  <2>3. o \in Driving => o \notin Branching(Plain2)
    <3>1. o \in Commands \cup {Removal} => o.op = "do"
      BY DEF Commands, Removal, Command
    <3>2. o \in {WaitReady, WaitFinish} => o.op = "wait" /\ o.until = "nvm_ready"
      BY DEF WaitReady, WaitFinish
    <3>3. o \in Branching(Plain2) =>
             \/ o.op = "if"
             \/ o.op = "wait" /\ o.until \in {"unlocked", "urowprog", "no_urowprog"}
      BY DEF Branching
    <3> QED BY <3>1, <3>2, <3>3 DEF Driving
  <2> QED BY <2>1, <2>2, <2>3 DEF Instructions, Plain3
<1>3. o \in Commands => o.op = "do" /\ o.f = "execute_nvm_command" /\ o.x # 0
  BY DEF Commands
<1>4. CASE o \in Frames \cup Loads
  <2>1. o.op = "do" /\ o.f # "execute_nvm_command"
    BY <1>4 DEF Frames, Loads
  <2> QED BY <1>1, <1>2, <1>3, <1>4, <2>1
<1>5. CASE o \in Raises \cup [op : {"sib", "select", "short", "call"}]
  <2>1. o.op \in {"raise", "sib", "select", "short", "call"} /\ (o.op = "raise" => o \in Raises)
    BY <1>5 DEF Raises
  <2>2. o \in Raises => o.exc \in Raisable
    BY DEF Raises
  <2> QED BY <1>1, <1>2, <1>3, <2>1, <2>2
<1>6. CASE o \in Branching(Plain2)
  <2>1. /\ o.op \in {"if", "wait"} /\ o.then \in Seq(Plain2) /\ o.else \in Seq(Plain2)
        /\ o.op = "if" => o.test \in Tests
        /\ o.op = "wait" => o.until \in {"unlocked", "urowprog", "no_urowprog"}
    BY <1>6 DEF Branching
  <2> QED BY <1>1, <1>2, <1>3, <2>1
<1>7. CASE o \in Handlers
  BY <1>1, <1>2, <1>3, <1>7
<1>8. CASE o \in Uses(n)
  <2>1. o.op = "use" /\ o.drv = n /\ n \in Drivers
    BY <1>8 DEF Uses
  <2> QED BY <1>1, <1>2, <1>3, <2>1
<1>9. CASE o \in Driving /\ d # "none"
  <2>1. CASE o \in Commands
    BY <1>1, <1>2, <1>3, <2>1
  <2>2. CASE o = Removal
    <3>1. o.op = "do" /\ o.f = "execute_nvm_command" /\ o.x = 0
      BY <2>2 DEF Removal, Command
    <3> QED BY <1>1, <1>2, <1>3, <2>2, <3>1
  <2>3. CASE o \in {WaitReady, WaitFinish}
    <3>1. o.op = "wait"
      BY <2>3 DEF WaitReady, WaitFinish
    <3> QED BY <1>1, <1>2, <1>3, <2>3, <3>1
  <2> QED BY <1>9, <2>1, <2>2, <2>3 DEF Driving
<1> QED BY <1>4, <1>5, <1>6, <1>7, <1>8, <1>9 DEF Instructions, Plain3, Plain

-----------------------------------------------------------------------------
(* What a driver's program has to be: a command follows a wait for the     *)
(* controller, with nothing in between but stores to the page buffer; and  *)
(* it is removed, with nothing in between that could end the call other    *)
(* than by an error of the wire.                                           *)

Buffered(n) == IF n \in {"P2", "P4"} THEN {} ELSE Loads

Guarded(s, n, idle) ==
    \A i \in 1..Len(s) : s[i] \in Commands =>
        \/ \E j \in 1..(i - 1) :
              /\ s[j] \in {WaitReady, Timeout}
              /\ \A k \in (j + 1)..(i - 1) : s[k] \in Buffered(n)
        \/ idle /\ \A k \in 1..(i - 1) : s[k] \in Buffered(n)

\* late: the call is one whose last wait leaves the command if it is too late.
Between(late) == Loads \cup Commands \cup IF late THEN {WaitReady} ELSE {}
Removed(s, late, i) ==
    \E j \in (i + 1)..Len(s) :
        s[j] \in {Removal, WaitFinish} /\ \A k \in (i + 1)..(j - 1) : s[k] \in Between(late)

\* P:0 keeps no command.
Finished(s, n, late) ==
    n # "P0" => \A i \in 1..Len(s) : s[i] \in Commands => Removed(s, late, i)

\* The beginning of a program, after which a command may be given (open) or
\* one is still to be removed (pending).
Part(s, n, late, open, pending) ==
    /\ s \in Seq(Driving \cup Loads)
    /\ Guarded(s, n, FALSE)
    /\ open => \E j \in 1..Len(s) :
                  s[j] = WaitReady /\ \A k \in (j + 1)..Len(s) : s[k] \in Buffered(n)
    /\ n # "P0" => \A i \in 1..Len(s) : s[i] \in Commands =>
                      \/ Removed(s, late, i)
                      \/ pending /\ \A k \in (i + 1)..Len(s) : s[k] \in Between(late)

\* The instructions the invariant tells apart are different.
LEMMA Apart ==
    /\ WaitReady \notin Commands /\ WaitFinish \notin Commands /\ Removal \notin Commands
    /\ WaitReady # WaitFinish /\ Timeout \notin Commands
    /\ \A o \in Loads : o \notin Commands
    /\ \A o \in Plain3 \cup Handlers : o \notin Commands
<1>1. \A o \in Commands : o.op = "do" /\ o.f = "execute_nvm_command" /\ o.x # 0
  BY DEF Commands
<1>2. WaitReady.op = "wait" /\ WaitFinish.op = "wait" /\ Timeout.op = "raise"
  BY DEF WaitReady, WaitFinish, Timeout
<1>3. Removal.x = 0
  BY DEF Removal, Command
<1>4. \A o \in Loads \cup Frames : o.f # "execute_nvm_command"
  BY DEF Loads, Frames
<1>5. \A o \in Raises \cup [op : {"sib", "select", "short", "call"}] \cup Branching(Plain2)
                \cup Handlers : o.op # "do"
  BY DEF Raises, Branching, Handlers
<1>6. WaitReady # WaitFinish
  <2>1. WaitReady.then = <<>> /\ WaitFinish.then = <<Removal>>
    BY DEF WaitReady, WaitFinish
  <2>2. Len(<<>>) # Len(<<Removal>>)
    OBVIOUS
  <2> QED BY <2>1, <2>2
<1> QED BY <1>1, <1>2, <1>3, <1>4, <1>5, <1>6 DEF Plain3, Plain

\* A program with one more instruction at its end.
LEMMA Appended ==
    ASSUME NEW S, NEW s \in Seq(S), NEW x \in S
    PROVE  /\ s \o <<x>> \in Seq(S) /\ Len(s \o <<x>>) = Len(s) + 1
           /\ \A i \in 1..Len(s) : (s \o <<x>>)[i] = s[i]
           /\ (s \o <<x>>)[Len(s) + 1] = x
OBVIOUS

\* A command that is removed is so in a longer program.
LEMMA RemovedStays ==
    ASSUME NEW S, NEW s \in Seq(S), NEW x \in S, NEW late, NEW i \in 1..Len(s),
           Removed(s, late, i)
    PROVE  Removed(s \o <<x>>, late, i)
<1> DEFINE t == s \o <<x>>
<1>1. Len(t) = Len(s) + 1 /\ \A k \in 1..Len(s) : t[k] = s[k]
  BY Appended
<1>2. Len(s) \in Nat
  OBVIOUS
<1> HIDE DEF t
<1>3. PICK j \in (i + 1)..Len(s) :
         s[j] \in {Removal, WaitFinish} /\ \A k \in (i + 1)..(j - 1) : s[k] \in Between(late)
  BY DEF Removed
<1>4. j \in (i + 1)..Len(t) /\ t[j] = s[j] /\ \A k \in (i + 1)..(j - 1) : t[k] = s[k]
  BY <1>1, <1>2
<1>5. Removed(t, late, i)
  BY <1>3, <1>4 DEF Removed
<1> QED BY <1>5 DEF t

\* A guarded program stays so with an instruction at its end that is guarded itself.
LEMMA GuardedStays ==
    ASSUME NEW S, NEW s \in Seq(S), NEW x \in S, NEW n, Guarded(s, n, FALSE),
           x \in Commands =>
              \E j \in 1..Len(s) :
                  s[j] = WaitReady /\ \A k \in (j + 1)..Len(s) : s[k] \in Buffered(n)
    PROVE  Guarded(s \o <<x>>, n, FALSE)
<1> DEFINE t == s \o <<x>>
<1>1. /\ Len(t) = Len(s) + 1 /\ \A k \in 1..Len(s) : t[k] = s[k]
      /\ t[Len(s) + 1] = x
  BY Appended
<1>2. Len(s) \in Nat
  OBVIOUS
<1> HIDE DEF t
<1>3. ASSUME NEW i \in 1..Len(t), t[i] \in Commands
      PROVE  \E j \in 1..(i - 1) :
                /\ t[j] \in {WaitReady, Timeout}
                /\ \A k \in (j + 1)..(i - 1) : t[k] \in Buffered(n)
  <2>1. CASE i \in 1..Len(s)
    <3>1. PICK j \in 1..(i - 1) :
             /\ s[j] \in {WaitReady, Timeout}
             /\ \A k \in (j + 1)..(i - 1) : s[k] \in Buffered(n)
      BY <1>1, <1>3, <2>1 DEF Guarded
    <3>2. t[j] = s[j] /\ \A k \in (j + 1)..(i - 1) : t[k] = s[k]
      BY <1>1, <1>2, <2>1
    <3> QED BY <3>1, <3>2
  <2>2. CASE i = Len(s) + 1
    <3>1. PICK j \in 1..Len(s) :
             s[j] = WaitReady /\ \A k \in (j + 1)..Len(s) : s[k] \in Buffered(n)
      BY <1>1, <1>3, <2>2
    <3>2. /\ j \in 1..(i - 1) /\ t[j] = s[j]
          /\ \A k \in (j + 1)..(i - 1) : t[k] = s[k] /\ k \in (j + 1)..Len(s)
      BY <1>1, <1>2, <2>2
    <3> QED BY <3>1, <3>2
  <2> QED BY <1>1, <1>2, <2>1, <2>2
<1>4. Guarded(t, n, FALSE)
  BY <1>3 DEF Guarded
<1> QED BY <1>4 DEF t

\* One more instruction: what it does to open and to pending.
LEMMA PartAppend ==
    ASSUME NEW s, NEW n, NEW late, NEW open \in BOOLEAN, NEW pending \in BOOLEAN,
           NEW x \in Driving \cup Loads,
           Part(s, n, late, open, pending), x \in Commands => open,
           NEW open2 \in BOOLEAN, NEW pending2 \in BOOLEAN,
           open2 => \/ x = WaitReady
                    \/ open /\ x \in Buffered(n),
           n # "P0" => \/ pending2 /\ (pending => x \in Between(late))
                       \/ x \in {Removal, WaitFinish}
                       \/ ~pending /\ x \notin Commands
    PROVE  Part(s \o <<x>>, n, late, open2, pending2)
<1> DEFINE t == s \o <<x>>
<1>0. s \in Seq(Driving \cup Loads) /\ Len(s) \in Nat
  BY DEF Part
<1>1. /\ t \in Seq(Driving \cup Loads) /\ Len(t) = Len(s) + 1
      /\ \A k \in 1..Len(s) : t[k] = s[k]
      /\ t[Len(s) + 1] = x
  BY <1>0, Appended
<1>2. Guarded(t, n, FALSE)
  BY <1>0, GuardedStays DEF Part
<1>3. ASSUME NEW i \in 1..Len(s), Removed(s, late, i)
      PROVE  Removed(t, late, i)
  BY <1>0, <1>3, RemovedStays
<1> HIDE DEF t
<1>4. ASSUME open2
      PROVE  \E j \in 1..Len(t) :
                t[j] = WaitReady /\ \A k \in (j + 1)..Len(t) : t[k] \in Buffered(n)
  <2>1. CASE x = WaitReady
    BY <1>0, <1>1, <2>1
  <2>2. CASE open /\ x \in Buffered(n)
    <3>1. PICK j \in 1..Len(s) :
             s[j] = WaitReady /\ \A k \in (j + 1)..Len(s) : s[k] \in Buffered(n)
      BY <2>2 DEF Part
    <3>2. j \in 1..Len(t) /\ t[j] = WaitReady
      BY <1>0, <1>1, <3>1
    <3>3. ASSUME NEW k \in (j + 1)..Len(t) PROVE t[k] \in Buffered(n)
      <4>1. k \in (j + 1)..Len(s) \/ k = Len(s) + 1
        BY <1>0, <1>1
      <4> QED BY <1>0, <1>1, <2>2, <3>1, <4>1
    <3> QED BY <3>2, <3>3
  <2> QED BY <1>4, <2>1, <2>2
<1>5. ASSUME n # "P0", NEW i \in 1..Len(t), t[i] \in Commands
      PROVE  \/ Removed(t, late, i)
             \/ pending2 /\ \A k \in (i + 1)..Len(t) : t[k] \in Between(late)
  <2>1. CASE i = Len(s) + 1
    <3>1. x \in Commands /\ x \notin {Removal, WaitFinish} /\ Len(t) = i
      BY <1>1, <1>5, <2>1, Apart
    <3>2. pending2
      BY <1>5, <3>1
    <3> QED BY <1>0, <3>1, <3>2, <2>1
  <2>2. CASE i \in 1..Len(s) /\ Removed(s, late, i)
    BY <1>3, <2>2
  <2>3. CASE i \in 1..Len(s) /\ ~Removed(s, late, i)
    <3>1. pending /\ \A k \in (i + 1)..Len(s) : s[k] \in Between(late)
      BY <1>1, <1>5, <2>3 DEF Part
    <3>2. CASE x \in {Removal, WaitFinish}
      <4>1. /\ Len(s) + 1 \in (i + 1)..Len(t) /\ t[Len(s) + 1] \in {Removal, WaitFinish}
        BY <1>0, <1>1, <2>3, <3>2
      <4>2. \A k \in (i + 1)..((Len(s) + 1) - 1) : t[k] \in Between(late)
        BY <1>0, <1>1, <2>3, <3>1
      <4> QED BY <4>1, <4>2 DEF Removed
    <3>3. CASE pending2 /\ x \in Between(late)
      <4>1. ASSUME NEW k \in (i + 1)..Len(t) PROVE t[k] \in Between(late)
        <5>1. k \in (i + 1)..Len(s) \/ k = Len(s) + 1
          BY <1>0, <1>1, <2>3
        <5> QED BY <1>0, <1>1, <2>3, <3>1, <3>3, <5>1
      <4> QED BY <3>3, <4>1
    <3> QED BY <1>5, <3>1, <3>2, <3>3
  <2> QED BY <1>0, <1>1, <2>1, <2>2, <2>3
<1>6. Part(t, n, late, open2, pending2)
  BY <1>1, <1>2, <1>4, <1>5 DEF Part
<1> QED BY <1>6 DEF t

\* The pieces that the functions of the drivers are put together from.
LEMMA PartEmpty ==
    ASSUME NEW n, NEW late PROVE Part(<<>>, n, late, FALSE, FALSE)
BY DEF Part, Guarded

\* A wait for the controller opens a part for a command.
LEMMA PartReady ==
    ASSUME NEW s, NEW n, NEW late, NEW open \in BOOLEAN, NEW pending \in BOOLEAN,
           Part(s, n, late, open, pending),
           pending => n = "P0" \/ late
    PROVE  Part(s \o Ready, n, late, TRUE, pending)
<1>1. WaitReady \in Driving /\ WaitReady \notin Commands
  BY Apart DEF Driving
<1>2. late => WaitReady \in Between(late)
  BY DEF Between
<1>3. Ready = <<WaitReady>>
  BY DEF Ready, While, Raise, WaitReady, Timeout
<1> QED BY <1>1, <1>2, <1>3, PartAppend

\* A store to a page buffer keeps a part open; where stores are commands, it closes it.
LEMMA PartLoad ==
    ASSUME NEW s, NEW n, NEW late, NEW open \in BOOLEAN, NEW pending \in BOOLEAN,
           Part(s, n, late, open, pending),
           NEW l \in Loads
    PROVE  Part(s \o <<l>>, n, late, open /\ n \notin {"P2", "P4"}, pending)
<1>1. l \in Driving \cup Loads /\ l \notin Commands /\ l \in Between(late)
  BY Apart DEF Between
<1>2. n \notin {"P2", "P4"} => l \in Buffered(n)
  BY DEF Buffered
<1> QED BY <1>1, <1>2, PartAppend

\* A command closes a part and leaves something to remove.
LEMMA PartCommand ==
    ASSUME NEW s, NEW n, NEW late, NEW pending \in BOOLEAN, Part(s, n, late, TRUE, pending),
           NEW x \in Nat \ {0}
    PROVE  Part(s \o execute_nvm_command(x), n, late, FALSE, TRUE)
<1>1. Command(x) \in Commands
  BY DEF Commands, Command
<1>2. Command(x) \in Driving \cup Loads /\ Command(x) \in Between(late)
  BY <1>1 DEF Driving, Between
<1>3. execute_nvm_command(x) = <<Command(x)>>
  BY DEF execute_nvm_command, Do, Command
<1> QED BY <1>1, <1>2, <1>3, PartAppend

\* _wait and the removal of the command leave nothing to remove.
LEMMA PartFinish ==
    ASSUME NEW s, NEW n, NEW late, NEW open \in BOOLEAN, NEW pending \in BOOLEAN,
           Part(s, n, late, open, pending)
    PROVE  /\ Part(s \o Finish, n, late, FALSE, FALSE)
           /\ Part(s \o NOCMD, n, late, FALSE, FALSE)
<1>1. /\ {WaitFinish, Removal} \subseteq Driving
      /\ WaitFinish \notin Commands /\ Removal \notin Commands
  BY Apart DEF Driving
<1>2. NOCMD = <<Removal>>
  BY DEF NOCMD, execute_nvm_command, Do, Removal, Command, P2_NVMCMD
<1>3. Finish = <<WaitFinish>>
  BY <1>2 DEF Finish, While, Raise, WaitFinish, Timeout
<1> QED BY <1>1, <1>2, <1>3, PartAppend

-----------------------------------------------------------------------------
(* The drivers                                                             *)

Program(s, n, late) == Part(s, n, late, FALSE, FALSE)

\* A program that starts with a wait.
LEMMA PartStart == ASSUME NEW n, NEW late PROVE Part(Ready, n, late, TRUE, FALSE)
<1>1. Part(<<>> \o Ready, n, late, TRUE, FALSE)
  BY PartEmpty, PartReady
<1>2. <<>> \o Ready = Ready
  BY DEF Ready, While
<1> QED BY <1>1, <1>2

\* A part with nothing to remove is a program of a driver.
LEMMA PartEnds ==
    ASSUME NEW s, NEW n, NEW late, NEW open \in BOOLEAN, NEW pending \in BOOLEAN,
           Part(s, n, late, open, pending), pending => n = "P0"
    PROVE  Program(s, n, late)
BY DEF Part, Program

\* Programs of a driver, one after the other, are one.
LEMMA ProgramJoins ==
    ASSUME NEW s, NEW t, NEW n, NEW late, Program(s, n, late), Program(t, n, late)
    PROVE  Program(s \o t, n, late)
<1> DEFINE u == s \o t
<1>1. s \in Seq(Driving \cup Loads) /\ t \in Seq(Driving \cup Loads)
  BY DEF Program, Part
<1>2. /\ u \in Seq(Driving \cup Loads) /\ Len(u) = Len(s) + Len(t)
      /\ Len(s) \in Nat /\ Len(t) \in Nat
      /\ \A k \in 1..Len(s) : u[k] = s[k]
      /\ \A k \in 1..Len(t) : u[Len(s) + k] = t[k]
  BY <1>1
<1> HIDE DEF u
<1>3. ASSUME NEW i \in 1..Len(u), u[i] \in Commands
      PROVE  /\ \E j \in 1..(i - 1) :
                   /\ u[j] \in {WaitReady, Timeout}
                   /\ \A k \in (j + 1)..(i - 1) : u[k] \in Buffered(n)
             /\ n # "P0" => Removed(u, late, i)
  <2>1. CASE i \in 1..Len(s)
    <3>1. /\ s[i] \in Commands
          /\ \E j \in 1..(i - 1) :
                /\ s[j] \in {WaitReady, Timeout}
                /\ \A k \in (j + 1)..(i - 1) : s[k] \in Buffered(n)
      BY <1>2, <1>3, <2>1 DEF Program, Part, Guarded
    <3>2. PICK j \in 1..(i - 1) :
                /\ s[j] \in {WaitReady, Timeout}
                /\ \A k \in (j + 1)..(i - 1) : s[k] \in Buffered(n)
      BY <3>1
    <3>3. u[j] = s[j] /\ \A k \in (j + 1)..(i - 1) : u[k] = s[k]
      <4>1. \A k \in 1..(i - 1) : k \in 1..Len(s)
        BY <1>2, <2>1
      <4> QED BY <1>2, <4>1
    <3>4. ASSUME n # "P0" PROVE Removed(u, late, i)
      <4>1. Removed(s, late, i)
        BY <2>1, <3>1, <3>4 DEF Program, Part
      <4>2. PICK m \in (i + 1)..Len(s) :
               /\ s[m] \in {Removal, WaitFinish}
               /\ \A k \in (i + 1)..(m - 1) : s[k] \in Between(late)
        BY <4>1 DEF Removed
      <4>3. m \in (i + 1)..Len(u) /\ u[m] = s[m] /\ \A k \in (i + 1)..(m - 1) : u[k] = s[k]
        BY <1>2, <2>1
      <4> QED BY <4>2, <4>3 DEF Removed
    <3> QED BY <3>2, <3>3, <3>4
  <2>2. CASE \E i2 \in 1..Len(t) : i = Len(s) + i2
    <3>1. PICK i2 \in 1..Len(t) : i = Len(s) + i2
      BY <2>2
    <3>2. /\ t[i2] \in Commands
          /\ \E j \in 1..(i2 - 1) :
                /\ t[j] \in {WaitReady, Timeout}
                /\ \A k \in (j + 1)..(i2 - 1) : t[k] \in Buffered(n)
      BY <1>2, <1>3, <3>1 DEF Program, Part, Guarded
    <3>3. PICK j \in 1..(i2 - 1) :
                /\ t[j] \in {WaitReady, Timeout}
                /\ \A k \in (j + 1)..(i2 - 1) : t[k] \in Buffered(n)
      BY <3>2
    <3>4. Len(s) + j \in 1..(i - 1) /\ u[Len(s) + j] = t[j]
      BY <1>2, <3>1
    <3>5. ASSUME NEW k \in (Len(s) + j + 1)..(i - 1) PROVE u[k] \in Buffered(n)
      <4>1. k - Len(s) \in (j + 1)..(i2 - 1) /\ k - Len(s) \in 1..Len(t)
            /\ Len(s) + (k - Len(s)) = k
        BY <1>2, <3>1
      <4> QED BY <1>2, <3>3, <4>1
    <3>6. ASSUME n # "P0" PROVE Removed(u, late, i)
      <4>1. Removed(t, late, i2)
        BY <3>2, <3>6 DEF Program, Part
      <4>2. PICK m \in (i2 + 1)..Len(t) :
               /\ t[m] \in {Removal, WaitFinish}
               /\ \A k \in (i2 + 1)..(m - 1) : t[k] \in Between(late)
        BY <4>1 DEF Removed
      <4>3. Len(s) + m \in (i + 1)..Len(u) /\ u[Len(s) + m] = t[m]
        BY <1>2, <3>1
      <4>4. ASSUME NEW k \in (i + 1)..((Len(s) + m) - 1) PROVE u[k] \in Between(late)
        <5>1. k - Len(s) \in (i2 + 1)..(m - 1) /\ k - Len(s) \in 1..Len(t)
              /\ Len(s) + (k - Len(s)) = k
          BY <1>2, <3>1
        <5> QED BY <1>2, <4>2, <5>1
      <4> QED BY <4>2, <4>3, <4>4 DEF Removed
    <3> QED BY <3>3, <3>4, <3>5, <3>6
  <2>3. i \in 1..Len(s) \/ \E i2 \in 1..Len(t) : i = Len(s) + i2
    <3>1. i \notin 1..Len(s) => i - Len(s) \in 1..Len(t) /\ i = Len(s) + (i - Len(s))
      BY <1>2
    <3> QED BY <3>1
  <2> QED BY <2>1, <2>2, <2>3
<1>4. Guarded(u, n, FALSE)
  BY <1>3 DEF Guarded
<1>5. Program(u, n, late)
  BY <1>2, <1>3, <1>4 DEF Program, Part
<1> QED BY <1>5 DEF u

\* The programs of the stores are one store each.
LEMMA LoadInstructions ==
    ASSUME NEW a \in Areas, NEW c \in {"blank", "new"}, NEW r \in {"ADDR", "DATA"}
    PROVE  /\ \E l \in Loads : write_data_op(a, c) = <<l>>
           /\ \E l \in Loads : write_data_words_op(a, c) = <<l>>
           /\ \E l \in Loads : write_byte_op(r, a) = <<l>>
BY DEF write_data_op, write_data_words_op, write_byte_op, Do, Loads

\* Ready, the command, and how it ends.
LEMMA PlainCommand ==
    ASSUME NEW n, NEW late, NEW x \in Nat \ {0}
    PROVE  /\ Program(Ready \o execute_nvm_command(x) \o Finish, n, late)
           /\ n = "P0" => Program(Ready \o execute_nvm_command(x) \o Ready, n, late)
<1>1. Part(Ready \o execute_nvm_command(x), n, late, FALSE, TRUE)
  BY PartStart, PartCommand
<1>2. Part(Ready \o execute_nvm_command(x) \o Finish, n, late, FALSE, FALSE)
  BY <1>1, PartFinish
<1>3. n = "P0" => Part(Ready \o execute_nvm_command(x) \o Ready, n, late, TRUE, TRUE)
  BY <1>1, PartReady
<1> QED BY <1>2, <1>3, PartEnds

\* Ready, the command, a store, and how it ends: P:2.
LEMMA CommandThenLoad ==
    ASSUME NEW n, NEW late, NEW x \in Nat \ {0}, NEW s, \E l \in Loads : s = <<l>>
    PROVE  Program(Ready \o execute_nvm_command(x) \o s \o Finish, n, late)
<1>1. Part(Ready \o execute_nvm_command(x), n, late, FALSE, TRUE)
  BY PartStart, PartCommand
<1>2. Part(Ready \o execute_nvm_command(x) \o s, n, late, FALSE, TRUE)
  BY <1>1, PartLoad
<1>3. Part(Ready \o execute_nvm_command(x) \o s \o Finish, n, late, FALSE, FALSE)
  BY <1>2, PartFinish
<1> QED BY <1>3, PartEnds

\* Ready, a store, the command, and how it ends: P:0 and P:3.
LEMMA LoadThenCommand ==
    ASSUME NEW n, n \notin {"P2", "P4"}, NEW late, NEW x \in Nat \ {0}, NEW s,
           \E l \in Loads : s = <<l>>
    PROVE  /\ Program(Ready \o s \o execute_nvm_command(x) \o Finish, n, late)
           /\ n = "P0" => Program(Ready \o s \o execute_nvm_command(x) \o Ready, n, late)
<1>1. Part(Ready \o s, n, late, TRUE, FALSE)
  <2>1. PICK l \in Loads : s = <<l>>
    OBVIOUS
  <2>2. Part(Ready \o s, n, late, TRUE /\ n \notin {"P2", "P4"}, FALSE)
    BY <2>1, PartStart, PartLoad
  <2> QED BY <2>2
<1>2. Part(Ready \o s \o execute_nvm_command(x), n, late, FALSE, TRUE)
  BY <1>1, PartCommand
<1>3. Part(Ready \o s \o execute_nvm_command(x) \o Finish, n, late, FALSE, FALSE)
  BY <1>2, PartFinish
<1>4. n = "P0" => Part(Ready \o s \o execute_nvm_command(x) \o Ready, n, late, TRUE, TRUE)
  BY <1>2, PartReady
<1> QED BY <1>3, <1>4, PartEnds

\* The page buffer cleared and loaded, then the command: P:0, and P:3, which
\* leaves the command if its last wait is too late.
LEMMA WriteNvm ==
    ASSUME NEW n, n \notin {"P2", "P4"}, NEW late, n = "P0" \/ late,
           NEW x \in Nat \ {0}, NEW y \in Nat \ {0}, NEW s, \E l \in Loads : s = <<l>>
    PROVE  /\ Program(Ready \o execute_nvm_command(y) \o Ready \o s \o execute_nvm_command(x)
                      \o Ready \o NOCMD, n, late)
           /\ n = "P0" => Program(Ready \o execute_nvm_command(y) \o Ready \o s
                                  \o execute_nvm_command(x) \o Ready, n, late)
<1>1. Part(Ready \o execute_nvm_command(y), n, late, FALSE, TRUE)
  BY PartStart, PartCommand
<1>2. Part(Ready \o execute_nvm_command(y) \o Ready, n, late, TRUE, TRUE)
  BY <1>1, PartReady
<1>3. Part(Ready \o execute_nvm_command(y) \o Ready \o s, n, late, TRUE, TRUE)
  <2>1. PICK l \in Loads : s = <<l>>
    OBVIOUS
  <2>2. Part(Ready \o execute_nvm_command(y) \o Ready \o s, n, late,
             TRUE /\ n \notin {"P2", "P4"}, TRUE)
    BY <1>2, <2>1, PartLoad
  <2> QED BY <2>2
<1>4. Part(Ready \o execute_nvm_command(y) \o Ready \o s \o execute_nvm_command(x), n, late,
           FALSE, TRUE)
  BY <1>3, PartCommand
<1>5. Part(Ready \o execute_nvm_command(y) \o Ready \o s \o execute_nvm_command(x) \o Ready,
           n, late, TRUE, TRUE)
  BY <1>4, PartReady
<1>6. Part(Ready \o execute_nvm_command(y) \o Ready \o s \o execute_nvm_command(x) \o Ready
           \o NOCMD, n, late, FALSE, FALSE)
  BY <1>5, PartFinish
<1> QED BY <1>5, <1>6, PartEnds

\* What the functions of a driver are, for the target it is made for.
LateTo(n) == n \in {"P3", "P5"}

DriverPrograms(d, n) ==
    /\ Program(d.chip_erase, n, FALSE) /\ Program(d.erase_eeprom, n, FALSE)
    /\ Program(d.erase_user_row, n, FALSE)
    /\ \A p \in Pages : Program(d.erase_flash_page[p], n, FALSE)
    /\ Program(d.write_eeprom, n, LateTo(n)) /\ Program(d.write_user_row, n, LateTo(n))
    /\ \A a \in {"fuses", "lockbits"} : Program(d.write_fuse[a], n, LateTo(n))
    /\ \A p \in Pages : Program(d.write_flash[p], n, LateTo(n))

\* The memories are areas.
LEMMA AreaNames ==
    Pages \subseteq Areas /\ {"eeprom", "user_row", "fuses", "lockbits"} \subseteq Areas
BY DEF Areas

\* No command of a driver has the code 0.
LEMMA Codes ==
    /\ \A x \in {P0_NVMCMD.WRITE_PAGE, P0_NVMCMD.ERASE_PAGE, P0_NVMCMD.ERASE_WRITE_PAGE,
                P0_NVMCMD.PAGE_BUFFER_CLR, P0_NVMCMD.CHIP_ERASE, P0_NVMCMD.ERASE_EEPROM,
                P0_NVMCMD.WRITE_FUSE} : x \in Nat \ {0}
    /\ \A x \in {P2_NVMCMD.FLASH_WRITE, P2_NVMCMD.FLASH_PAGE_ERASE,
                P2_NVMCMD.EEPROM_ERASE_WRITE, P2_NVMCMD.CHIP_ERASE, P2_NVMCMD.EEPROM_ERASE} :
          x \in Nat \ {0}
    /\ \A x \in {P3_NVMCMD.FLASH_PAGE_WRITE, P3_NVMCMD.FLASH_PAGE_ERASE,
                P3_NVMCMD.FLASH_PAGE_BUFFER_CLEAR, P3_NVMCMD.EEPROM_PAGE_ERASE_WRITE,
                P3_NVMCMD.EEPROM_PAGE_BUFFER_CLEAR, P3_NVMCMD.CHIP_ERASE,
                P3_NVMCMD.EEPROM_ERASE} : x \in Nat \ {0}
BY DEF P0_NVMCMD, P2_NVMCMD, P3_NVMCMD

\* The functions of NvmUpdiAvrTiny (nvmp0.py).
LEMMA DriverP0 == DriverPrograms(NvmUpdiP0, "P0")
<1> DEFINE late == LateTo("P0")
<1>1. /\ Program(P0_chip_erase, "P0", FALSE) /\ Program(P0_erase_eeprom, "P0", FALSE)
  BY PlainCommand, Codes DEF P0_chip_erase, P0_erase_eeprom
<1>2. ASSUME NEW a \in Areas
      PROVE  Program(Ready \o write_data_op(a, "blank")
                     \o execute_nvm_command(P0_NVMCMD.ERASE_PAGE) \o Ready, "P0",
                     FALSE)
  BY LoadInstructions, Codes, LoadThenCommand
<1>3. \A p \in Pages : Program(P0_erase_flash_page(p), "P0", FALSE)
  BY <1>2, AreaNames DEF P0_erase_flash_page
<1>4. Program(P0_erase_user_row, "P0", FALSE)
  BY <1>2, AreaNames DEF P0_erase_user_row
<1>5. ASSUME NEW s, \E l \in Loads : s = <<l>>, NEW x \in Nat \ {0}
      PROVE  Program(P0_write_nvm(s, x), "P0", late)
  BY <1>5, WriteNvm, Codes DEF P0_write_nvm
<1>6. \A p \in Pages : Program(P0_write_flash(p), "P0", late)
  BY <1>5, AreaNames, LoadInstructions, Codes DEF P0_write_flash
<1>7. \A a \in Areas : Program(P0_write_eeprom(a), "P0", late)
  BY <1>5, LoadInstructions, Codes DEF P0_write_eeprom
<1>8. ASSUME NEW a \in Areas
      PROVE  Program(P0_write_fuse(a), "P0", late)
  <2>1. PICK l \in Loads : write_byte_op("ADDR", a) = <<l>>
    BY LoadInstructions
  <2>2. PICK m \in Loads : write_byte_op("DATA", a) = <<m>>
    BY LoadInstructions
  <2>3. Part(Ready \o <<l>>, "P0", late, TRUE, FALSE)
    <3>1. Part(Ready \o <<l>>, "P0", late, TRUE /\ "P0" \notin {"P2", "P4"}, FALSE)
      BY PartStart, PartLoad
    <3> QED BY <3>1
  <2>4. Part(Ready \o <<l>> \o <<m>>, "P0", late, TRUE, FALSE)
    <3>1. Part(Ready \o <<l>> \o <<m>>, "P0", late, TRUE /\ "P0" \notin {"P2", "P4"}, FALSE)
      BY <2>3, PartLoad
    <3> QED BY <3>1
  <2>5. Part(Ready \o <<l>> \o <<m>> \o execute_nvm_command(P0_NVMCMD.WRITE_FUSE),
             "P0", late, FALSE, TRUE)
    BY <2>4, PartCommand, Codes
  <2>6. Part(Ready \o <<l>> \o <<m>> \o execute_nvm_command(P0_NVMCMD.WRITE_FUSE) \o Ready,
             "P0", late, TRUE, TRUE)
    BY <2>5, PartReady
  <2> QED BY <2>1, <2>2, <2>6, PartEnds DEF P0_write_fuse
<1> HIDE DEF late
<1>9. DriverPrograms(NvmUpdiP0, "P0") <=>
        /\ Program(P0_chip_erase, "P0", FALSE) /\ Program(P0_erase_eeprom, "P0", FALSE)
        /\ Program(P0_erase_user_row, "P0", FALSE)
        /\ \A p \in Pages : Program(P0_erase_flash_page(p), "P0", FALSE)
        /\ Program(P0_write_eeprom("eeprom"), "P0", late)
        /\ Program(P0_write_eeprom("user_row"), "P0", late)
        /\ \A a \in {"fuses", "lockbits"} : Program(P0_write_fuse(a), "P0", late)
        /\ \A p \in Pages : Program(P0_write_flash(p), "P0", late)
  BY DEF DriverPrograms, NvmUpdiP0, Pages, late
<1> QED BY <1>1, <1>3, <1>4, <1>6, <1>7, <1>8, <1>9, AreaNames

\* The functions of the drivers that write a word at a time (nvmp2.py, nvmp4.py).
LEMMA DriverP2 == ASSUME NEW n, ~LateTo(n) PROVE DriverPrograms(NvmUpdiP2, n)
<1>1. Program(P2_chip_erase, n, FALSE) /\ Program(P2_erase_eeprom, n, FALSE)
  BY PlainCommand, Codes DEF P2_chip_erase, P2_erase_eeprom
<1>2. \A a \in Areas : Program(P2_erase_flash_page(a), n, FALSE)
  BY CommandThenLoad, Codes, LoadInstructions DEF P2_erase_flash_page
<1>3. \A a \in Areas : Program(P2_write_eeprom(a), n, FALSE)
  BY CommandThenLoad, Codes, LoadInstructions DEF P2_write_eeprom
<1>4. ASSUME NEW s, \E l \in Loads : s = <<l>>
      PROVE  Program(P2_write_nvm(s), n, FALSE)
  BY <1>4, CommandThenLoad, Codes DEF P2_write_nvm
<1>5. \A a \in Areas : Program(P2_write_flash(a), n, FALSE)
  BY <1>4, LoadInstructions DEF P2_write_flash
<1>6. Program(P2_write_user_row, n, FALSE)
  BY <1>4, LoadInstructions, AreaNames DEF P2_write_user_row
<1>7. LateTo(n) = FALSE
  BY DEF LateTo
<1>8. DriverPrograms(NvmUpdiP2, n) <=>
        /\ Program(P2_chip_erase, n, FALSE) /\ Program(P2_erase_eeprom, n, FALSE)
        /\ Program(P2_erase_flash_page("user_row"), n, FALSE)
        /\ \A p \in Pages : Program(P2_erase_flash_page(p), n, FALSE)
        /\ Program(P2_write_eeprom("eeprom"), n, FALSE)
        /\ Program(P2_write_user_row, n, FALSE)
        /\ \A a \in {"fuses", "lockbits"} : Program(P2_write_eeprom(a), n, FALSE)
        /\ \A p \in Pages : Program(P2_write_flash(p), n, FALSE)
  BY <1>7 DEF DriverPrograms, NvmUpdiP2, Pages
<1> QED BY <1>1, <1>2, <1>3, <1>5, <1>6, <1>8, AreaNames

\* The functions of the drivers that write a page at a time (nvmp3.py, nvmp5.py).
LEMMA DriverP3 == ASSUME NEW n, LateTo(n) PROVE DriverPrograms(NvmUpdiP3, n)
<1>0. n \notin {"P2", "P4"} /\ LateTo(n) = TRUE
  BY DEF LateTo
<1>1. Program(P3_chip_erase, n, FALSE) /\ Program(P3_erase_eeprom, n, FALSE)
  BY PlainCommand, Codes DEF P3_chip_erase, P3_erase_eeprom
<1>2. \A a \in Areas : Program(P3_erase_flash_page(a), n, FALSE)
  BY <1>0, LoadThenCommand, Codes, LoadInstructions DEF P3_erase_flash_page
<1>3. ASSUME NEW s, \E l \in Loads : s = <<l>>, NEW x \in Nat \ {0}, NEW y \in Nat \ {0}
      PROVE  Program(P3_write_nvm(s, x, y), n, TRUE)
  BY <1>0, <1>3, WriteNvm, Codes DEF P3_write_nvm
<1>4. \A a \in Areas : Program(P3_write_flash(a), n, TRUE)
  BY <1>3, LoadInstructions, Codes DEF P3_write_flash
<1>5. \A a \in Areas : Program(P3_write_eeprom(a), n, TRUE)
  BY <1>3, LoadInstructions, Codes DEF P3_write_eeprom
<1>6. DriverPrograms(NvmUpdiP3, n) <=>
        /\ Program(P3_chip_erase, n, FALSE) /\ Program(P3_erase_eeprom, n, FALSE)
        /\ Program(P3_erase_flash_page("user_row"), n, FALSE)
        /\ \A p \in Pages : Program(P3_erase_flash_page(p), n, FALSE)
        /\ Program(P3_write_eeprom("eeprom"), n, TRUE)
        /\ Program(P3_write_flash("user_row"), n, TRUE)
        /\ \A a \in {"fuses", "lockbits"} : Program(P3_write_eeprom(a), n, TRUE)
        /\ \A p \in Pages : Program(P3_write_flash(p), n, TRUE)
  BY <1>0 DEF DriverPrograms, NvmUpdiP3, Pages
<1> QED BY <1>1, <1>2, <1>4, <1>5, <1>6, AreaNames

\* The functions of the driver of any target.
LEMMA EveryDriver ==
    ASSUME NEW n \in Drivers \ {"none"}
    PROVE  DriverPrograms(NvmDriver[n], n)
<1>1. /\ NvmDriver["P0"] = NvmUpdiP0 /\ NvmDriver["P2"] = NvmUpdiP2 /\ NvmDriver["P3"] = NvmUpdiP3
      /\ NvmDriver["P4"] = NvmUpdiP2 /\ NvmDriver["P5"] = NvmUpdiP3
  BY DEF NvmDriver, NvmUpdiP4, NvmUpdiP5
<1>2. ~LateTo("P2") /\ ~LateTo("P4") /\ LateTo("P3") /\ LateTo("P5")
  BY DEF LateTo
<1> QED BY <1>1, <1>2, DriverP0, DriverP2, DriverP3 DEF Drivers

-----------------------------------------------------------------------------
(* The calls                                                               *)

HandlersLast(s) == \A i \in 1..Len(s) : s[i] \in Handlers => i = Len(s)

\* What can be left of a call to a target whose interface is n.
Left(s, n, d, late) ==
    /\ s \in Seq(Instructions(n, d))
    /\ HandlersLast(s) /\ Guarded(s, n, FALSE) /\ Finished(s, n, late)

\* Outside the drivers there is no command, so nothing to guard.
LEMMA OutsideLeft ==
    ASSUME NEW s \in Seq(Plain3), NEW n, NEW d, NEW late
    PROVE  /\ Left(s, n, d, late)
           /\ \A h \in Handlers : Left(s \o <<h>>, n, d, late)
<1>1. s \in Seq(Instructions(n, d))
  BY PlainInstructions
<1>2. \A i \in 1..Len(s) : s[i] \in Plain3 /\ s[i] \notin Commands /\ s[i] \notin Handlers
  <2>1. ASSUME NEW o \in Plain3 PROVE o \notin Handlers
    <3>1. o.op # "except"
      BY DEF Plain3, Plain, Frames, Loads, Raises, Branching
    <3> QED BY <3>1 DEF Handlers
  <2> QED BY <2>1, Apart
<1>3. Left(s, n, d, late)
  BY <1>1, <1>2 DEF Left, HandlersLast, Guarded, Finished
<1>4. ASSUME NEW h \in Handlers PROVE Left(s \o <<h>>, n, d, late)
  <2> DEFINE t == s \o <<h>>
  <2>1. h \in Instructions(n, d) /\ h \notin Commands
    BY Apart DEF Instructions
  <2>2. /\ t \in Seq(Instructions(n, d)) /\ Len(t) = Len(s) + 1
        /\ \A k \in 1..Len(s) : t[k] = s[k]
        /\ t[Len(s) + 1] = h
    BY <1>1, <2>1, Appended
  <2> HIDE DEF t
  <2>3. \A i \in 1..Len(t) : t[i] \notin Commands /\ (t[i] \in Handlers => i = Len(t))
    <3>1. \A i \in 1..Len(t) : i \in 1..Len(s) \/ i = Len(s) + 1
      BY <2>2
    <3> QED BY <1>2, <2>1, <2>2, <3>1
  <2>4. Left(t, n, d, late)
    BY <2>2, <2>3 DEF Left, HandlersLast, Guarded, Finished
  <2> QED BY <2>4 DEF t
<1> QED BY <1>3, <1>4

\* A function of a driver can be left to do by that driver.
LEMMA ProgramLeft ==
    ASSUME NEW s, NEW n, NEW d, d # "none", NEW late, Program(s, n, late)
    PROVE  /\ Left(s, n, d, late)
           /\ \A h \in Handlers : Left(s \o <<h>>, n, d, late)
<1>1. Driving \cup Loads \subseteq Instructions(n, d)
  <2>1. Driving \subseteq Instructions(n, d)
    BY DEF Instructions
  <2>2. Loads \subseteq Instructions(n, d)
    BY PlainInstructions DEF Plain3, Plain
  <2> QED BY <2>1, <2>2
<1>2. s \in Seq(Driving \cup Loads) /\ Len(s) \in Nat
  BY DEF Program, Part
<1>3. s \in Seq(Instructions(n, d))
  BY <1>1, <1>2, SeqGrows
<1>4. \A o \in Driving \cup Loads : o \notin Handlers
  <2>1. \A o \in Driving \cup Loads : o.op # "except"
    BY DEF Driving, Commands, Removal, Command, WaitReady, WaitFinish, Loads
  <2> QED BY <2>1 DEF Handlers
<1>5. \A i \in 1..Len(s) : s[i] \notin Handlers
  BY <1>2, <1>4
<1>6. Left(s, n, d, late)
  BY <1>3, <1>5 DEF Left, HandlersLast, Finished, Program, Part
<1>7. ASSUME NEW h \in Handlers PROVE Left(s \o <<h>>, n, d, late)
  <2> DEFINE t == s \o <<h>>
  <2>1. h \in Instructions(n, d) /\ h \notin Commands
    BY Apart DEF Instructions
  <2>2. /\ t \in Seq(Instructions(n, d)) /\ Len(t) = Len(s) + 1
        /\ \A k \in 1..Len(s) : t[k] = s[k]
        /\ t[Len(s) + 1] = h
    BY <1>3, <2>1, Appended
  <2>3. Guarded(t, n, FALSE)
    BY <1>3, <1>6, <2>1, GuardedStays DEF Left
  <2>4. \A i \in 1..Len(s) : Removed(s, late, i) => Removed(t, late, i)
    BY <1>3, <2>1, RemovedStays
  <2> HIDE DEF t
  <2>5. \A i \in 1..Len(t) : i \in 1..Len(s) \/ i = Len(t)
    BY <1>2, <2>2
  <2>6. HandlersLast(t)
    BY <1>5, <2>2, <2>5 DEF HandlersLast
  <2>7. Finished(t, n, late)
    BY <1>2, <1>6, <2>1, <2>2, <2>4, <2>5 DEF Left, Finished
  <2>8. Left(t, n, d, late)
    BY <2>2, <2>3, <2>6, <2>7 DEF Left
  <2> QED BY <2>8 DEF t
<1> QED BY <1>6, <1>7

\* A program of one instruction.
LEMMA OneStep == ASSUME NEW S, NEW x \in S PROVE <<x>> \in Seq(S)
OBVIOUS

\* The programs of link.py and of reset.
LEMMA FrameInstructions ==
    /\ \A r \in Registers : stcs(r) \in Seq(Plain) /\ Do("ldcs", r) \in Seq(Plain)
                         /\ Do("break", r) \in Seq(Plain)
    /\ \A k \in Keys : key(k) \in Seq(Plain)
    /\ send_double_break \in Seq(Plain)
    /\ \A e \in Raisable : Raise(e) \in Seq(Plain)
    /\ \A l \in Loads : <<l>> \in Seq(Plain)
    /\ reset(TRUE) \in Seq(Plain) /\ reset(FALSE) \in Seq(Plain)
<1>1. \A f \in {"break", "double_break", "ldcs", "stcs"}, r \in Registers : Do(f, r) \in Seq(Plain)
  BY DEF Do, Plain, Frames
<1>2. \A k \in Keys : Do("key", k) \in Seq(Plain)
  BY DEF Do, Plain, Frames
<1>3. \A e \in Raisable : Raise(e) \in Seq(Plain)
  BY DEF Raise, Plain, Raises
<1>4. \A l \in Loads : <<l>> \in Seq(Plain)
  BY DEF Plain
<1>5. \A r \in Registers : stcs(r) \in Seq(Plain)
  BY <1>1 DEF stcs
<1>6. reset(TRUE) \in Seq(Plain) /\ reset(FALSE) \in Seq(Plain)
  <2>1. reset(TRUE) = stcs("RESET_REQ") /\ reset(FALSE) = stcs("RESET_REQ_off")
    BY DEF reset
  <2>2. "RESET_REQ" \in Registers /\ "RESET_REQ_off" \in Registers
    BY DEF Registers
  <2> QED BY <1>5, <2>1, <2>2
<1>7. send_double_break \in Seq(Plain)
  <2>1. "none" \in Registers
    BY DEF Registers
  <2> QED BY <1>1, <2>1 DEF send_double_break
<1>8. \A k \in Keys : key(k) \in Seq(Plain)
  BY <1>2 DEF key
<1>9. \A r \in Registers : Do("ldcs", r) \in Seq(Plain) /\ Do("break", r) \in Seq(Plain)
  BY <1>1
<1> QED BY <1>3, <1>4, <1>5, <1>6, <1>7, <1>8, <1>9

\* If takes programs of one level to a program of the next: the first branching,
LEMMA Branches ==
    ASSUME NEW S, NEW a \in Seq(S), NEW b \in Seq(S), NEW t \in Tests
    PROVE  If(t, a, b) \in Seq(Branching(S))
<1>1. [op |-> "if", test |-> t, then |-> a, else |-> b] \in Branching(S)
  BY DEF Branching
<1> QED BY <1>1, OneStep DEF If

\* a branching whose branches do not branch,
LEMMA Branches2 ==
    ASSUME NEW a \in Seq(Plain), NEW b \in Seq(Plain), NEW t \in Tests
    PROVE  If(t, a, b) \in Seq(Plain2)
<1>1. Seq(Branching(Plain)) \subseteq Seq(Plain2)
  BY SeqGrows DEF Plain2
<1> QED BY <1>1, Branches

\* and one whose branches may branch once.
LEMMA Branches3 ==
    ASSUME NEW a \in Seq(Plain2), NEW b \in Seq(Plain2), NEW t \in Tests
    PROVE  If(t, a, b) \in Seq(Plain3)
<1>1. Seq(Branching(Plain2)) \subseteq Seq(Plain3)
  BY SeqGrows DEF Plain3
<1> QED BY <1>1, Branches

\* The functions that give no command.
LEMMA PlainSteps ==
    /\ \A r \in Registers : stcs(r) \in Seq(Plain3) /\ Do("ldcs", r) \in Seq(Plain3)
                            /\ Do("break", r) \in Seq(Plain3)
    /\ \A k \in Keys : key(k) \in Seq(Plain3)
    /\ send_double_break \in Seq(Plain3) /\ read_sib \in Seq(Plain3)
    /\ <<[op |-> "select"]>> \in Seq(Plain3) /\ Missing \in Seq(Plain)
    /\ \A e \in Raisable : Raise(e) \in Seq(Plain3)
    /\ \A l \in Loads : <<l>> \in Seq(Plain3)
    /\ reset(TRUE) \in Seq(Plain3) /\ reset(FALSE) \in Seq(Plain3)
<1>1. /\ [op |-> "sib"] \in Plain /\ [op |-> "select"] \in Plain /\ [op |-> "short"] \in Plain
  BY DEF Plain
<1>2. /\ <<[op |-> "sib"]>> \in Seq(Plain) /\ <<[op |-> "select"]>> \in Seq(Plain)
      /\ <<[op |-> "short"]>> \in Seq(Plain)
  BY <1>1, OneStep
<1>3. Seq(Plain) \subseteq Seq(Plain3)
  BY PlainGrows
<1> QED BY <1>2, <1>3, FrameInstructions DEF read_sib, Missing

\* The types of init_datalink and init_session_parameters (link.py).
LEMMA InitDatalink == init_datalink \in Seq(Plain3) /\ init_session_parameters \in Seq(Plain)
<1>1. init_session_parameters \in Seq(Plain)
  BY FrameInstructions, SeqJoins DEF init_session_parameters, Registers
<1>2. /\ <<>> \in Seq(Plain) /\ <<>> \in Seq(Plain2) /\ "check_datalink" \in Tests
      /\ Raise("UpdiError") \in Seq(Plain)
  BY FrameInstructions DEF Tests, Raisable
<1>3. If("check_datalink", <<>>, Raise("UpdiError")) \in Seq(Plain2)
  BY <1>2, Branches2
<1>4. send_double_break \o init_session_parameters \in Seq(Plain2)
  BY <1>1, FrameInstructions, PlainGrows, SeqJoins
<1>5. send_double_break \o init_session_parameters
      \o If("check_datalink", <<>>, Raise("UpdiError")) \in Seq(Plain2)
  BY <1>3, <1>4, SeqJoins
<1>6. If("check_datalink", <<>>,
         send_double_break \o init_session_parameters
         \o If("check_datalink", <<>>, Raise("UpdiError"))) \in Seq(Plain3)
  BY <1>2, <1>5, Branches3
<1>7. init_session_parameters \in Seq(Plain3)
  BY <1>1, PlainGrows
<1>8. init_datalink \in Seq(Plain3)
  BY <1>6, <1>7, SeqJoins DEF init_datalink
<1> QED BY <1>1, <1>8

\* The type of a read and what depends on its answer.
LEMMA ReadData ==
    ASSUME NEW a \in Seq(Plain), NEW b \in Seq(Plain)
    PROVE  read_data_op(a, b) \in Seq(Plain2)
BY Branches2 DEF read_data_op, Tests

\* The type of read_device_info (application.py).
LEMMA DeviceInfo == read_device_info \in Seq(Plain3)
<1>1. /\ <<>> \in Seq(Plain) /\ <<>> \in Seq(Plain2)
      /\ {"NVMPROG", "sib_is_None"} \subseteq Tests
      /\ Raise("UpdiError") \in Seq(Plain) /\ Raise("IndexError") \in Seq(Plain)
  BY FrameInstructions DEF Tests, Raisable
<1>2. If("sib_is_None", Raise("UpdiError"), <<>>) \in Seq(Plain2)
  BY <1>1, Branches2
<1>3. send_double_break \o read_sib \in Seq(Plain2)
  <2>1. [op |-> "sib"] \in Plain
    BY DEF Plain
  <2>2. read_sib \in Seq(Plain)
    BY <2>1, OneStep DEF read_sib
  <2> QED BY <2>2, FrameInstructions, PlainGrows, SeqJoins
<1>4. send_double_break \o read_sib \o If("sib_is_None", Raise("UpdiError"), <<>>) \in Seq(Plain2)
  BY <1>2, <1>3, SeqJoins
<1>5. If("sib_is_None",
         send_double_break \o read_sib \o If("sib_is_None", Raise("UpdiError"), <<>>), <<>>)
      \in Seq(Plain3)
  BY <1>1, <1>4, Branches3
<1>6. /\ read_data_op(<<>>, Missing) \in Seq(Plain2)
      /\ If("short", Raise("IndexError"), <<>>) \in Seq(Plain2)
  <2>1. Missing \in Seq(Plain) /\ "short" \in Tests
    BY PlainSteps DEF Tests
  <2> QED BY <1>1, <2>1, ReadData, Branches2
<1>7. If("NVMPROG", read_data_op(<<>>, Missing) \o read_data_op(<<>>, Missing)
                    \o If("short", Raise("IndexError"), <<>>), <<>>) \in Seq(Plain3)
  BY <1>1, <1>6, Branches3, SeqJoins
<1>8. "STATUSA" \in Registers
  BY DEF Registers
<1> QED BY <1>5, <1>7, <1>8, PlainSteps, SeqJoins DEF read_device_info

\* The type of sending a key and checking that it was taken.
LEMMA NeedKeyType == ASSUME NEW k \in Keys PROVE NeedKey(k) \in Seq(Plain2)
<1>1. <<>> \in Seq(Plain) /\ Raise("UpdiError") \in Seq(Plain) /\ k \in Tests
  BY FrameInstructions DEF Tests, Raisable
<1>2. key(k) \in Seq(Plain2)
  BY FrameInstructions, PlainGrows
<1> QED BY <1>1, <1>2, Branches2, SeqJoins DEF NeedKey

\* The empty program.
LEMMA Nothing == ASSUME NEW S PROVE <<>> \in Seq(S) /\ Len(<<>>) = 0
OBVIOUS

\* The types of the waits outside the drivers (application.py).
LEMMA Waits ==
    /\ While("unlocked", 100, <<>>, Raise("LockedError")) \in Seq(Plain2)
    /\ While("unlocked", 500, <<>>, Raise("UpdiError")) \in Seq(Plain2)
    /\ While("urowprog", 500, <<>>, Raise("UpdiError")) \in Seq(Plain2)
    /\ While("no_urowprog", 500, <<>>, reset(TRUE) \o reset(FALSE) \o Raise("UpdiError"))
       \in Seq(Plain2)
<1>1. <<>> \in Seq(Plain) /\ Raise("LockedError") \in Seq(Plain)
      /\ Raise("UpdiError") \in Seq(Plain)
  BY Nothing, FrameInstructions DEF Raisable
<1>2. reset(TRUE) \o reset(FALSE) \in Seq(Plain)
  BY FrameInstructions, SeqJoins
<1>3. reset(TRUE) \o reset(FALSE) \o Raise("UpdiError") \in Seq(Plain)
  BY <1>1, <1>2, SeqJoins
<1>4. ASSUME NEW u \in {"unlocked", "urowprog", "no_urowprog"}, NEW s \in Seq(Plain)
      PROVE  While(u, 100, <<>>, s) \in Seq(Plain2) /\ While(u, 500, <<>>, s) \in Seq(Plain2)
  <2>1. \A ms \in {100, 500} : [op |-> "wait", until |-> u, ms |-> ms, then |-> <<>>, else |-> s]
           \in Branching(Plain)
    BY <1>1 DEF Branching
  <2>2. \A ms \in {100, 500} : While(u, ms, <<>>, s) \in Seq(Plain2)
    BY <2>1, OneStep DEF While, Plain2
  <2> QED BY <2>2
<1>5. While("unlocked", 100, <<>>, Raise("LockedError")) \in Seq(Plain2)
  BY <1>1, <1>4
<1>6. /\ While("unlocked", 500, <<>>, Raise("UpdiError")) \in Seq(Plain2)
      /\ While("urowprog", 500, <<>>, Raise("UpdiError")) \in Seq(Plain2)
  BY <1>1, <1>4
<1>7. While("no_urowprog", 500, <<>>, reset(TRUE) \o reset(FALSE) \o Raise("UpdiError"))
      \in Seq(Plain2)
  BY <1>3, <1>4
<1> QED BY <1>5, <1>6, <1>7

\* The types of the functions that enter and leave the modes (application.py).
LEMMA ProgmodeTypes ==
    /\ enter_progmode \in Seq(Plain3) /\ leave_progmode \in Seq(Plain3)
    /\ unlock \in Seq(Plain2) /\ write_user_row_locked_device \in Seq(Plain3)
<1>1. /\ reset(TRUE) \in Seq(Plain2) /\ reset(FALSE) \in Seq(Plain2)
      /\ stcs("UPDIDIS") \in Seq(Plain2) /\ stcs("UROW_FINAL") \in Seq(Plain2)
      /\ stcs("KEY_STATUS") \in Seq(Plain2)
  BY FrameInstructions, PlainGrows DEF Registers
<1>2. /\ NeedKey("NVMProg") \in Seq(Plain2) /\ NeedKey("NVMErase") \in Seq(Plain2)
      /\ NeedKey("NVMUs&te") \in Seq(Plain2)
  BY NeedKeyType DEF Keys
<1>3. /\ <<>> \in Seq(Plain) /\ <<>> \in Seq(Plain2) /\ "NVMPROG" \in Tests
      /\ {"LockedError", "UpdiError"} \subseteq Raisable
  BY DEF Tests, Raisable
<1> DEFINE
      Unlocked1 == While("unlocked", 100, <<>>, Raise("LockedError"))
      Unlocked5 == While("unlocked", 500, <<>>, Raise("UpdiError"))
      Entered == While("urowprog", 500, <<>>, Raise("UpdiError"))
      Gone == While("no_urowprog", 500, <<>>, reset(TRUE) \o reset(FALSE) \o Raise("UpdiError"))
<1>4. /\ Unlocked1 \in Seq(Plain2) /\ Unlocked5 \in Seq(Plain2)
      /\ Entered \in Seq(Plain2) /\ Gone \in Seq(Plain2)
  BY Waits
<1>14. /\ enter_progmode =
            If("NVMPROG", <<>>, reset(TRUE) \o NeedKey("NVMProg") \o reset(TRUE) \o reset(FALSE)
                               \o Unlocked1 \o If("NVMPROG", <<>>, Raise("UpdiError")))
       /\ unlock = NeedKey("NVMErase") \o reset(TRUE) \o reset(FALSE) \o Unlocked5
       /\ write_user_row_locked_device =
            NeedKey("NVMUs&te") \o reset(TRUE) \o reset(FALSE) \o Entered
            \o write_data_op("user_row", "new") \o stcs("UROW_FINAL") \o Gone
            \o stcs("KEY_STATUS") \o reset(TRUE) \o reset(FALSE)
  BY Zenon DEF enter_progmode, unlock, write_user_row_locked_device
<1> HIDE DEF Unlocked1, Unlocked5, Entered, Gone
<1>5. If("NVMPROG", <<>>, Raise("UpdiError")) \in Seq(Plain2)
  BY <1>3, FrameInstructions, Branches2
<1>12. \A s \in Seq(Plain2), t \in Seq(Plain2) : s \o t \in Seq(Plain2)
  BY SeqJoins
<1>6. reset(TRUE) \o NeedKey("NVMProg") \o reset(TRUE) \o reset(FALSE)
      \o Unlocked1
      \o If("NVMPROG", <<>>, Raise("UpdiError")) \in Seq(Plain2)
  BY <1>1, <1>2, <1>4, <1>5, SeqJoins
<1>7. enter_progmode \in Seq(Plain3)
  BY <1>3, <1>6, <1>14, Branches3
<1>8. leave_progmode \in Seq(Plain2)
  BY <1>1, SeqJoins DEF leave_progmode
<1>9. unlock \in Seq(Plain2)
  <2>1. NeedKey("NVMErase") \o reset(TRUE) \o reset(FALSE) \in Seq(Plain2)
    BY <1>1, <1>2, <1>12
  <2> QED BY <1>4, <1>12, <1>14, <2>1
<1>10. write_data_op("user_row", "new") \in Seq(Plain2)
  <2>1. PICK l \in Loads : write_data_op("user_row", "new") = <<l>>
    BY LoadInstructions, AreaNames
  <2> QED BY <2>1, FrameInstructions, PlainGrows
<1>11. write_user_row_locked_device \in Seq(Plain2)
  <2>1. NeedKey("NVMUs&te") \o reset(TRUE) \o reset(FALSE)
        \o Entered \in Seq(Plain2)
    BY <1>1, <1>2, <1>4, <1>12
  <2>2. NeedKey("NVMUs&te") \o reset(TRUE) \o reset(FALSE)
        \o Entered
        \o write_data_op("user_row", "new") \in Seq(Plain2)
    BY <1>10, <1>12, <2>1
  <2>3. NeedKey("NVMUs&te") \o reset(TRUE) \o reset(FALSE)
        \o Entered
        \o write_data_op("user_row", "new") \o stcs("UROW_FINAL") \in Seq(Plain2)
    BY <1>1, <1>12, <2>2
  <2>4. NeedKey("NVMUs&te") \o reset(TRUE) \o reset(FALSE)
        \o Entered
        \o write_data_op("user_row", "new") \o stcs("UROW_FINAL")
        \o Gone
        \in Seq(Plain2)
    BY <1>4, <1>12, <2>3
  <2>5. stcs("KEY_STATUS") \in Seq(Plain2) /\ reset(TRUE) \in Seq(Plain2)
        /\ reset(FALSE) \in Seq(Plain2)
    BY <1>1
  <2> QED BY <1>12, <1>14, <2>4, <2>5
<1> QED BY <1>7, <1>8, <1>9, <1>11, PlainGrows

\* The types of the other functions outside the drivers.
LEMMA OtherTypes ==
    /\ UpdiApplication \in Seq(Plain3) /\ read_device_id \in Seq(Plain3)
    /\ application_write_data \in Seq(Plain3) /\ \A m \in Memories : read(m) \in Seq(Plain3)
<1>1. UpdiApplication \in Seq(Plain3)
  <2>1. "none" \in Registers
    BY DEF Registers
  <2> QED BY <2>1, PlainSteps, InitDatalink, DeviceInfo, SeqJoins DEF UpdiApplication
<1>2. /\ <<>> \in Seq(Plain) /\ <<>> \in Seq(Plain2) /\ "expected" \in Tests
      /\ Raise("SessionError") \in Seq(Plain) /\ Raise("IndexError") \in Seq(Plain)
  BY FrameInstructions DEF Tests, Raisable
<1>3. read_device_id \in Seq(Plain3)
  <2>1. If("expected", <<>>, Raise("SessionError")) \in Seq(Plain2)
    BY <1>2, Branches2
  <2>2. read_data_op(If("expected", <<>>, Raise("SessionError")), Raise("SessionError"))
        \in Seq(Plain3)
    BY <1>2, <2>1, PlainGrows, Branches3 DEF read_data_op, Tests
  <2>3. /\ read_data_op(<<>>, Raise("IndexError")) \in Seq(Plain3)
        /\ read_data_op(<<>>, <<>>) \in Seq(Plain3)
    BY <1>2, ReadData, PlainGrows
  <2> QED BY <2>2, <2>3, DeviceInfo, SeqJoins DEF read_device_id
<1>4. application_write_data \in Seq(Plain3)
  <2>1. [op |-> "call"] \in Plain
    BY DEF Plain
  <2>2. [d \in 1..RecursionLimit |-> [op |-> "call"]] \in Seq(Plain)
    BY <2>1 DEF RecursionLimit
  <2>3. Raise("RecursionError") \in Seq(Plain)
    BY FrameInstructions DEF Raisable
  <2> QED BY <2>2, <2>3, SeqJoins, PlainGrows DEF application_write_data
<1>5. read_chunk \in Seq(Plain3)
  BY <1>2, ReadData, PlainSteps, PlainGrows DEF read_chunk
<1>6. \A m \in Memories : read(m) \in Seq(Plain3)
  BY <1>5, SeqJoins DEF read
<1> QED BY <1>1, <1>3, <1>4, <1>6

-----------------------------------------------------------------------------
(* What a call begins with                                                 *)

Whole(s, n, d, late) ==
    Left(s, n, d, late) /\ \A h \in Handlers : Left(s \o <<h>>, n, d, late)

\* The functions of the driver that is selected, or the ones of no driver, which raise.
LEMMA DriverLeft ==
    ASSUME NEW n \in Variants, NEW d \in Drivers, d \in {n, "none"}
    PROVE  /\ Whole(NvmDriver[d].chip_erase, n, d, FALSE)
           /\ Whole(NvmDriver[d].erase_eeprom, n, d, FALSE)
           /\ Whole(NvmDriver[d].erase_user_row, n, d, FALSE)
           /\ Whole(NvmDriver[d].erase_flash_page["page1"]
                    \o NvmDriver[d].erase_flash_page["page2"], n, d, FALSE)
           /\ Whole(NvmDriver[d].write_eeprom, n, d, LateTo(n))
           /\ Whole(NvmDriver[d].write_user_row, n, d, LateTo(n))
           /\ \A a \in {"fuses", "lockbits"} : Whole(NvmDriver[d].write_fuse[a], n, d, LateTo(n))
           /\ \A p \in Pages : Whole(NvmDriver[d].write_flash[p], n, d, LateTo(n))
           /\ Whole(NvmDriver[d].write_flash["page1"] \o NvmDriver[d].write_flash["page2"],
                    n, d, LateTo(n))
<1> DEFINE r == NvmDriver[d]
<1>1. CASE d = "none"
  <2>1. /\ r.chip_erase = NotReady /\ r.erase_eeprom = NotReady /\ r.erase_user_row = NotReady
        /\ r.write_eeprom = NotReady /\ r.write_user_row = NotReady
        /\ r.erase_flash_page["page1"] = NotReady /\ r.erase_flash_page["page2"] = NotReady
        /\ \A a \in {"fuses", "lockbits"} : r.write_fuse[a] = NotReady
        /\ \A p \in Pages : r.write_flash[p] = NotReady
        /\ r.write_flash["page1"] = NotReady /\ r.write_flash["page2"] = NotReady
    BY <1>1 DEF NvmDriver, NvmUpdi, Pages
  <2>2. NotReady \in Seq(Plain3) /\ NotReady \o NotReady \in Seq(Plain3)
    <3>1. NotReady \in Seq(Plain3)
      BY FrameInstructions, PlainGrows DEF NotReady, Raisable
    <3> QED BY <3>1, SeqJoins
  <2>3. \A late : Whole(NotReady, n, d, late) /\ Whole(NotReady \o NotReady, n, d, late)
    BY <2>2, OutsideLeft DEF Whole
  <2> QED BY <2>1, <2>3
<1>2. CASE d # "none"
  <2>1. d = n /\ DriverPrograms(r, n)
    BY <1>2, EveryDriver
  <2>2. ASSUME NEW s, NEW late, Program(s, n, late) PROVE Whole(s, n, d, late)
    BY <1>2, <2>2, ProgramLeft DEF Whole
  <2>3. "page1" \in Pages /\ "page2" \in Pages
    BY DEF Pages
  <2> HIDE DEF r
  <2>4. /\ Program(r.erase_flash_page["page1"] \o r.erase_flash_page["page2"], n, FALSE)
        /\ Program(r.write_flash["page1"] \o r.write_flash["page2"], n, LateTo(n))
    BY <2>1, <2>3, ProgramJoins DEF DriverPrograms
  <2>5. /\ Whole(r.chip_erase, n, d, FALSE) /\ Whole(r.erase_eeprom, n, d, FALSE)
        /\ Whole(r.erase_user_row, n, d, FALSE)
        /\ Whole(r.write_eeprom, n, d, LateTo(n)) /\ Whole(r.write_user_row, n, d, LateTo(n))
        /\ \A a \in {"fuses", "lockbits"} : Whole(r.write_fuse[a], n, d, LateTo(n))
        /\ \A p \in Pages : Whole(r.write_flash[p], n, d, LateTo(n))
    BY <2>1, <2>2 DEF DriverPrograms
  <2>6. /\ Whole(r.erase_flash_page["page1"] \o r.erase_flash_page["page2"], n, d, FALSE)
        /\ Whole(r.write_flash["page1"] \o r.write_flash["page2"], n, d, LateTo(n))
    BY <2>2, <2>4
  <2> QED BY <2>5, <2>6 DEF r
<1> QED BY <1>1, <1>2

\* Handlers are there for LockedError (start) and SerialException (erase).
LEMMA HandlerTypes ==
    ASSUME NEW s \in Seq(Plain2)
    PROVE  /\ [op |-> "except", excs |-> {"LockedError"}, handler |-> s] \in Handlers
           /\ [op |-> "except", excs |-> {"SerialException"}, handler |-> s] \in Handlers
BY DEF Handlers

LateCallOf(c, n) == c.f = "write" /\ LateTo(n)

\* The program of every call is guarded and finished when the call begins.
LEMMA BodyLeft ==
    ASSUME NEW c \in Requests, TypeInv
    PROVE  Left(Body(c), tgt.nvm, IF c.f = "construct" THEN "none" ELSE avr.drv,
                LateCallOf(c, tgt.nvm))
<1> DEFINE n == tgt.nvm
           d == avr.drv
           e == IF c.f = "construct" THEN "none" ELSE avr.drv
           late == LateCallOf(c, n)
<1>0. n \in Variants /\ d \in Drivers /\ d \in {n, "none"}
  BY FieldTypes DEF TypeInv
<1>1. ASSUME Body(c) \in Seq(Plain3) PROVE Left(Body(c), n, e, late)
  BY <1>1, OutsideLeft
<1>2. CASE c.f = "construct"
  <2>1. Body(c) = UpdiApplication
    BY <1>2 DEF Body
  <2> QED BY <1>1, <2>1, OtherTypes
<1>3. CASE c.f = "start"
  <2>1. Body(c) = start
    BY <1>3 DEF Body
  <2>2. /\ <<>> \in Seq(Plain2) /\ unlock \in Seq(Plain2)
        /\ Raise("DeviceLockedError") \in Seq(Plain2)
    BY Nothing, ProgmodeTypes, FrameInstructions, PlainGrows DEF Raisable
  <2>3. PICK h \in Handlers : start = enter_progmode \o <<h>>
    BY <2>2, HandlerTypes DEF start, Try
  <2>4. Left(start, n, e, late)
    BY <2>3, ProgmodeTypes, OutsideLeft
  <2> QED BY <2>1, <2>4
<1>4. CASE c.f = "read_device_id"
  <2>1. Body(c) = read_device_id
    BY <1>4 DEF Body
  <2> QED BY <1>1, <2>1, OtherTypes
<1>5. CASE c.f = "hold_in_reset"
  <2>1. Body(c) = <<>>
    BY <1>5 DEF Body
  <2> QED BY <1>1, <2>1, Nothing
<1>6. CASE c.f = "write_data"
  <2>1. Body(c) = application_write_data
    BY <1>6 DEF Body
  <2> QED BY <1>1, <2>1, OtherTypes
<1>7. CASE c.f \in {"stop", "release_from_reset"}
  <2>1. Body(c) = leave_progmode
    BY <1>7 DEF Body
  <2> QED BY <1>1, <2>1, ProgmodeTypes
<1>8. CASE c.f = "read"
  <2>1. Body(c) = read(c.m) /\ c.m \in Memories
    BY <1>8 DEF Body, Requests
  <2> QED BY <1>1, <2>1, OtherTypes
<1>9. CASE c.f = "erase"
  <2>1. Body(c) = erase(c.m) /\ e = d /\ late = FALSE
    BY <1>9 DEF Body, LateCallOf
  <2>2. PICK h \in Handlers : Try(nvm.chip_erase, {"SerialException"}, unlock)
                              = nvm.chip_erase \o <<h>>
    BY ProgmodeTypes, HandlerTypes DEF Try
  <2>3. Left(Try(nvm.chip_erase, {"SerialException"}, unlock), n, d, FALSE)
    BY <1>0, <2>2, DriverLeft DEF nvm, Whole
  <2>4. /\ Left(nvm.erase_eeprom, n, d, FALSE) /\ Left(nvm.erase_user_row, n, d, FALSE)
        /\ Left(nvm.erase_flash_page["page1"] \o nvm.erase_flash_page["page2"], n, d, FALSE)
    BY <1>0, DriverLeft DEF nvm, Whole
  <2>5. Left(erase(c.m), n, d, FALSE)
    <3>1. CASE c.m \in {"eeprom", "user_row", "flash"}
      BY <2>4, <3>1 DEF erase
    <3>2. CASE c.m \notin {"eeprom", "user_row", "flash"}
      BY <2>3, <3>2 DEF erase
    <3> QED BY <3>1, <3>2
  <2> QED BY <2>1, <2>5
<1>10. CASE c.f = "write"
  <2>1. Body(c) = write(c.m) /\ e = d /\ c.m \in Memories
    BY <1>10 DEF Body, Requests
  <2>2. late = LateTo(n)
    BY <1>10 DEF LateCallOf, LateTo
  <2>3. Left(write_user_row_locked_device, n, d, late)
    BY ProgmodeTypes, OutsideLeft
  <2>4. /\ Left(nvm.write_user_row, n, d, late) /\ Left(nvm.write_eeprom, n, d, late)
        /\ \A a \in {"fuses", "lockbits"} : Left(nvm.write_fuse[a], n, d, late)
        /\ \A p \in Pages : Left(nvm.write_flash[p], n, d, late)
        /\ Left(nvm.write_flash["page1"] \o nvm.write_flash["page2"], n, d, late)
    BY <1>0, <2>2, DriverLeft DEF nvm, Whole
  <2> HIDE DEF late
  <2>5. Left(write(c.m), n, d, late)
    <3>1. CASE c.m = "user_row"
      BY <2>3, <2>4, <3>1 DEF write
    <3>2. CASE c.m \in {"eeprom", "fuses", "lockbits", "flash"}
      BY <2>4, <3>2 DEF write
    <3>3. CASE c.m \in Pages
      BY <2>4, <3>3 DEF write, Pages
    <3> QED BY <2>1, <3>1, <3>2, <3>3 DEF Memories, Areas
  <2> QED BY <2>1, <2>5 DEF late
<1>11. c.f \in {"construct", "start", "read_device_id", "hold_in_reset", "release_from_reset",
               "write_data", "stop", "read", "write", "erase"}
  BY DEF Requests
<1> QED BY <1>2, <1>3, <1>4, <1>5, <1>6, <1>7, <1>8, <1>9, <1>10, <1>11

-----------------------------------------------------------------------------
(* How a program goes on                                                   *)

\* Whether the guard of a command behind the first instruction of s stays one
\* when pre takes the place of that instruction.
Stays(s, n, pre, idle, idle2) ==
    \/ s[1] \notin {WaitReady, Timeout} \cup Buffered(n)
    \/ s[1] \in Buffered(n) /\ pre = <<>> /\ (idle => idle2)
    \/ s[1] = WaitReady /\ pre = <<>> /\ idle2
    \/ s[1] = WaitReady /\ pre = <<Timeout>>

\* A program of which the first instruction is replaced.
LEMMA Spliced ==
    ASSUME NEW S, NEW s \in Seq(S), s # <<>>, NEW pre \in Seq(S)
    PROVE  /\ pre \o Tail(s) \in Seq(S)
           /\ Len(pre) \in Nat /\ Len(s) \in Nat /\ Len(s) >= 1
           /\ Len(pre \o Tail(s)) = Len(pre) + (Len(s) - 1)
           /\ \A k \in 1..Len(pre) : (pre \o Tail(s))[k] = pre[k]
           /\ \A k \in 2..Len(s) : (pre \o Tail(s))[Len(pre) + (k - 1)] = s[k]
<1>1. Tail(s) \in Seq(S) /\ Len(Tail(s)) = Len(s) - 1 /\ Len(s) \in Nat /\ Len(s) >= 1
  OBVIOUS
<1>2. \A k \in 2..Len(s) : k - 1 \in 1..Len(Tail(s)) /\ Tail(s)[k - 1] = s[k]
  OBVIOUS
<1> QED BY <1>1, <1>2

\* Taking the first instruction off, with what it puts in its place, keeps the rest
\* guarded and finished.
LEMMA Onward ==
    ASSUME NEW S, NEW s \in Seq(S), s # <<>>, NEW pre \in Seq(S),
           \A k \in 1..Len(pre) : pre[k] \notin Commands \cup Handlers,
           NEW n, NEW late, NEW idle \in BOOLEAN, NEW idle2 \in BOOLEAN,
           HandlersLast(s), Guarded(s, n, idle), Finished(s, n, late),
           Stays(s, n, pre, idle, idle2)
    PROVE  LET t == pre \o Tail(s)
           IN  HandlersLast(t) /\ Guarded(t, n, idle2) /\ Finished(t, n, late)
<1> DEFINE t == pre \o Tail(s)
           p == Len(pre)
<1>1. /\ p \in Nat /\ Len(s) \in Nat /\ Len(s) >= 1 /\ Len(t) = p + (Len(s) - 1)
      /\ \A k \in 1..p : t[k] = pre[k]
      /\ \A k \in 2..Len(s) : t[p + (k - 1)] = s[k]
  BY Spliced
<1>9. pre = <<>> => p = 0
  OBVIOUS
<1>10. pre = <<Timeout>> => p = 1 /\ pre[1] = Timeout
  OBVIOUS
<1> HIDE DEF t, p
\* An instruction of t comes from pre or from s.
<1>2. ASSUME NEW i \in 1..Len(t)
      PROVE  i \in 1..p \/ \E i2 \in 2..Len(s) : i = p + (i2 - 1)
  <2>1. i \notin 1..p => i - p + 1 \in 2..Len(s) /\ i = p + ((i - p + 1) - 1)
    BY <1>1
  <2> QED BY <2>1
<1>3. ASSUME NEW i \in 1..Len(t), t[i] \in Commands \cup Handlers
      PROVE  \E i2 \in 2..Len(s) : i = p + (i2 - 1) /\ t[i] = s[i2]
  <2>1. i \notin 1..p
    BY <1>1, <1>3 DEF p
  <2> QED BY <1>1, <1>2, <2>1
<1>4. HandlersLast(t)
  <2> SUFFICES ASSUME NEW i \in 1..Len(t), t[i] \in Handlers PROVE i = Len(t)
    BY DEF HandlersLast
  <2>1. PICK i2 \in 2..Len(s) : i = p + (i2 - 1) /\ t[i] = s[i2]
    BY <1>3
  <2>2. i2 \in 1..Len(s)
    BY <1>1
  <2>3. i2 = Len(s)
    BY <2>1, <2>2 DEF HandlersLast
  <2> QED BY <1>1, <2>1, <2>3
<1>5. Finished(t, n, late)
  <2> SUFFICES ASSUME n # "P0", NEW i \in 1..Len(t), t[i] \in Commands
               PROVE  Removed(t, late, i)
    BY DEF Finished
  <2>1. PICK i2 \in 2..Len(s) : i = p + (i2 - 1) /\ t[i] = s[i2]
    BY <1>3
  <2>2. Removed(s, late, i2)
    <3>1. i2 \in 1..Len(s)
      BY <1>1
    <3> QED BY <2>1, <3>1 DEF Finished
  <2>3. PICK j \in (i2 + 1)..Len(s) :
           s[j] \in {Removal, WaitFinish} /\ \A k \in (i2 + 1)..(j - 1) : s[k] \in Between(late)
    BY <2>2 DEF Removed
  <2>4. p + (j - 1) \in (i + 1)..Len(t) /\ t[p + (j - 1)] = s[j]
    BY <1>1, <2>1
  <2>5. ASSUME NEW k \in (i + 1)..((p + (j - 1)) - 1) PROVE t[k] \in Between(late)
    <3>1. k - p + 1 \in (i2 + 1)..(j - 1) /\ k - p + 1 \in 2..Len(s) /\ k = p + ((k - p + 1) - 1)
      BY <1>1, <2>1
    <3>2. t[k] = s[k - p + 1]
      BY <1>1, <3>1
    <3> QED BY <2>3, <3>1, <3>2
  <2> QED BY <2>3, <2>4, <2>5 DEF Removed
<1>6. Guarded(t, n, idle2)
  <2> SUFFICES ASSUME NEW i \in 1..Len(t), t[i] \in Commands
               PROVE  \/ \E j \in 1..(i - 1) :
                            /\ t[j] \in {WaitReady, Timeout}
                            /\ \A k \in (j + 1)..(i - 1) : t[k] \in Buffered(n)
                      \/ idle2 /\ \A k \in 1..(i - 1) : t[k] \in Buffered(n)
    BY DEF Guarded
  <2>1. PICK i2 \in 2..Len(s) : i = p + (i2 - 1) /\ t[i] = s[i2]
    BY <1>3
  <2>2. i2 \in 1..Len(s)
    BY <1>1
  <2>3. ASSUME NEW k2 \in 2..(i2 - 1) PROVE t[p + (k2 - 1)] = s[k2]
    BY <1>1
  \* What lies between the first instruction and the command lies in t before it.
  <2>4. ASSUME NEW k \in (p + 1)..(i - 1)
        PROVE  k - p + 1 \in 2..(i2 - 1) /\ t[k] = s[k - p + 1]
    <3>1. k - p + 1 \in 2..(i2 - 1) /\ k = p + ((k - p + 1) - 1)
      BY <1>1, <2>1
    <3> QED BY <2>3, <3>1
  <2>5. CASE \E j2 \in 2..(i2 - 1) :
                /\ s[j2] \in {WaitReady, Timeout}
                /\ \A k \in (j2 + 1)..(i2 - 1) : s[k] \in Buffered(n)
    <3>1. PICK j2 \in 2..(i2 - 1) :
                /\ s[j2] \in {WaitReady, Timeout}
                /\ \A k \in (j2 + 1)..(i2 - 1) : s[k] \in Buffered(n)
      BY <2>5
    <3>2. p + (j2 - 1) \in 1..(i - 1) /\ t[p + (j2 - 1)] = s[j2]
      BY <1>1, <2>1, <2>3
    <3>3. ASSUME NEW k \in ((p + (j2 - 1)) + 1)..(i - 1) PROVE t[k] \in Buffered(n)
      <4>1. k \in (p + 1)..(i - 1) /\ k - p + 1 \in (j2 + 1)..(i2 - 1)
        BY <1>1, <2>1
      <4>2. t[k] = s[k - p + 1]
        BY <2>4, <4>1
      <4> QED BY <3>1, <4>1, <4>2
    <3> QED BY <3>1, <3>2, <3>3
  <2>6. CASE /\ s[1] \in {WaitReady, Timeout}
             /\ \A k \in 2..(i2 - 1) : s[k] \in Buffered(n)
    <3>1. \A k \in (p + 1)..(i - 1) : t[k] \in Buffered(n)
      BY <2>4, <2>6
    <3>2. s[1] \notin Buffered(n)
      <4>1. \A o \in Loads : o.op = "do"
        BY DEF Loads
      <4>2. WaitReady.op = "wait" /\ Timeout.op = "raise"
        BY DEF WaitReady, Timeout
      <4> QED BY <2>6, <4>1, <4>2 DEF Buffered
    <3>3. CASE p = 0 /\ idle2
      BY <3>1, <3>3
    <3>4. CASE pre = <<Timeout>>
      <4>1. t[1] = Timeout /\ p = 1
        BY <1>1, <1>10, <3>4
      <4>2. 1 \in 1..(i - 1)
        BY <2>1, <4>1
      <4> QED BY <3>1, <4>1, <4>2
    <3> QED BY <1>9, <2>6, <3>2, <3>3, <3>4 DEF Stays
  <2>7. CASE idle /\ s[1] \in Buffered(n) /\ \A k \in 2..(i2 - 1) : s[k] \in Buffered(n)
    <3>1. \A k \in (p + 1)..(i - 1) : t[k] \in Buffered(n)
      BY <2>4, <2>7
    <3>2. s[1] \notin {WaitReady, Timeout}
      <4>1. \A o \in Loads : o.op = "do"
        BY DEF Loads
      <4>2. WaitReady.op = "wait" /\ Timeout.op = "raise"
        BY DEF WaitReady, Timeout
      <4> QED BY <2>7, <4>1, <4>2 DEF Buffered
    <3>3. p = 0 /\ idle2
      BY <1>9, <2>7, <3>2 DEF Stays
    <3> QED BY <3>1, <3>3
  <2>8. \/ \E j \in 1..(i2 - 1) :
              /\ s[j] \in {WaitReady, Timeout}
              /\ \A k \in (j + 1)..(i2 - 1) : s[k] \in Buffered(n)
        \/ idle /\ \A k \in 1..(i2 - 1) : s[k] \in Buffered(n)
    BY <2>1, <2>2 DEF Guarded
  <2>9. \A j \in 1..(i2 - 1) : j = 1 \/ j \in 2..(i2 - 1)
    OBVIOUS
  <2>10. 1 \in 1..(i2 - 1) /\ 2..(i2 - 1) \subseteq 1..(i2 - 1) /\ 1 + 1 = 2
    OBVIOUS
  <2> QED BY <2>5, <2>6, <2>7, <2>8, <2>9, <2>10
<1> QED BY <1>4, <1>5, <1>6 DEF t

\* A target that gets no busier keeps the guards.
LEMMA StillGuarded ==
    ASSUME NEW s, NEW n, NEW idle \in BOOLEAN, NEW idle2 \in BOOLEAN, Guarded(s, n, idle),
           idle => idle2
    PROVE  Guarded(s, n, idle2)
BY DEF Guarded

\* An exception ends the call, or its handler is what is left.
LEMMA Thrown ==
    ASSUME NEW n, NEW d, todo \in Seq(Instructions(n, d)), HandlersLast(todo), NEW e, Throw(e)
    PROVE  \/ todo' = <<>> /\ exc' = e /\ session' = "doubtful"
           \/ /\ e \in {"LockedError", "SerialException"}
              /\ todo' \in Seq(Plain2) /\ exc' = exc /\ session' = session
<1> DEFINE I == {i \in 1..Len(todo) : todo[i].op = "except" /\ e \in todo[i].excs}
<1>1. Len(todo) \in Nat /\ \A i \in 1..Len(todo) : todo[i] \in Instructions(n, d)
  OBVIOUS
<1>2. ASSUME NEW i \in I
      PROVE  /\ i = Len(todo) /\ todo[i].handler \in Seq(Plain2)
             /\ e \in {"LockedError", "SerialException"}
  <2>1. todo[i] \in Handlers
    BY <1>1, Kinds
  <2>2. i = Len(todo)
    BY <2>1 DEF HandlersLast
  <2> QED BY <2>1, <2>2 DEF Handlers
<1>3. SelectInSubSeq(todo, 1, Len(todo), LAMBDA o : o.op = "except" /\ e \in o.excs)
      = IF I # {} THEN Min(I) ELSE 0
  BY DEF SelectInSubSeq
<1>4. CASE I = {}
  <2>1. todo' = <<>> /\ exc' = e /\ session' = "doubtful"
    BY <1>3, <1>4 DEF Throw
  <2> QED BY <2>1
<1>5. CASE I # {}
  <2>1. I = {Len(todo)}
    BY <1>2, <1>5
  <2>2. Min(I) = Len(todo)
    BY <1>1, <2>1 DEF Min
  <2>3. Len(todo) # 0
    BY <2>1
  <2>4. /\ todo' = todo[Len(todo)].handler \o SubSeq(todo, Len(todo) + 1, Len(todo))
        /\ exc' = exc /\ session' = session
    BY <1>3, <1>5, <2>2, <2>3 DEF Throw
  <2>5. SubSeq(todo, Len(todo) + 1, Len(todo)) = <<>>
    BY <1>1
  <2>6. todo[Len(todo)].handler \in Seq(Plain2) /\ e \in {"LockedError", "SerialException"}
    BY <1>2, <2>1
  <2> QED BY <2>4, <2>5, <2>6
<1> QED BY <1>4, <1>5

-----------------------------------------------------------------------------
(* What an access does                                                     *)

\* Times are numbers.
LEMMA BusyTypes == TypeInv => BusyMs \subseteq Nat /\ BootMs \subseteq Nat
BY SetupsAssumption, BootAssumption DEF TypeInv, BusyMs

\* What an access takes is a number.
LEMMA TakesType ==
    ASSUME TypeInv, NEW f, NEW x, NEW ms \in Takes(f, x)
    PROVE  ms \in Nat
<1>1. BusyMs \subseteq Nat /\ BootMs \subseteq Nat
  BY BusyTypes
<1>2. CASE f = "stcs"
  BY <1>1, <1>2 DEF Takes
<1>3. CASE f \in {"execute_nvm_command", "write_data", "write_data_words"}
  BY <1>1, <1>3 DEF Takes
<1>4. CASE f \notin {"stcs", "execute_nvm_command", "write_data", "write_data_words"}
  BY <1>4 DEF Takes
<1> QED BY <1>2, <1>3, <1>4

\* What a frame or a store may do to the command in CTRLA.
Removes(t, u) == u.nvm = t.nvm /\ u.cmd \in {t.cmd, "NOCMD"}

\* A store to a control register keeps the types and can only remove a command.
LEMMA StcsType ==
    ASSUME NEW t \in Targets, NEW r, NEW ms \in Nat
    PROVE  Stcs(t, r, ms) \in Targets /\ Removes(t, Stcs(t, r, ms))
<1>1. CASE r = "CTRLA"
  <2>1. FALSE \in BOOLEAN /\ "NVMErase" \in Keys
    BY DEF Keys
  <2>2. SetRsd(t, FALSE) \in Targets /\ Removes(t, SetRsd(t, FALSE))
    BY <2>1, SimpleTypes DEF Calmly, Removes
  <2> QED BY <1>1, <2>2 DEF Stcs
<1>2. CASE r = "RESET_REQ"
  BY <1>2, HoldType DEF Stcs, Removes
<1>3. CASE r = "RESET_REQ_off"
  BY <1>3, ReleaseType DEF Stcs, Removes
<1>4. CASE r = "UPDIDIS"
  <2>1. Disable(t) \in Targets /\ Removes(t, Disable(t))
    BY SimpleTypes DEF Calmly, Removes, Keys
  <2> QED BY <1>4, <2>1 DEF Stcs
<1>5. CASE r = "UROW_FINAL"
  BY <1>5, FinalType DEF Stcs, Removes
<1>6. CASE r = "KEY_STATUS"
  <2>1. ClearUrowKey(t) \in Targets /\ Removes(t, ClearUrowKey(t))
    BY SimpleTypes DEF Calmly, Removes, Keys
  <2> QED BY <1>6, <2>1 DEF Stcs
<1>7. CASE r \notin {"CTRLA", "RESET_REQ", "RESET_REQ_off", "UPDIDIS", "UROW_FINAL", "KEY_STATUS"}
  BY <1>7 DEF Stcs, Removes
<1> QED BY <1>1, <1>2, <1>3, <1>4, <1>5, <1>6, <1>7

\* The same, after the time to settle.
LEMMA SettledStays ==
    ASSUME NEW t \in Targets, NEW u \in Targets, Removes(t, u)
    PROVE  /\ Settle(u) \in Targets /\ Removes(t, Settle(u))
           /\ Removes(t, t) /\ Settle(t) \in Targets /\ Removes(t, Settle(t))
<1>1. Settle(u) \in Targets /\ Settle(u).nvm = u.nvm /\ Settle(u).cmd = u.cmd
  BY TimeType, 0 \in Nat
<1>2. Settle(t) \in Targets /\ Settle(t).nvm = t.nvm /\ Settle(t).cmd = t.cmd
  BY TimeType, 0 \in Nat
<1> QED BY <1>1, <1>2 DEF Removes

\* A transfer of link.py does not give a command, and can only remove one.
LEMMA FrameWays ==
    ASSUME TypeInv, NEW i \in Frames, NEW ms \in Nat, NEW o \in Access(i.f, i.x, ms)
    PROVE  /\ o \in Outcomes /\ Removes(tgt, o.tgt)
           /\ o.exc # "none" /\ o.fault = 0 => o.exc = "ProtocolError"
<1>1. tgt \in Targets
  BY DEF TypeInv
<1>2. ASSUME NEW u \in Targets, Removes(tgt, u), o \in send(tgt, u)
      PROVE  /\ o \in Outcomes /\ Removes(tgt, o.tgt)
             /\ o.exc # "none" /\ o.fault = 0 => o.exc = "ProtocolError"
  <2>1. o.tgt \in {tgt, u} /\ o \in Outcomes /\ (o.fault = 0 => o.exc = "none")
    BY <1>1, <1>2, SendWays
  <2> QED BY <1>1, <1>2, <2>1, SettledStays
<1>3. CASE i.f = "break"
  <2>1. o \in send(tgt, [tgt EXCEPT !.on = TRUE])
    BY <1>3 DEF Access
  <2>2. [tgt EXCEPT !.on = TRUE] \in Targets /\ Removes(tgt, [tgt EXCEPT !.on = TRUE])
    BY <1>1, SimpleTypes DEF Keys, Calmly, Removes
  <2> QED BY <1>2, <2>1, <2>2
<1>4. CASE i.f = "double_break"
  <2>1. o \in send(tgt, DoubleBreak(tgt))
    BY <1>4 DEF Access
  <2>2. DoubleBreak(tgt) \in Targets /\ Removes(tgt, DoubleBreak(tgt))
    BY <1>1, SimpleTypes DEF Keys, Calmly, Removes
  <2> QED BY <1>2, <2>1, <2>2
<1>5. CASE i.f = "stcs"
  <2>1. o \in send(tgt, Stcs(tgt, i.x, ms))
    BY <1>5 DEF Access
  <2> QED BY <1>1, <1>2, <2>1, StcsType
<1>6. CASE i.f = "key"
  <2>1. o \in send(tgt, TakeKey(tgt, i.x)) /\ i.x \in Keys
    BY <1>6 DEF Access, Frames
  <2>2. TakeKey(tgt, i.x) \in Targets /\ Removes(tgt, TakeKey(tgt, i.x))
    BY <1>1, <2>1, SimpleTypes DEF Calmly, Removes
  <2> QED BY <1>2, <2>1, <2>2
<1>7. CASE i.f = "ldcs"
  <2>1. o \in ldcs(tgt, TRUE)
    BY <1>7 DEF Access
  <2>2. o \in Outcomes /\ o.tgt \in Missed(tgt)
        /\ (o.exc # "none" /\ o.fault = 0 => o.exc = "ProtocolError")
    BY <1>1, <2>1, LdcsWays
  <2>3. Removes(tgt, o.tgt)
    BY <1>1, <2>2, SettledStays DEF Missed, Removes
  <2> QED BY <2>2, <2>3
<1>8. i.f \in {"break", "double_break", "stcs", "key", "ldcs"}
  BY DEF Frames
<1> QED BY <1>3, <1>4, <1>5, <1>6, <1>7, <1>8

\* A store to a memory does not give a command, and can only remove one.
LEMMA LoadWays ==
    ASSUME TypeInv, NEW i \in Loads, NEW ms \in Nat, NEW o \in Access(i.f, i.x, ms)
    PROVE  /\ o \in Outcomes /\ Removes(tgt, o.tgt)
           /\ o.exc # "none" /\ o.fault = 0 => o.exc = "ProtocolError"
           /\ o.exc = "none" /\ ~WordOriented(tgt) /\ tgt.busy = 0 => o.tgt.busy = 0
<1>1. tgt \in Targets
  BY DEF TypeInv
\* What a store leaves behind.
<1> DEFINE Kept(u) == u \in Targets /\ Removes(tgt, u)
                      /\ (~WordOriented(tgt) /\ tgt.busy = 0 => u.busy = 0)
<1>2. ASSUME NEW a \in Areas, NEW c \in Content PROVE Kept(Store(tgt, a, c, ms))
  BY <1>1, StoreType DEF Removes
<1>3. ASSUME NEW u, Kept(u) PROVE Kept(Settle(u))
  BY <1>3, TimeType, 0 \in Nat DEF Removes
<1>4. Kept(tgt)
  BY <1>1 DEF Removes
<1>5. CASE i.f = "write_byte"
  <2> DEFINE u == IF i.x.reg = "ADDR" THEN [tgt EXCEPT !.reg = i.x.area]
                  ELSE [tgt EXCEPT !.dat = "new"]
  <2>1. o \in st(tgt, u, avr.width) /\ i.x.area \in Areas
    BY <1>5 DEF Access, Loads
  <2>2. u \in Targets
    BY <1>1, <2>1 DEF Targets, Content
  <2>3. u.nvm = tgt.nvm /\ u.cmd = tgt.cmd /\ u.busy = tgt.busy
    BY <1>1 DEF Targets
  <2>4. Kept(u)
    BY <2>2, <2>3 DEF Removes
  <2> HIDE DEF u
  <2>5. o \in Outcomes /\ o.tgt \in {tgt, u, Settle(tgt), Settle(u)}
        /\ (o.exc # "none" /\ o.fault = 0 => o.exc = "ProtocolError")
    BY <1>1, <2>1, <2>2, StWays
  <2>6. Kept(o.tgt)
    BY <1>3, <1>4, <2>4, <2>5
  <2> QED BY <2>5, <2>6
<1>6. CASE i.f \in {"write_data", "write_data_words"}
  <2> DEFINE a == i.x.area
             c == i.x.c
             u == Store(tgt, a, c, ms)
             half == IF c = "blank" THEN "blank" ELSE "torn"
             v == Store(tgt, a, half, ms)
             w == Store(tgt, a, "torn", ms)
  <2>1. a \in Areas /\ c \in Content /\ half \in Content /\ "torn" \in Content
    BY <1>6 DEF Loads, Content
  <2>2. /\ i.f = "write_data" => o \in write_data(tgt, u, v, avr.width)
        /\ i.f = "write_data_words" => o \in write_data_words(tgt, u, w, avr.width)
    BY <1>6 DEF Access
  <2> HIDE DEF a, c, half
  <2>3. Kept(u) /\ Kept(v) /\ Kept(w)
    BY <1>2, <2>1
  <2> HIDE DEF u, v, w
  <2>4. CASE i.f = "write_data"
    <3>1. o \in Outcomes /\ o.tgt \in {tgt, u, Settle(tgt), Settle(u), Settle(v)}
          /\ (o.exc # "none" /\ o.fault = 0 => o.exc = "ProtocolError")
      BY <1>1, <2>2, <2>3, <2>4, WriteDataWays
    <3>2. Kept(o.tgt)
      BY <1>3, <1>4, <2>3, <3>1
    <3> QED BY <3>1, <3>2
  <2>5. CASE i.f = "write_data_words"
    <3>1. o \in Outcomes /\ Worded(tgt, u, w, o.tgt)
          /\ (o.exc # "none" /\ o.fault = 0 => o.exc = "ProtocolError")
      BY <1>1, <2>2, <2>3, <2>5, WriteWordsWays
    <3>2. ASSUME NEW r, Kept(r), NEW b \in BOOLEAN
          PROVE  Kept(SetRsd(r, b))
      <4>1. "NVMErase" \in Keys
        BY DEF Keys
      <4> QED BY <3>2, <4>1, SimpleTypes DEF Calmly, Removes
    <3>3. CASE o.tgt \in {tgt, u, w, Settle(tgt), SetRsd(u, TRUE)}
      BY <1>3, <1>4, <2>3, <3>1, <3>2, <3>3
    <3>4. CASE \E r \in {tgt, u, w}, b \in BOOLEAN : o.tgt = Settle(SetRsd(r, b))
      <4>1. PICK r \in {tgt, u, w}, b \in BOOLEAN : o.tgt = Settle(SetRsd(r, b))
        BY <3>4
      <4>2. Kept(SetRsd(r, b))
        BY <1>4, <2>3, <3>2, <4>1
      <4>3. Kept(o.tgt)
        BY <1>3, <4>1, <4>2
      <4> QED BY <3>1, <4>3
    <3> QED BY <3>1, <3>3, <3>4 DEF Worded
  <2> QED BY <1>6, <2>4, <2>5
<1>7. i.f \in {"write_byte", "write_data", "write_data_words"}
  BY DEF Loads
<1> QED BY <1>5, <1>6, <1>7

\* A command goes to the controller; the code 0 removes the one before.
LEMMA CommandWays ==
    ASSUME TypeInv, NEW x \in Nat, NEW ms \in Nat, NEW o \in Access("execute_nvm_command", x, ms)
    PROVE  /\ o \in Outcomes /\ o.tgt.nvm = tgt.nvm
           /\ o.exc # "none" /\ o.fault = 0 => o.exc = "ProtocolError"
           /\ tgt.nvm = "P0" /\ tgt.cmd = "NOCMD" => o.tgt.cmd = "NOCMD"
           /\ x = 0 /\ o.exc = "none" /\ o.fault = 0 => o.tgt.cmd = "NOCMD"
<1> DEFINE u == TakeCommand(tgt, x, ms)
<1>1. tgt \in Targets
  BY DEF TypeInv
<1>2. /\ u \in Targets /\ u.nvm = tgt.nvm /\ (x = 0 => u.cmd = "NOCMD")
      /\ tgt.nvm = "P0" /\ tgt.cmd = "NOCMD" => u.cmd = "NOCMD"
  BY <1>1, TakeType
<1>3. \/ o \in st(tgt, u, avr.width)
      \/ o = [Done(Refuse(tgt)) EXCEPT !.fault = 1]
  BY DEF Access
<1> HIDE DEF u
<1>4. CASE o \in st(tgt, u, avr.width)
  <2>1. /\ o \in Outcomes /\ o.tgt \in {tgt, u, Settle(tgt), Settle(u)}
        /\ o.exc = "none" => o.tgt = u
        /\ o.exc # "none" /\ o.fault = 0 => o.exc = "ProtocolError"
    BY <1>1, <1>2, <1>4, StWays
  <2>2. \A v \in {tgt, u} : Settle(v).nvm = v.nvm /\ Settle(v).cmd = v.cmd
    BY <1>1, <1>2, TimeType, 0 \in Nat
  <2> QED BY <1>2, <2>1, <2>2
<1>5. CASE o = [Done(Refuse(tgt)) EXCEPT !.fault = 1]
  <2>1. Refuse(tgt) \in Targets /\ Refuse(tgt).nvm = tgt.nvm /\ Refuse(tgt).cmd = tgt.cmd
    BY <1>1 DEF Refuse, Targets
  <2>2. /\ o.tgt = Refuse(tgt) /\ o.exc = "none" /\ o.fault = 1
    BY <1>5 DEF Done, Out
  <2>3. o \in Outcomes
    BY <1>5, <2>1 DEF Done, Out, Outcomes
  <2> QED BY <2>1, <2>2, <2>3
<1> QED BY <1>3, <1>4, <1>5

-----------------------------------------------------------------------------
(* The invariants, and what keeps them                                     *)

LateCall == LateCallOf(call, tgt.nvm)

TodoInv ==
    /\ HandlersLast(todo) /\ Guarded(todo, tgt.nvm, tgt.busy = 0)
    /\ Finished(todo, tgt.nvm, LateCall)

\* s removes the command that CTRLA holds, or gives up in the one way in which
\* it stays.
Clears(s, late) ==
    \E j \in 1..Len(s) :
        /\ s[j] \in {Removal, WaitFinish} \/ (late /\ s[j] = Timeout)
        /\ \A k \in 1..(j - 1) : s[k] \in Between(late)

StaleInv ==
    /\ tgt.nvm = "P0" => tgt.cmd = "NOCMD"
    /\ luck = "calm" /\ before.cmd = "NOCMD" =>
        /\ Working => tgt.cmd = "NOCMD" \/ Clears(todo, LateCall)
        /\ ~Working /\ exc \in {"none", "NvmTimeout"} /\ ~(exc = "NvmTimeout" /\ LateCall)
              => tgt.cmd = "NOCMD"

\* Having a driver allows more instructions.
LEMMA MoreInstructions ==
    ASSUME NEW n, NEW d \in {n, "none"}
    PROVE  Instructions(n, d) \subseteq Instructions(n, n)
           /\ Seq(Instructions(n, d)) \subseteq Seq(Instructions(n, n))
<1>1. Instructions(n, d) \subseteq Instructions(n, n)
  BY DEF Instructions
<1> QED BY <1>1, SeqGrows

\* What comes next is what the first instruction says, and then the rest.
LEMMA Going ==
    ASSUME TypeInv, TodoInv, todo # <<>>,
           NEW pre \in Seq(Plain3 \cup Uses(tgt.nvm) \cup {Removal, Timeout}),
           (\E k \in 1..Len(pre) : pre[k] = Removal) => avr.drv # "none",
           GoOn(pre), tgt'.nvm = tgt.nvm, call' = call, avr'.drv \in {avr.drv, tgt.nvm},
           Stays(todo, tgt.nvm, pre, tgt.busy = 0, tgt'.busy = 0)
    PROVE  todo' \in Seq(Instructions(tgt'.nvm, avr'.drv)) /\ TodoInv'
           /\ exc' = exc /\ session' = session
<1> DEFINE n == tgt.nvm
           d == avr'.drv
           I == Instructions(n, d)
<1>1. todo \in Seq(I)
  <2>1. todo \in Seq(Instructions(n, avr.drv)) /\ avr.drv \in {n, "none"}
    BY DEF TypeInv
  <2> QED BY <2>1, MoreInstructions
<1>2. \A k \in 1..Len(pre) : pre[k] \in I
  <2> SUFFICES ASSUME NEW k \in 1..Len(pre) PROVE pre[k] \in I
    OBVIOUS
  <2>1. pre[k] \in Plain3 \cup Uses(n) \cup {Removal, Timeout}
    OBVIOUS
  <2>2. Timeout \in Plain3
    <3>1. Timeout \in Raises
      BY DEF Timeout, Raises, Raisable
    <3> QED BY <3>1, PlainGrows DEF Plain
  <2>3. pre[k] = Removal => d # "none"
    <3>1. n # "none"
      BY FieldTypes DEF TypeInv, Variants
    <3> QED BY <3>1
  <2> QED BY <2>1, <2>2, <2>3 DEF Instructions, Driving
<1>3. pre \in Seq(I)
  BY <1>2
<1>4. ASSUME NEW k \in 1..Len(pre) PROVE pre[k] \notin Commands \cup Handlers
  <2>1. pre[k] \in Plain3 \cup Uses(n) \cup {Removal, Timeout}
    OBVIOUS
  <2>2. pre[k] \in Uses(n) => pre[k].op = "use"
    BY DEF Uses
  <2>3. Removal.op = "do" /\ Timeout.op = "raise"
    BY DEF Removal, Command, Timeout
  <2>4. pre[k] \notin Handlers
    <3>1. pre[k] \in Plain3 => pre[k].op # "except"
      BY DEF Plain3, Plain, Frames, Loads, Raises, Branching
    <3>2. \A h \in Handlers : h.op = "except"
      BY DEF Handlers
    <3> QED BY <2>1, <2>2, <2>3, <3>1, <3>2
  <2>5. pre[k] \notin Commands
    <3>1. \A o \in Commands : o.op = "do"
      BY DEF Commands
    <3> QED BY <2>1, <2>2, <2>3, <3>1, Apart
  <2> QED BY <2>4, <2>5
<1>5. todo' = pre \o Tail(todo) /\ exc' = exc /\ session' = session
  BY DEF GoOn
<1>6. todo' \in Seq(I)
  BY <1>1, <1>3, <1>5, Spliced
<1>7. /\ HandlersLast(todo') /\ Guarded(todo', n, tgt'.busy = 0)
      /\ Finished(todo', n, LateCall)
  <2>1. (tgt.busy = 0) \in BOOLEAN /\ (tgt'.busy = 0) \in BOOLEAN
    OBVIOUS
  <2>2. LET t == pre \o Tail(todo)
        IN  HandlersLast(t) /\ Guarded(t, n, tgt'.busy = 0) /\ Finished(t, n, LateCall)
    BY <1>1, <1>3, <1>4, <2>1, Onward DEF TodoInv
  <2> QED BY <1>5, <2>2
<1>8. TodoInv'
  BY <1>7 DEF TodoInv, LateCall
<1> QED BY <1>5, <1>6, <1>8

\* An exception leaves nothing, or a handler.
LEMMA Failing ==
    ASSUME TypeInv, TodoInv, NEW e \in WireErrors \cup Raisable, Throw(e)
    PROVE  /\ \A n, d : todo' \in Seq(Instructions(n, d))
           /\ TodoInv'
           /\ exc' \in {e, exc} /\ session' \in Sessions
           /\ \/ todo' = <<>> /\ exc' = e
              \/ e \in {"LockedError", "SerialException"} /\ exc' = exc
<1>1. todo \in Seq(Instructions(tgt.nvm, avr.drv)) /\ HandlersLast(todo) /\ session \in Sessions
  BY DEF TypeInv, TodoInv
<1>2. \/ todo' = <<>> /\ exc' = e /\ session' = "doubtful"
      \/ /\ e \in {"LockedError", "SerialException"}
         /\ todo' \in Seq(Plain2) /\ exc' = exc /\ session' = session
  BY <1>1, Thrown
<1>3. todo' \in Seq(Plain3)
  BY <1>2, PlainGrows, Nothing
<1>4. ASSUME NEW n, NEW d, NEW late PROVE Left(todo', n, d, late)
  BY <1>3, OutsideLeft
<1>5. \A n, d : todo' \in Seq(Instructions(n, d))
  BY <1>4 DEF Left
<1>6. TodoInv'
  <2>1. (tgt'.busy = 0) \in BOOLEAN /\ FALSE \in BOOLEAN
    OBVIOUS
  <2>2. /\ HandlersLast(todo') /\ Guarded(todo', tgt'.nvm, FALSE)
        /\ Finished(todo', tgt'.nvm, LateCall')
    BY <1>4 DEF Left
  <2>3. Guarded(todo', tgt'.nvm, tgt'.busy = 0)
    BY <2>1, <2>2, StillGuarded
  <2> QED BY <2>2, <2>3 DEF TodoInv
<1>7. session' \in Sessions
  BY <1>1, <1>2 DEF Sessions
<1> QED BY <1>2, <1>5, <1>6, <1>7

\* The books are kept: how many faults there were, and whether the call is calm.
LEMMA Accounting ==
    ASSUME TypeInv, NEW o \in Outcomes, faults + o.fault <= MaxFaults,
           faults' = faults + o.fault,
           luck' = IF o.silent \/ luck = "silent" THEN "silent"
                   ELSE IF o.fault > 0 THEN "faulty" ELSE luck
    PROVE  /\ faults' \in 0..MaxFaults /\ luck' \in Luck
           /\ luck' = "calm" => luck = "calm" /\ o.fault = 0
<1>1. /\ o.fault \in {0, 1} /\ o.silent \in BOOLEAN /\ faults \in 0..MaxFaults /\ MaxFaults \in Nat
      /\ luck \in {"calm", "faulty", "silent"}
  BY FaultsAssumption DEF Outcomes, TypeInv, Luck
<1>2. faults' \in 0..MaxFaults
  BY <1>1
<1>3. luck' \in Luck
  BY <1>1 DEF Luck
<1>4. luck' = "calm" => luck = "calm" /\ o.fault = 0
  BY <1>1
<1> QED BY <1>2, <1>3, <1>4

\* What a program that is to clear CTRLA does not begin with.
Steady(i, late) == i \notin Between(late) \cup {Removal, WaitFinish} /\ ~(late /\ i = Timeout)

\* A program that clears the command does so now or later.
LEMMA ClearsOn ==
    ASSUME NEW S, NEW s \in Seq(S), s # <<>>, NEW late, Clears(s, late)
    PROVE  /\ ~Steady(s[1], late)
           /\ s[1] \in {Removal, WaitFinish} \/ (late /\ s[1] = Timeout) \/ Clears(Tail(s), late)
<1>1. PICK j \in 1..Len(s) :
        /\ s[j] \in {Removal, WaitFinish} \/ (late /\ s[j] = Timeout)
        /\ \A k \in 1..(j - 1) : s[k] \in Between(late)
  BY DEF Clears
<1>2. /\ Len(s) \in Nat /\ Len(Tail(s)) = Len(s) - 1
      /\ \A k \in 1..(Len(s) - 1) : Tail(s)[k] = s[k + 1]
  OBVIOUS
<1>3. CASE j = 1
  BY <1>1, <1>3 DEF Steady
<1>4. CASE j # 1
  <2>1. s[1] \in Between(late)
    BY <1>1, <1>4
  <2>2. j - 1 \in 1..Len(Tail(s)) /\ Tail(s)[j - 1] = s[j]
    BY <1>1, <1>2, <1>4
  <2>3. ASSUME NEW k \in 1..((j - 1) - 1) PROVE Tail(s)[k] \in Between(late)
    <3>1. k \in 1..(Len(s) - 1) /\ k + 1 \in 1..(j - 1)
      BY <1>1, <1>2, <1>4
    <3> QED BY <1>1, <1>2, <3>1
  <2>4. Clears(Tail(s), late)
    BY <1>1, <2>2, <2>3 DEF Clears
  <2> QED BY <2>1, <2>4 DEF Steady
<1> QED BY <1>3, <1>4

\* One that starts with a removal clears it.
LEMMA ClearsAtOnce ==
    ASSUME NEW S, NEW s \in Seq(S), NEW late, Len(s) >= 1,
           s[1] \in {Removal, WaitFinish} \/ (late /\ s[1] = Timeout)
    PROVE  Clears(s, late)
<1>1. 1 \in 1..Len(s) /\ \A k \in 1..(1 - 1) : s[k] \in Between(late)
  OBVIOUS
<1> QED BY <1>1 DEF Clears

\* A command that is given is removed later.
LEMMA ClearsAfter ==
    ASSUME NEW S, NEW s \in Seq(S), s # <<>>, NEW late, Removed(s, late, 1)
    PROVE  Clears(Tail(s), late)
<1>1. PICK j \in (1 + 1)..Len(s) :
        s[j] \in {Removal, WaitFinish} /\ \A k \in (1 + 1)..(j - 1) : s[k] \in Between(late)
  BY DEF Removed
<1>2. /\ Len(s) \in Nat /\ Len(Tail(s)) = Len(s) - 1
      /\ \A k \in 1..(Len(s) - 1) : Tail(s)[k] = s[k + 1]
  OBVIOUS
<1>3. j - 1 \in 1..Len(Tail(s)) /\ Tail(s)[j - 1] = s[j]
  BY <1>1, <1>2
<1>4. ASSUME NEW k \in 1..((j - 1) - 1) PROVE Tail(s)[k] \in Between(late)
  <2>1. k \in 1..(Len(s) - 1) /\ k + 1 \in (1 + 1)..(j - 1)
    BY <1>1, <1>2
  <2> QED BY <1>1, <1>2, <2>1
<1> QED BY <1>1, <1>3, <1>4 DEF Clears

\* Which instructions leave the command alone.
LEMMA SteadyKinds ==
    ASSUME NEW n, NEW d, NEW i \in Instructions(n, d), NEW late
    PROVE  /\ i.op \in {"if", "sib", "select", "short", "call", "use", "except"} => Steady(i, late)
           /\ i \in Frames => Steady(i, late)
           /\ i.op = "wait" /\ i # WaitFinish => Steady(i, late) \/ (late /\ i = WaitReady)
           /\ i.op = "raise" => Steady(i, late) \/ (late /\ i = Timeout)
<1>1. \A o \in Loads \cup Commands \cup {Removal} : o.op = "do"
  BY DEF Loads, Commands, Removal, Command
<1>2. WaitReady.op = "wait" /\ WaitFinish.op = "wait" /\ Timeout.op = "raise"
  BY DEF WaitReady, WaitFinish, Timeout
<1>3. \A o \in Frames : o.op = "do" /\ o.f # "execute_nvm_command" /\ o \notin Loads
  BY DEF Frames, Loads
<1>4. \A o \in Commands \cup {Removal} : o.f = "execute_nvm_command"
  BY DEF Commands, Removal, Command
<1> QED BY <1>1, <1>2, <1>3, <1>4 DEF Steady, Between

-----------------------------------------------------------------------------
(* The steps                                                               *)

\* What the actions of a call leave alone, and the types of the rest.
LEMMA Typed ==
    ASSUME TypeInv, setup' = setup, tgt' \in Targets, tgt'.nvm = tgt.nvm,
           avr' \in [drv : Drivers, width : {16, 24}, sib : Variants \cup {"None"},
                     built : BOOLEAN],
           avr'.sib \in {tgt.nvm, "None"}, avr'.drv \in {tgt.nvm, "none"},
           todo' \in Seq(Instructions(tgt'.nvm, avr'.drv)), call' = call,
           exc' \in Raisable \cup WireErrors \cup {"none", "running"},
           waited' \in Nat, faults' \in 0..MaxFaults, before' = before, luck' \in Luck,
           session' \in Sessions, asked' = asked, short' \in BOOLEAN
    PROVE  TypeInv'
BY DEF TypeInv

\* The first instruction is one.
LEMMA TopKind ==
    ASSUME TypeInv, todo # <<>>
    PROVE  Top \in Instructions(tgt.nvm, avr.drv) /\ Top = todo[1]
BY DEF TypeInv, Top

\* Between two accesses a call stays calm, and CTRLA as it is.
LEMMA Quiet ==
    ASSUME TypeInv, StaleInv, Working, todo # <<>>, Steady(Top, LateCall),
           Removes(tgt, tgt'), before' = before, call' = call,
           luck' = "calm" => luck = "calm",
           exc' # "running" => exc' # "none"
    PROVE  /\ tgt'.nvm = "P0" => tgt'.cmd = "NOCMD"
           /\ luck' = "calm" /\ before.cmd = "NOCMD" => tgt'.cmd = "NOCMD"
           /\ StaleInv'
<1>1. tgt'.nvm = "P0" => tgt'.cmd = "NOCMD"
  BY DEF StaleInv, Removes
<1>2. luck' = "calm" /\ before.cmd = "NOCMD" => tgt'.cmd = "NOCMD"
  <2> SUFFICES ASSUME luck' = "calm", before.cmd = "NOCMD" PROVE tgt.cmd = "NOCMD"
    BY DEF Removes
  <2>1. tgt.cmd = "NOCMD" \/ Clears(todo, LateCall)
    BY DEF StaleInv
  <2>2. ~Clears(todo, LateCall)
    <3>1. todo \in Seq(Instructions(tgt.nvm, avr.drv)) /\ Top = todo[1]
      BY TopKind DEF TypeInv
    <3> QED BY <3>1, ClearsOn
  <2> QED BY <2>1, <2>2
<1>3. StaleInv'
  BY <1>1, <1>2 DEF StaleInv
<1> QED BY <1>1, <1>2, <1>3

\* An access that failed with an exception: without a fault it is one that no
\* handler is for.
LEMMA Broken ==
    ASSUME TypeInv, TodoInv, StaleInv, Working, setup' = setup,
           NEW o \in Outcomes, o.exc # "none", Throw(o.exc), tgt' = o.tgt,
           faults + o.fault <= MaxFaults, faults' = faults + o.fault,
           luck' = IF o.silent \/ luck = "silent" THEN "silent"
                   ELSE IF o.fault > 0 THEN "faulty" ELSE luck,
           o.tgt.nvm = tgt.nvm, o.tgt.nvm = "P0" /\ tgt.cmd = "NOCMD" => o.tgt.cmd = "NOCMD",
           o.fault = 0 => o.exc # "SerialException",
           call' = call, before' = before, asked' = asked, short' = short, waited' \in Nat,
           avr' \in [drv : Drivers, width : {16, 24}, sib : Variants \cup {"None"},
                     built : BOOLEAN],
           avr'.sib \in {tgt.nvm, "None"}, avr'.drv \in {tgt.nvm, "none"}
    PROVE  TypeInv' /\ TodoInv' /\ StaleInv'
<1>1. o.exc \in WireErrors /\ o.tgt \in Targets
  BY DEF Outcomes
<1>2. /\ faults' \in 0..MaxFaults /\ luck' \in Luck
      /\ luck' = "calm" => luck = "calm" /\ o.fault = 0
  BY Accounting
<1>3. /\ \A n, d : todo' \in Seq(Instructions(n, d))
      /\ TodoInv'
      /\ exc' \in {o.exc, exc} /\ session' \in Sessions
      /\ \/ todo' = <<>> /\ exc' = o.exc
         \/ o.exc \in {"LockedError", "SerialException"} /\ exc' = exc
  BY <1>1, Failing
<1>4. exc' \in Raisable \cup WireErrors \cup {"none", "running"} /\ short' \in BOOLEAN
  BY <1>1, <1>3 DEF TypeInv
<1>5. TypeInv'
  BY <1>1, <1>2, <1>3, <1>4, Typed
<1>6. StaleInv'
  <2>1. tgt'.nvm = "P0" => tgt'.cmd = "NOCMD"
    BY DEF StaleInv
  <2>2. luck' # "calm" \/ (exc' \in WireErrors)
    BY <1>1, <1>2, <1>3 DEF WireErrors
  <2>3. \A e \in WireErrors : e \notin {"none", "NvmTimeout", "running"}
    BY DEF WireErrors
  <2> QED BY <2>1, <2>2, <2>3 DEF StaleInv, Working
<1> QED BY <1>3, <1>5, <1>6

\* The steps of the system keep the invariant: a transfer, ...
LEMMA PerformStep ==
    ASSUME TypeInv, TodoInv, StaleInv, Perform, setup' = setup
    PROVE  TypeInv' /\ TodoInv' /\ StaleInv'
<1> DEFINE n == tgt.nvm
<1>1. /\ Working /\ todo # <<>> /\ Top.op = "do"
      /\ avr' = avr /\ call' = call /\ waited' = waited /\ before' = before /\ asked' = asked
      /\ short' = short
  BY DEF Perform, Doing
<1>2. PICK ms \in Takes(Top.f, Top.x) :
         \E o \in Access(Top.f, Top.x, ms) : Ends(o, LAMBDA val : GoOn(<<>>))
  BY DEF Perform
<1>3. PICK o \in Access(Top.f, Top.x, ms) : Ends(o, LAMBDA val : GoOn(<<>>))
  BY <1>2
<1>4. /\ faults + o.fault <= MaxFaults /\ faults' = faults + o.fault
      /\ luck' = IF o.silent \/ luck = "silent" THEN "silent"
                 ELSE IF o.fault > 0 THEN "faulty" ELSE luck
      /\ tgt' = o.tgt
      /\ o.exc = "none" => GoOn(<<>>)
      /\ o.exc # "none" => Throw(o.exc)
  BY <1>3 DEF Ends
<1>5. ms \in Nat
  BY TakesType
<1>6. Top \in Instructions(n, avr.drv) /\ Top = todo[1]
  BY <1>1, TopKind
<1>7. Top \in Frames \cup Loads \cup Commands \cup {Removal}
  BY <1>1, <1>6, Kinds
<1>8. /\ o \in Outcomes /\ o.tgt.nvm = n
      /\ o.exc # "none" /\ o.fault = 0 => o.exc = "ProtocolError"
      /\ n = "P0" /\ tgt.cmd = "NOCMD" => o.tgt.cmd = "NOCMD"
      /\ Top \in Frames \cup Loads => Removes(tgt, o.tgt)
      /\ Top \in Loads /\ o.exc = "none" /\ ~WordOriented(tgt) /\ tgt.busy = 0 => o.tgt.busy = 0
      /\ Top = Removal /\ o.exc = "none" /\ o.fault = 0 => o.tgt.cmd = "NOCMD"
  <2>1. CASE Top \in Frames
    <3>1. Top \notin Loads /\ Top # Removal
      <4>1. \A i \in Frames : i.f \notin {"execute_nvm_command", "write_data", "write_data_words",
                                          "write_byte"}
        BY DEF Frames
      <4>2. Removal.f = "execute_nvm_command"
        BY DEF Removal, Command
      <4>3. \A i \in Loads : i.f \in {"write_data", "write_data_words", "write_byte"}
        BY DEF Loads
      <4> QED BY <2>1, <4>1, <4>2, <4>3
    <3> QED BY <1>5, <2>1, <3>1, FrameWays DEF Removes
  <2>2. CASE Top \in Loads
    <3>1. Top # Removal
      <4>1. \A i \in Loads : i.f # "execute_nvm_command"
        BY DEF Loads
      <4> QED BY <2>2, <4>1 DEF Removal, Command
    <3> QED BY <1>5, <2>2, <3>1, LoadWays DEF Removes
  <2>3. CASE Top \in Commands \cup {Removal}
    <3>1. /\ Top.f = "execute_nvm_command" /\ Top.x \in Nat
          /\ Top = Removal => Top.x = 0
      BY <2>3 DEF Commands, Removal, Command
    <3>2. Top \notin Frames \cup Loads
      <4>1. \A i \in Frames \cup Loads : i.f # "execute_nvm_command"
        BY DEF Frames, Loads
      <4> QED BY <3>1, <4>1
    <3>3. o \in Access("execute_nvm_command", Top.x, ms)
      BY <3>1
    <3> QED BY <1>5, <3>1, <3>2, <3>3, CommandWays
  <2> QED BY <1>7, <2>1, <2>2, <2>3
<1>9. /\ faults' \in 0..MaxFaults /\ luck' \in Luck
      /\ luck' = "calm" => luck = "calm" /\ o.fault = 0
  BY <1>4, <1>8, Accounting
<1>10. /\ avr' \in [drv : Drivers, width : {16, 24}, sib : Variants \cup {"None"},
                    built : BOOLEAN]
       /\ avr'.sib \in {n, "None"} /\ avr'.drv \in {n, "none"}
       /\ waited' \in Nat /\ short' \in BOOLEAN
  BY <1>1 DEF TypeInv
<1>11. CASE o.exc # "none"
  BY <1>1, <1>4, <1>8, <1>10, <1>11, Broken
<1>12. CASE o.exc = "none"
  <2>1. Stays(todo, n, <<>>, tgt.busy = 0, tgt'.busy = 0)
    <3>1. CASE Top \in Loads /\ n \notin {"P2", "P4"}
      <4>1. Top \in Buffered(n) /\ ~WordOriented(tgt)
        BY <3>1 DEF Buffered, WordOriented
      <4>2. tgt.busy = 0 => tgt'.busy = 0
        BY <1>4, <1>8, <1>12, <3>1, <4>1
      <4> QED BY <1>6, <4>1, <4>2 DEF Stays
    <3>2. CASE Top \notin Loads \/ n \in {"P2", "P4"}
      <4>1. Top \notin Buffered(n)
        BY <3>2 DEF Buffered
      <4>2. Top \notin {WaitReady, Timeout}
        BY <1>1 DEF WaitReady, Timeout
      <4> QED BY <1>6, <4>1, <4>2 DEF Stays
    <3> QED BY <3>1, <3>2
  <2>2. /\ todo' \in Seq(Instructions(tgt'.nvm, avr'.drv)) /\ TodoInv'
        /\ exc' = exc /\ session' = session
    <3>1. /\ <<>> \in Seq(Plain3 \cup Uses(n) \cup {Removal, Timeout})
          /\ Len(<<>>) = 0
      BY Nothing
    <3>2. avr'.drv \in {avr.drv, n} /\ tgt'.nvm = n
      BY <1>1, <1>4, <1>8
    <3>3. ~\E k \in 1..Len(<<>>) : <<>>[k] = Removal
      OBVIOUS
    <3>4. GoOn(<<>>)
      BY <1>4, <1>12
    <3> QED BY <1>1, <2>1, <3>1, <3>2, <3>3, <3>4, Going
  <2>3. TypeInv'
    <3>1. tgt' \in Targets /\ tgt'.nvm = tgt.nvm
      BY <1>4, <1>8 DEF Outcomes
    <3>2. exc' \in Raisable \cup WireErrors \cup {"none", "running"} /\ session' \in Sessions
      BY <2>2 DEF TypeInv
    <3> QED BY <1>1, <1>9, <1>10, <2>2, <3>1, <3>2, Typed
  <2>4. StaleInv'
    <3>1. tgt'.nvm = "P0" => tgt'.cmd = "NOCMD"
      BY <1>4, <1>8 DEF StaleInv
    <3>2. ASSUME luck' = "calm", before.cmd = "NOCMD"
          PROVE  tgt'.cmd = "NOCMD" \/ Clears(Tail(todo), LateCall)
      <4>1. /\ luck = "calm" /\ o.fault = 0
            /\ tgt.cmd = "NOCMD" \/ Clears(todo, LateCall)
        BY <1>1, <1>9, <3>2 DEF StaleInv
      <4>2. todo \in Seq(Instructions(n, avr.drv))
        BY DEF TypeInv
      <4>3. Clears(todo, LateCall) =>
               /\ ~Steady(Top, LateCall)
               /\ \/ Top \in {Removal, WaitFinish} \/ (LateCall /\ Top = Timeout)
                  \/ Clears(Tail(todo), LateCall)
        BY <1>1, <1>6, <4>2, ClearsOn
      <4>4. Top # WaitFinish /\ Top # Timeout
        BY <1>1 DEF WaitFinish, Timeout
      <4>5. CASE Top \in Frames
        <5>1. Steady(Top, LateCall)
          BY <1>6, <4>5, SteadyKinds
        <5> QED BY <1>4, <1>8, <4>1, <4>3, <4>5, <5>1 DEF Removes
      <4>6. CASE Top \in Loads
        <5>1. Top # Removal
          <6>1. \A i \in Loads : i.f # "execute_nvm_command"
            BY DEF Loads
          <6> QED BY <4>6, <6>1 DEF Removal, Command
        <5> QED BY <1>4, <1>8, <4>1, <4>3, <4>4, <4>6, <5>1 DEF Removes
      <4>7. CASE Top \in Commands
        <5>1. CASE n = "P0"
          BY <1>4, <1>8, <5>1 DEF StaleInv
        <5>2. CASE n # "P0"
          <6>1. 1 \in 1..Len(todo)
            BY <1>1, <4>2
          <6>2. Removed(todo, LateCall, 1)
            BY <1>6, <4>7, <5>2, <6>1 DEF TodoInv, Finished
          <6> QED BY <1>1, <4>2, <6>2, ClearsAfter
        <5> QED BY <5>1, <5>2
      <4>8. CASE Top = Removal
        BY <1>4, <1>8, <1>12, <4>1, <4>8
      <4> QED BY <1>7, <4>5, <4>6, <4>7, <4>8
    <3>3. todo' = Tail(todo) /\ exc' = "running" /\ LateCall' = LateCall
      <4>1. todo' = <<>> \o Tail(todo)
        BY <1>4, <1>12 DEF GoOn
      <4>2. Tail(todo) \in Seq(Instructions(n, avr.drv))
        BY <1>1 DEF TypeInv
      <4>3. <<>> \o Tail(todo) = Tail(todo)
        BY <4>2
      <4> QED BY <1>1, <1>4, <1>8, <2>2, <4>1, <4>3 DEF Working, LateCall, LateCallOf
    <3> QED BY <1>1, <3>1, <3>2, <3>3 DEF StaleInv, Working
  <2> QED BY <2>2, <2>3, <2>4
<1> QED BY <1>11, <1>12

\* An instruction that neither gives nor awaits a command, and what follows.
LEMMA Continued ==
    ASSUME TypeInv, TodoInv, StaleInv, Working, todo # <<>>, setup' = setup,
           NEW pre \in Seq(Plain3 \cup Uses(tgt.nvm)), GoOn(pre),
           tgt' \in Targets, Removes(tgt, tgt'),
           Top \notin Loads \cup {WaitReady, WaitFinish, Timeout}, Steady(Top, LateCall),
           avr' \in [drv : Drivers, width : {16, 24}, sib : Variants \cup {"None"},
                     built : BOOLEAN],
           avr'.sib \in {tgt.nvm, "None"}, avr'.drv \in {avr.drv, tgt.nvm},
           call' = call, waited' \in Nat, faults' \in 0..MaxFaults, before' = before,
           luck' \in Luck, luck' = "calm" => luck = "calm", asked' = asked, short' \in BOOLEAN
    PROVE  TypeInv' /\ TodoInv' /\ StaleInv'
<1> DEFINE n == tgt.nvm
<1>1. pre \in Seq(Plain3 \cup Uses(n) \cup {Removal, Timeout})
  BY SeqGrows
<1>2. ~\E k \in 1..Len(pre) : pre[k] = Removal
  <2>1. \A o \in Frames \cup Loads : o.f # "execute_nvm_command"
    BY DEF Frames, Loads
  <2>2. \A o \in Raises \cup [op : {"sib", "select", "short", "call"}] \cup Branching(Plain2)
               \cup Uses(n) : o.op # "do"
    BY DEF Raises, Branching, Uses
  <2>3. Removal.op = "do" /\ Removal.f = "execute_nvm_command"
    BY DEF Removal, Command
  <2>4. Removal \notin Plain3 \cup Uses(n)
    BY <2>1, <2>2, <2>3 DEF Plain3, Plain
  <2> QED BY <2>4
<1>3. Top \notin {WaitReady, Timeout} \cup Buffered(n)
  BY DEF Buffered
<1>4. Stays(todo, n, pre, tgt.busy = 0, tgt'.busy = 0)
  BY <1>3, TopKind DEF Stays
<1>5. tgt'.nvm = n
  BY DEF Removes
<1>6. /\ todo' \in Seq(Instructions(tgt'.nvm, avr'.drv)) /\ TodoInv'
      /\ exc' = exc /\ session' = session
  BY <1>1, <1>2, <1>4, <1>5, Going
<1>7. TypeInv'
  <2>1. /\ exc' \in Raisable \cup WireErrors \cup {"none", "running"} /\ session' \in Sessions
        /\ avr'.drv \in {n, "none"}
    BY <1>6 DEF TypeInv
  <2> QED BY <1>5, <1>6, <2>1, Typed
<1>8. StaleInv'
  BY <1>6, Quiet DEF Working
<1> QED BY <1>6, <1>7, <1>8

\* What a target that does not answer has done.
LEMMA Unchanging ==
    ASSUME NEW t \in Targets, NEW u \in Missed(t)
    PROVE  u \in Targets /\ Removes(t, u) /\ (t.busy = 0 => u.busy = 0)
<1>1. Settle(t) \in Targets /\ Settle(t).nvm = t.nvm /\ Settle(t).cmd = t.cmd
      /\ Settle(t).busy = 0
  BY TimeType, 0 \in Nat
<1> QED BY <1>1 DEF Missed, Removes

\* What the tests can end with.
LEMMA AnswerWays ==
    ASSUME TypeInv, NEW test \in Tests, NEW o \in Answers(test)
    PROVE  /\ o \in Outcomes /\ o.tgt \in Missed(tgt)
           /\ o.exc # "none" /\ o.fault = 0 => o.exc = "ProtocolError"
<1>1. tgt \in Targets /\ avr.sib \in Variants \cup {"None"}
  BY DEF TypeInv
<1>2. CASE test = "check_datalink"
  <2>1. PICK p \in ldcs(tgt, TRUE) :
           o = IF p.exc = "ProtocolError" THEN [p EXCEPT !.exc = "none"] ELSE p
    BY <1>2 DEF Answers
  <2>2. p \in Outcomes /\ p.tgt \in Missed(tgt)
        /\ (p.exc # "none" /\ p.fault = 0 => p.exc = "ProtocolError")
    BY <1>1, LdcsWays
  <2>3. CASE p.exc = "ProtocolError"
    <3>1. o \in Outcomes
      BY <2>1, <2>2, <2>3 DEF Outcomes
    <3>2. o.tgt = p.tgt /\ o.exc = "none"
      BY <2>1, <2>2, <2>3 DEF Outcomes
    <3> QED BY <2>2, <3>1, <3>2
  <2> QED BY <2>1, <2>2, <2>3
<1>3. CASE test \in {"NVMPROG", "NVMProg", "NVMErase", "NVMUs&te"}
  <2>1. PICK v \in BOOLEAN : o \in ldcs(tgt, v)
    <3>1. NvmProg(tgt) \in BOOLEAN /\ (test \in tgt.keys) \in BOOLEAN
      BY DEF NvmProg
    <3>2. CASE test = "NVMPROG"
      BY <3>1, <3>2 DEF Answers
    <3>3. CASE test \in {"NVMProg", "NVMErase", "NVMUs&te"}
      BY <3>1, <3>3 DEF Answers
    <3> QED BY <1>3, <3>2, <3>3
  <2> QED BY <1>1, <2>1, LdcsWays
<1>4. CASE test \in {"sib_is_None", "expected", "short"}
  <2>1. PICK v \in BOOLEAN : o = Out(tgt, v, "none", 0, FALSE)
    <3>1. /\ (avr.sib = "None") \in BOOLEAN /\ tgt.expected \in BOOLEAN
          /\ short \in BOOLEAN
      BY <1>1 DEF Targets, TypeInv
    <3> QED BY <1>4, <3>1 DEF Answers
  <2>2. o \in Outcomes /\ o.tgt = tgt /\ o.exc = "none"
    BY <1>1, <2>1 DEF Out, Outcomes
  <2> QED BY <2>2 DEF Missed
<1>5. CASE test = "read_data"
  BY <1>1, <1>5, ReadDataWays DEF Answers
<1> QED BY <1>2, <1>3, <1>4, <1>5 DEF Tests, Keys

\* ... a branch, ...
LEMMA TestStep ==
    ASSUME TypeInv, TodoInv, StaleInv, Test, setup' = setup
    PROVE  TypeInv' /\ TodoInv' /\ StaleInv'
<1> DEFINE n == tgt.nvm
<1>1. /\ Working /\ todo # <<>> /\ Top.op = "if"
      /\ avr' = avr /\ call' = call /\ waited' = waited /\ before' = before /\ asked' = asked
      /\ short' = short
  BY DEF Test, Doing
<1>2. PICK o \in Answers(Top.test) :
         Ends(o, LAMBDA val : GoOn(IF val THEN Top.then ELSE Top.else))
  BY DEF Test
<1>3. /\ faults + o.fault <= MaxFaults /\ faults' = faults + o.fault
      /\ luck' = IF o.silent \/ luck = "silent" THEN "silent"
                 ELSE IF o.fault > 0 THEN "faulty" ELSE luck
      /\ tgt' = o.tgt
      /\ o.exc = "none" => GoOn(IF o.val THEN Top.then ELSE Top.else)
      /\ o.exc # "none" => Throw(o.exc)
  BY <1>2 DEF Ends
<1>4. Top \in Instructions(n, avr.drv) /\ Top.test \in Tests
      /\ Top.then \in Seq(Plain2) /\ Top.else \in Seq(Plain2)
  BY <1>1, TopKind, Kinds
<1>5. /\ o \in Outcomes /\ o.tgt \in Missed(tgt)
      /\ o.exc # "none" /\ o.fault = 0 => o.exc = "ProtocolError"
  BY <1>4, AnswerWays
<1>6. o.tgt \in Targets /\ Removes(tgt, o.tgt)
  BY <1>5, Unchanging DEF TypeInv
<1>7. /\ faults' \in 0..MaxFaults /\ luck' \in Luck
      /\ luck' = "calm" => luck = "calm" /\ o.fault = 0
  BY <1>3, <1>5, Accounting
<1>8. /\ avr' \in [drv : Drivers, width : {16, 24}, sib : Variants \cup {"None"},
                   built : BOOLEAN]
      /\ avr'.sib \in {n, "None"} /\ avr'.drv \in {n, "none"} /\ avr'.drv = avr.drv
      /\ waited' \in Nat /\ short' \in BOOLEAN
  BY <1>1 DEF TypeInv
<1>9. CASE o.exc # "none"
  BY <1>1, <1>3, <1>5, <1>6, <1>8, <1>9, Broken DEF Removes
<1>10. CASE o.exc = "none"
  <2>1. PICK pre \in Seq(Plain3 \cup Uses(n)) : GoOn(pre)
    <3>1. Seq(Plain2) \subseteq Seq(Plain3 \cup Uses(n))
      BY PlainGrows, SeqGrows
    <3> QED BY <1>3, <1>4, <1>10, <3>1
  <2>2. Steady(Top, LateCall)
    BY <1>1, <1>4, SteadyKinds
  <2>3. Top \notin Loads \cup {WaitReady, WaitFinish, Timeout}
    BY <1>1 DEF Loads, WaitReady, WaitFinish, Timeout
  <2> QED BY <1>1, <1>3, <1>6, <1>7, <1>8, <2>1, <2>2, <2>3, Continued
<1> QED BY <1>9, <1>10

\* What a poll can end with; the controller is idle after nvm_ready says so.
LEMMA PollWays ==
    ASSUME TypeInv, NEW until \in {"nvm_ready", "unlocked", "urowprog", "no_urowprog"},
           NEW o \in Poll(until)
    PROVE  /\ o \in Outcomes /\ o.tgt \in Missed(tgt)
           /\ o.exc # "none" /\ o.fault = 0 => o.exc # "SerialException"
           /\ until = "nvm_ready" /\ avr.drv # "none" /\ o.exc = "none" /\ o.val =>
                 tgt.busy = 0
<1>1. tgt \in Targets
  BY DEF TypeInv
<1>2. CASE until = "nvm_ready"
  <2> DEFINE v == ~NvmStatus(tgt) \/ tgt.busy = 0
  <2>1. PICK p \in ld(tgt, avr.width, v) :
           o = IF p.exc = "none" /\ NvmStatus(tgt) /\ tgt.err THEN [p EXCEPT !.exc = "NvmError"]
               ELSE p
    BY <1>2 DEF Poll
  <2>2. v \in BOOLEAN
    OBVIOUS
  <2> HIDE DEF v
  <2>3. /\ p \in Outcomes /\ p.tgt \in Missed(tgt)
        /\ p.exc = "none" => Accessible(tgt) /\ p.val = v
        /\ p.exc # "none" /\ p.fault = 0 => p.exc = "IndexError"
    BY <1>1, <2>2, LdWays
  <2>4. CASE o = [p EXCEPT !.exc = "NvmError"]
    <3>1. o \in Outcomes
      BY <2>3, <2>4 DEF Outcomes, WireErrors
    <3>2. o.exc = "NvmError" /\ o.tgt = p.tgt
      BY <2>3, <2>4 DEF Outcomes
    <3> QED BY <2>3, <3>1, <3>2
  <2>5. CASE o = p
    <3>1. ASSUME avr.drv # "none", p.exc = "none", p.val PROVE tgt.busy = 0
      <4>1. v /\ tgt.on
        BY <2>3, <3>1 DEF Accessible
      <4>2. avr.drv = tgt.nvm /\ tgt.nvm \in {"P0", "P2", "P3", "P4", "P5"}
        BY <3>1 DEF TypeInv, Drivers
      <4>3. NVMCTRL_STATUS[avr.drv] = StatusOffset(tgt)
        BY <4>2 DEF NVMCTRL_STATUS, StatusOffset
      <4> QED BY <4>1, <4>3 DEF v, NvmStatus
    <3> QED BY <2>3, <2>5, <3>1
  <2> QED BY <2>1, <2>4, <2>5
<1>3. CASE until # "nvm_ready"
  <2>1. PICK v \in BOOLEAN : o \in ldcs(tgt, v)
    <3>1. /\ (~LockStatus(tgt)) \in BOOLEAN /\ UrowProg(tgt) \in BOOLEAN
          /\ (~UrowProg(tgt)) \in BOOLEAN
      BY DEF UrowProg
    <3>2. CASE until = "unlocked"
      BY <3>1, <3>2 DEF Poll
    <3>3. CASE until = "urowprog"
      BY <3>1, <3>3 DEF Poll
    <3>4. CASE until = "no_urowprog"
      BY <3>1, <3>4 DEF Poll
    <3> QED BY <1>3, <3>2, <3>3, <3>4
  <2> QED BY <1>1, <1>3, <2>1, LdcsWays
<1> QED BY <1>2, <1>3

\* What a wait goes on with.
LEMMA WaitKinds ==
    ASSUME TypeInv, todo # <<>>, Top.op = "wait"
    PROVE  /\ Top.until \in {"nvm_ready", "unlocked", "urowprog", "no_urowprog"}
           /\ Top \in {WaitReady, WaitFinish} => Top.until = "nvm_ready" /\ avr.drv # "none"
           /\ Top \notin {WaitReady, WaitFinish} =>
                 /\ Top.then \in Seq(Plain2) /\ Top.else \in Seq(Plain2)
                 /\ Steady(Top, LateCall)
           /\ Top = WaitReady => Top.then = <<>> /\ Top.else = <<Timeout>>
           /\ Top = WaitFinish => Top.then = <<Removal>> /\ Top.else = <<Removal>> \o <<Timeout>>
           /\ Top \notin Loads \cup {Timeout}
<1>1. Top \in Instructions(tgt.nvm, avr.drv)
  BY TopKind
<1>2. Top \in {WaitReady, WaitFinish} => Top \in Driving /\ Top.until = "nvm_ready"
  BY DEF Driving, WaitReady, WaitFinish
<1>3. Top = WaitReady => Top.then = <<>> /\ Top.else = <<Timeout>>
  BY DEF WaitReady
<1>4. Top = WaitFinish => Top.then = <<Removal>> /\ Top.else = <<Removal>> \o <<Timeout>>
  <2> DEFINE a == <<Removal>>
             b == <<Removal>> \o <<Timeout>>
  <2>1. WaitFinish
        = [op |-> "wait", until |-> "nvm_ready", ms |-> 100, then |-> a, else |-> b]
    BY Zenon DEF WaitFinish
  <2> HIDE DEF a, b
  <2>2. WaitFinish.then = a /\ WaitFinish.else = b
    BY <2>1
  <2> QED BY <2>2 DEF a, b
<1>5. Top \notin Loads \cup {Timeout}
  BY DEF Loads, Timeout
<1>6. Top \notin {WaitReady, WaitFinish} => Steady(Top, LateCall)
  BY <1>1, SteadyKinds
<1> QED BY <1>1, <1>2, <1>3, <1>4, <1>5, <1>6, Kinds

\* The instructions of the drivers that wait: what is there to do afterwards.
LEMMA Answered ==
    ASSUME TypeInv, TodoInv, StaleInv, Working, todo # <<>>, setup' = setup,
           Top \in {WaitReady, WaitFinish}, avr.drv # "none",
           NEW pre \in {<<>>, <<Timeout>>, <<Removal>>, <<Removal>> \o <<Timeout>>}, GoOn(pre),
           Top = WaitReady => pre = <<Timeout>> \/ (pre = <<>> /\ tgt'.busy = 0),
           Top = WaitFinish => pre \in {<<Removal>>, <<Removal>> \o <<Timeout>>},
           tgt' \in Targets, Removes(tgt, tgt'), avr' = avr,
           call' = call, waited' \in Nat, faults' \in 0..MaxFaults, before' = before,
           luck' \in Luck, luck' = "calm" => luck = "calm", asked' = asked, short' = short
    PROVE  TypeInv' /\ TodoInv' /\ StaleInv'
<1> DEFINE n == tgt.nvm
<1>1. /\ pre \in Seq(Plain3 \cup Uses(n) \cup {Removal, Timeout})
      /\ pre # <<>> => Len(pre) >= 1
      /\ Top = WaitFinish => Len(pre) >= 1 /\ pre[1] = Removal
      /\ pre = <<Timeout>> => Len(pre) >= 1 /\ pre[1] = Timeout
  <2> DEFINE S == Plain3 \cup Uses(n) \cup {Removal, Timeout}
  <2>1. Removal \in S /\ Timeout \in S
    OBVIOUS
  <2> HIDE DEF S
  <2>2. \A r \in S, t \in S : /\ <<r>> \o <<t>> \in Seq(S) /\ Len(<<r>> \o <<t>>) = 2
                              /\ (<<r>> \o <<t>>)[1] = r
    OBVIOUS
  <2>3. \A r \in S : <<r>> \in Seq(S) /\ Len(<<r>>) = 1 /\ <<r>>[1] = r
    OBVIOUS
  <2>4. WaitReady # WaitFinish
    BY Apart
  <2>5. CASE pre = <<>>
    BY <2>4, <2>5, Nothing DEF S
  <2>6. CASE pre = <<Timeout>>
    BY <2>1, <2>3, <2>4, <2>6 DEF S
  <2>7. CASE pre = <<Removal>>
    <3>1. <<Removal>> # <<Timeout>>
      BY <2>1, <2>3 DEF Removal, Command, Timeout
    <3> QED BY <2>1, <2>3, <2>7, <3>1 DEF S
  <2>8. CASE pre = <<Removal>> \o <<Timeout>>
    <3>1. /\ pre \in Seq(S) /\ Len(pre) = 2 /\ pre[1] = Removal
      BY <2>1, <2>2, <2>8
    <3>2. Len(<<Timeout>>) = 1
      OBVIOUS
    <3> QED BY <3>1, <3>2 DEF S
  <2> QED BY <2>5, <2>6, <2>7, <2>8
<1>2. Stays(todo, n, pre, tgt.busy = 0, tgt'.busy = 0)
  <2>1. CASE Top = WaitReady
    BY <2>1, TopKind DEF Stays
  <2>2. CASE Top = WaitFinish
    <3>1. Top # WaitReady /\ Top # Timeout /\ Top \notin Buffered(n)
      BY <2>2, Apart DEF Timeout, WaitFinish, Buffered, Loads
    <3> QED BY <3>1, TopKind DEF Stays
  <2> QED BY <2>1, <2>2
<1>3. tgt'.nvm = n
  BY DEF Removes
<1>4. /\ todo' \in Seq(Instructions(tgt'.nvm, avr'.drv)) /\ TodoInv'
      /\ exc' = exc /\ session' = session
  BY <1>1, <1>2, <1>3, Going
<1>5. TypeInv'
  <2>1. /\ exc' \in Raisable \cup WireErrors \cup {"none", "running"} /\ session' \in Sessions
        /\ avr' \in [drv : Drivers, width : {16, 24}, sib : Variants \cup {"None"},
                     built : BOOLEAN]
        /\ avr'.sib \in {n, "None"} /\ avr'.drv \in {n, "none"} /\ short' \in BOOLEAN
    BY <1>4 DEF TypeInv
  <2> QED BY <1>3, <1>4, <2>1, Typed
<1>6. todo' = pre \o Tail(todo) /\ LateCall' = LateCall
  BY <1>3 DEF GoOn, LateCall, LateCallOf
<1>7. ASSUME luck' = "calm", before.cmd = "NOCMD"
      PROVE  tgt'.cmd = "NOCMD" \/ Clears(todo', LateCall)
  <2>1. tgt.cmd = "NOCMD" \/ Clears(todo, LateCall)
    BY <1>7 DEF StaleInv
  <2>2. todo \in Seq(Instructions(n, avr.drv)) /\ Top = todo[1]
    BY TopKind DEF TypeInv
  <2>3. todo' \in Seq(Instructions(n, avr.drv))
    BY <1>3, <1>4
  <2>4. Clears(todo, LateCall) =>
           /\ ~Steady(Top, LateCall)
           /\ \/ Top \in {Removal, WaitFinish} \/ (LateCall /\ Top = Timeout)
              \/ Clears(Tail(todo), LateCall)
    BY <2>2, ClearsOn
  <2>5. pre # <<>> => Len(todo') >= 1 /\ todo'[1] = pre[1]
    <3>1. Tail(todo) \in Seq(Instructions(n, avr.drv))
      BY <2>2
    <3> QED BY <1>1, <1>6, <3>1
  <2>6. CASE Top = WaitFinish
    <3>1. Len(todo') >= 1 /\ todo'[1] = Removal
      BY <1>1, <2>5, <2>6
    <3> QED BY <2>3, <3>1, ClearsAtOnce
  <2>7. CASE Top = WaitReady /\ Clears(todo, LateCall)
    <3>1. Top # Removal /\ Top # WaitFinish /\ Top # Timeout
      BY <2>7, Apart DEF WaitReady, Removal, Command, Timeout
    <3>2. LateCall /\ Clears(Tail(todo), LateCall)
      <4>1. Top \in Instructions(n, avr.drv)
        BY TopKind
      <4>2. Top.op = "wait"
        BY <2>7 DEF WaitReady
      <4>3. Steady(Top, LateCall) \/ LateCall
        BY <3>1, <4>1, <4>2, SteadyKinds
      <4> QED BY <2>4, <2>7, <3>1, <4>3
    <3>3. CASE pre = <<>>
      <4>1. todo' = Tail(todo)
        BY <1>6, <2>2, <3>3
      <4> QED BY <3>2, <4>1
    <3>4. CASE pre = <<Timeout>>
      <4>1. Len(todo') >= 1 /\ todo'[1] = Timeout
        BY <1>1, <2>5, <3>4
      <4> QED BY <2>3, <3>2, <4>1, ClearsAtOnce
    <3> QED BY <2>7, <3>3, <3>4
  <2>8. CASE Top = WaitReady /\ tgt.cmd = "NOCMD"
    BY <2>8 DEF Removes
  <2> QED BY <2>1, <2>6, <2>7, <2>8
<1>8. StaleInv'
  <2>1. tgt'.nvm = "P0" => tgt'.cmd = "NOCMD"
    BY DEF StaleInv, Removes
  <2>2. exc' = "running"
    BY <1>4 DEF Working
  <2> QED BY <1>6, <1>7, <2>1, <2>2 DEF StaleInv, Working
<1> QED BY <1>4, <1>5, <1>8

\* ... a poll, ...
LEMMA WaitStep ==
    ASSUME TypeInv, TodoInv, StaleInv, Wait, setup' = setup
    PROVE  TypeInv' /\ TodoInv' /\ StaleInv'
<1> DEFINE n == tgt.nvm
<1>1. /\ Working /\ todo # <<>> /\ Top.op = "wait"
      /\ avr' = avr /\ call' = call /\ before' = before /\ asked' = asked /\ short' = short
  BY DEF Wait, Doing
<1>2. PICK o \in Poll(Top.until) :
        /\ Ends([o EXCEPT !.tgt = Elapse(@, PollMs)],
                LAMBDA val : IF val THEN GoOn(Top.then) ELSE UNCHANGED <<todo, exc, session>>)
        /\ waited' = Spent(o)
  BY DEF Wait
<1> DEFINE q == [o EXCEPT !.tgt = Elapse(@, PollMs)]
<1>3. /\ faults + q.fault <= MaxFaults /\ faults' = faults + q.fault
      /\ luck' = IF q.silent \/ luck = "silent" THEN "silent"
                 ELSE IF q.fault > 0 THEN "faulty" ELSE luck
      /\ tgt' = q.tgt
      /\ q.exc = "none" /\ q.val => GoOn(Top.then)
      /\ q.exc = "none" /\ ~q.val => UNCHANGED <<todo, exc, session>>
      /\ q.exc # "none" => Throw(q.exc)
  BY <1>2 DEF Ends
<1>4. Top.until \in {"nvm_ready", "unlocked", "urowprog", "no_urowprog"}
  BY <1>1, WaitKinds
<1>5. /\ o \in Outcomes /\ o.tgt \in Missed(tgt)
      /\ o.exc # "none" /\ o.fault = 0 => o.exc # "SerialException"
      /\ Top.until = "nvm_ready" /\ avr.drv # "none" /\ o.exc = "none" /\ o.val => tgt.busy = 0
  BY <1>4, PollWays
<1>6. o.tgt \in Targets /\ Removes(tgt, o.tgt) /\ (tgt.busy = 0 => o.tgt.busy = 0)
  BY <1>5, Unchanging DEF TypeInv
<1>7. /\ q \in Outcomes /\ q.tgt = Elapse(o.tgt, PollMs)
      /\ q.exc = o.exc /\ q.val = o.val /\ q.fault = o.fault /\ q.silent = o.silent
  <2>1. Elapse(o.tgt, PollMs) \in Targets
    BY <1>6, TimeType, PollAssumption
  <2> QED BY <1>5, <2>1 DEF Outcomes
<1> HIDE DEF q
<1>8. q.tgt \in Targets /\ Removes(tgt, q.tgt) /\ (tgt.busy = 0 => q.tgt.busy = 0)
  <2>1. /\ Elapse(o.tgt, PollMs) \in Targets /\ Elapse(o.tgt, PollMs).nvm = o.tgt.nvm
        /\ Elapse(o.tgt, PollMs).cmd = o.tgt.cmd
        /\ o.tgt.busy = 0 => Elapse(o.tgt, PollMs).busy = 0
    BY <1>6, TimeType, PollAssumption
  <2> QED BY <1>6, <1>7, <2>1 DEF Removes
<1>9. /\ faults' \in 0..MaxFaults /\ luck' \in Luck
      /\ luck' = "calm" => luck = "calm" /\ q.fault = 0
  BY <1>3, <1>7, Accounting
<1>10. /\ avr' \in [drv : Drivers, width : {16, 24}, sib : Variants \cup {"None"},
                    built : BOOLEAN]
       /\ avr'.sib \in {n, "None"} /\ avr'.drv \in {n, "none"} /\ short' \in BOOLEAN
       /\ waited' \in Nat /\ avr'.drv = avr.drv
  <2>1. waited \in Nat /\ PollMs \in Nat
    BY PollAssumption DEF TypeInv
  <2>2. waited' \in Nat
    BY <1>2, <2>1 DEF Spent
  <2> QED BY <1>1, <2>2 DEF TypeInv
<1>11. CASE q.exc # "none"
  <2>1. q.fault = 0 => q.exc # "SerialException"
    BY <1>5, <1>7, <1>11
  <2>2. q.tgt.nvm = n /\ (q.tgt.nvm = "P0" /\ tgt.cmd = "NOCMD" => q.tgt.cmd = "NOCMD")
    BY <1>8 DEF Removes
  <2> QED BY <1>1, <1>3, <1>7, <1>10, <1>11, <2>1, <2>2, Broken
<1>12. CASE q.exc = "none" /\ q.val
  <2>1. GoOn(Top.then)
    BY <1>3, <1>12
  <2>2. CASE Top \in {WaitReady, WaitFinish}
    <3>1. /\ avr.drv # "none" /\ tgt'.busy = 0
          /\ Top = WaitReady => Top.then = <<>>
          /\ Top = WaitFinish => Top.then = <<Removal>>
      BY <1>1, <1>3, <1>5, <1>7, <1>8, <1>12, <2>2, WaitKinds
    <3>2. tgt' \in Targets /\ Removes(tgt, tgt')
      BY <1>3, <1>8
    <3>3. WaitReady # WaitFinish
      BY Apart
    <3> QED BY <1>1, <1>9, <1>10, <2>1, <2>2, <3>1, <3>2, <3>3, Answered
  <2>3. CASE Top \notin {WaitReady, WaitFinish}
    <3>1. /\ Top.then \in Seq(Plain3 \cup Uses(n)) /\ Steady(Top, LateCall)
          /\ Top \notin Loads \cup {WaitReady, WaitFinish, Timeout}
      <4>1. Seq(Plain2) \subseteq Seq(Plain3 \cup Uses(n))
        BY PlainGrows, SeqGrows
      <4> QED BY <1>1, <2>3, <4>1, WaitKinds
    <3>2. tgt' \in Targets /\ Removes(tgt, tgt')
      BY <1>3, <1>8
    <3> QED BY <1>1, <1>9, <1>10, <2>1, <3>1, <3>2, Continued
  <2> QED BY <2>2, <2>3
<1>13. CASE q.exc = "none" /\ ~q.val
  <2>1. todo' = todo /\ exc' = exc /\ session' = session
    BY <1>3, <1>13
  <2>2. tgt' \in Targets /\ tgt'.nvm = n /\ Removes(tgt, tgt')
        /\ (tgt.busy = 0 => tgt'.busy = 0)
    BY <1>3, <1>8 DEF Removes
  <2>3. TypeInv'
    <3>1. /\ todo' \in Seq(Instructions(tgt'.nvm, avr'.drv))
          /\ exc' \in Raisable \cup WireErrors \cup {"none", "running"} /\ session' \in Sessions
      BY <1>10, <2>1, <2>2 DEF TypeInv
    <3> QED BY <1>1, <1>9, <1>10, <2>2, <3>1, Typed
  <2>4. TodoInv'
    <3>1. Guarded(todo, n, tgt'.busy = 0)
      <4>1. (tgt.busy = 0) \in BOOLEAN /\ (tgt'.busy = 0) \in BOOLEAN
        OBVIOUS
      <4> QED BY <2>2, <4>1, StillGuarded DEF TodoInv
    <3> QED BY <1>1, <2>1, <2>2, <3>1 DEF TodoInv, LateCall, LateCallOf
  <2>5. StaleInv'
    BY <1>1, <1>9, <2>1, <2>2 DEF StaleInv, Working, LateCall, LateCallOf, Removes
  <2> QED BY <2>3, <2>4, <2>5
<1> QED BY <1>11, <1>12, <1>13

\* ... a wait that is given up, ...
LEMMA GiveUpStep ==
    ASSUME TypeInv, TodoInv, StaleInv, TimedOut \/ Stalled, setup' = setup
    PROVE  TypeInv' /\ TodoInv' /\ StaleInv'
<1> DEFINE n == tgt.nvm
<1>1. /\ Working /\ todo # <<>> /\ Top.op = "wait" /\ GoOn(Top.else) /\ waited' = 0
      /\ avr' = avr /\ call' = call /\ before' = before /\ asked' = asked /\ short' = short
  BY DEF TimedOut, Stalled, Doing
<1>2. tgt' \in Targets /\ Removes(tgt, tgt')
  <2>1. tgt' \in Missed(tgt)
    BY DEF TimedOut, Stalled, Missed
  <2> QED BY <2>1, Unchanging DEF TypeInv
<1>3. faults' \in 0..MaxFaults /\ luck' \in Luck /\ (luck' = "calm" => luck = "calm")
  <2>1. faults \in 0..MaxFaults /\ luck \in Luck /\ MaxFaults \in Nat
    BY FaultsAssumption DEF TypeInv
  <2>2. CASE TimedOut
    BY <2>1, <2>2 DEF TimedOut
  <2>3. CASE Stalled
    BY <2>1, <2>3 DEF Stalled, Luck
  <2> QED BY <2>2, <2>3
<1>4. /\ avr' \in [drv : Drivers, width : {16, 24}, sib : Variants \cup {"None"},
                    built : BOOLEAN]
      /\ avr'.sib \in {n, "None"} /\ avr'.drv \in {avr.drv, n} /\ short' \in BOOLEAN
      /\ waited' \in Nat
  BY <1>1 DEF TypeInv
<1>5. CASE Top \in {WaitReady, WaitFinish}
  <2>1. /\ avr.drv # "none"
        /\ Top = WaitReady => Top.else = <<Timeout>>
        /\ Top = WaitFinish => Top.else = <<Removal>> \o <<Timeout>>
    BY <1>1, <1>5, WaitKinds
  <2>2. WaitReady # WaitFinish
    BY Apart
  <2> QED BY <1>1, <1>2, <1>3, <1>4, <1>5, <2>1, <2>2, Answered
<1>6. CASE Top \notin {WaitReady, WaitFinish}
  <2>1. /\ Top.else \in Seq(Plain3 \cup Uses(n)) /\ Steady(Top, LateCall)
        /\ Top \notin Loads \cup {WaitReady, WaitFinish, Timeout}
    <3>1. Seq(Plain2) \subseteq Seq(Plain3 \cup Uses(n))
      BY PlainGrows, SeqGrows
    <3> QED BY <1>1, <1>6, <3>1, WaitKinds
  <2> QED BY <1>1, <1>2, <1>3, <1>4, <2>1, Continued
<1> QED BY <1>5, <1>6

\* The SIB names the target's interface, or nothing.
LEMMA ReadSibStep ==
    ASSUME TypeInv, TodoInv, StaleInv, ReadSib, setup' = setup
    PROVE  TypeInv' /\ TodoInv' /\ StaleInv'
<1> DEFINE n == tgt.nvm
<1>1. /\ Working /\ todo # <<>> /\ Top.op = "sib"
      /\ call' = call /\ waited' = waited /\ before' = before /\ asked' = asked /\ short' = short
  BY DEF ReadSib, Doing
<1>2. PICK o \in decode_sib(tgt) :
        /\ Ends(o, LAMBDA val : GoOn(<<>>))
        /\ avr' = [avr EXCEPT !.sib = IF o.val THEN tgt.nvm ELSE "None"]
  BY DEF ReadSib
<1>3. /\ faults + o.fault <= MaxFaults /\ faults' = faults + o.fault
      /\ luck' = IF o.silent \/ luck = "silent" THEN "silent"
                 ELSE IF o.fault > 0 THEN "faulty" ELSE luck
      /\ tgt' = o.tgt
      /\ o.exc = "none" => GoOn(<<>>)
      /\ o.exc # "none" => Throw(o.exc)
  BY <1>2 DEF Ends
<1>4. o \in Outcomes /\ o.tgt \in Missed(tgt) /\ (o.exc # "none" => o.fault = 1)
  BY SibWays DEF TypeInv
<1>5. o.tgt \in Targets /\ Removes(tgt, o.tgt)
  BY <1>4, Unchanging DEF TypeInv
<1>6. /\ faults' \in 0..MaxFaults /\ luck' \in Luck
      /\ luck' = "calm" => luck = "calm" /\ o.fault = 0
  BY <1>3, <1>4, Accounting
<1>7. /\ avr' \in [drv : Drivers, width : {16, 24}, sib : Variants \cup {"None"},
                    built : BOOLEAN]
      /\ avr'.sib \in {n, "None"} /\ avr'.drv \in {n, "none"} /\ avr'.drv = avr.drv
      /\ waited' \in Nat /\ short' \in BOOLEAN
  <2>1. n \in Variants
    BY FieldTypes DEF TypeInv
  <2> QED BY <1>1, <1>2, <2>1 DEF TypeInv
<1>8. CASE o.exc # "none"
  BY <1>1, <1>3, <1>4, <1>5, <1>7, <1>8, Broken DEF Removes
<1>9. CASE o.exc = "none"
  <2>1. <<>> \in Seq(Plain3 \cup Uses(n)) /\ GoOn(<<>>)
    BY <1>3, <1>9, Nothing
  <2>2. Steady(Top, LateCall) /\ Top \notin Loads \cup {WaitReady, WaitFinish, Timeout}
    <3>1. Top \in Instructions(n, avr.drv)
      BY <1>1, TopKind
    <3>2. Top \notin Loads \cup {WaitReady, WaitFinish, Timeout}
      BY <1>1 DEF Loads, WaitReady, WaitFinish, Timeout
    <3> QED BY <1>1, <3>1, <3>2, SteadyKinds
  <2> QED BY <1>1, <1>3, <1>5, <1>6, <1>7, <2>1, <2>2, Continued
<1> QED BY <1>8, <1>9

\* The program of the choice of a driver.
LEMMA SelectType ==
    ASSUME NEW n \in Variants, NEW sib \in {n, "None"}
    PROVE  select(sib) \in Seq(Plain3 \cup Uses(n))
<1>1. ASSUME NEW m \in {"P0", "P2", "P3", "P4", "P5"} PROVE use(m) \in Seq(Uses(m))
  <2>1. [op |-> "use", drv |-> m] \in Uses(m)
    BY DEF Uses, Drivers
  <2> QED BY <2>1, OneStep DEF use
<1>2. CASE sib = "P0"
  <2>1. use("P0") \in Seq(Plain3 \cup Uses(n)) /\ init_datalink \in Seq(Plain3 \cup Uses(n))
    <3>1. n = "P0"
      BY <1>2
    <3>2. /\ Seq(Plain3) \subseteq Seq(Plain3 \cup Uses(n))
          /\ Seq(Uses(n)) \subseteq Seq(Plain3 \cup Uses(n))
      BY SeqGrows
    <3> QED BY <1>1, <3>1, <3>2, InitDatalink
  <2> QED BY <1>2, <2>1, SeqJoins DEF select
<1>3. CASE sib \in {"P2", "P3", "P4", "P5"}
  <2>1. n = sib /\ select(sib) = use(n)
    BY <1>3 DEF select
  <2>2. Seq(Uses(n)) \subseteq Seq(Plain3 \cup Uses(n))
    BY SeqGrows
  <2> QED BY <1>1, <1>3, <2>1, <2>2
<1>4. CASE sib \notin {"P0", "P2", "P3", "P4", "P5"}
  <2>1. select(sib) = <<>>
    BY <1>4 DEF select
  <2> QED BY <2>1, Nothing
<1> QED BY <1>2, <1>3, <1>4

\* The steps of the host alone.
LEMMA LocalStep ==
    ASSUME TypeInv, TodoInv, StaleInv, Select \/ Use \/ Short \/ Skip, setup' = setup
    PROVE  TypeInv' /\ TodoInv' /\ StaleInv'
<1> DEFINE n == tgt.nvm
<1>1. /\ Working /\ todo # <<>> /\ Top.op \in {"select", "use", "short", "except", "call"}
      /\ Top.op = "select" <=> Select
      /\ Top.op = "use" <=> Use
      /\ tgt' = tgt /\ call' = call /\ waited' = waited /\ faults' = faults /\ before' = before
      /\ luck' = luck /\ asked' = asked
      /\ Select => GoOn(select(avr.sib))
      /\ ~Select => GoOn(<<>>)
      /\ ~Use => avr' = avr
      /\ short' \in {short, TRUE}
  BY DEF Select, Use, Short, Skip, Local, Doing
<1>2. n \in Variants /\ avr.sib \in {n, "None"} /\ avr.drv \in {n, "none"}
  BY FieldTypes DEF TypeInv
<1>3. PICK pre \in Seq(Plain3 \cup Uses(n)) : GoOn(pre)
  BY <1>1, <1>2, SelectType, Nothing
<1>4. Top \in Instructions(n, avr.drv)
  BY <1>1, TopKind
<1>5. Steady(Top, LateCall) /\ Top \notin Loads \cup {WaitReady, WaitFinish, Timeout}
  <2>1. Top \notin Loads \cup {WaitReady, WaitFinish, Timeout}
    BY <1>1 DEF Loads, WaitReady, WaitFinish, Timeout
  <2> QED BY <1>1, <1>4, <2>1, SteadyKinds
<1>6. /\ avr' \in [drv : Drivers, width : {16, 24}, sib : Variants \cup {"None"},
                    built : BOOLEAN]
      /\ avr'.sib \in {n, "None"} /\ avr'.drv \in {avr.drv, n}
  <2>1. CASE ~Use
    BY <1>1, <2>1 DEF TypeInv
  <2>2. CASE Use
    <3>1. Top.op = "use"
      BY <1>1, <2>2
    <3>2. Top.drv = n /\ n \in Drivers
      BY <1>4, <3>1, Kinds
    <3>3. Link(n) \in {16, 24}
      BY DEF Link, TypeInv
    <3> QED BY <2>2, <3>2, <3>3 DEF Use, TypeInv
  <2> QED BY <2>1, <2>2
<1>7. /\ tgt' \in Targets /\ Removes(tgt, tgt') /\ waited' \in Nat /\ faults' \in 0..MaxFaults
      /\ luck' \in Luck /\ short' \in BOOLEAN
  BY <1>1 DEF TypeInv, Removes
<1> QED BY <1>1, <1>3, <1>5, <1>6, <1>7, Continued

\* ... an exception, ...
LEMMA RaiseStep ==
    ASSUME TypeInv, TodoInv, StaleInv, RaiseIt, setup' = setup
    PROVE  TypeInv' /\ TodoInv' /\ StaleInv'
<1> DEFINE n == tgt.nvm
<1>1. /\ Working /\ todo # <<>> /\ Top.op = "raise" /\ Throw(Top.exc)
      /\ UNCHANGED <<tgt, avr, call, waited, faults, before, luck, asked, short>>
  BY DEF RaiseIt, Doing
<1>2. Top \in Instructions(n, avr.drv) /\ Top = todo[1] /\ Top \in Raises /\ Top.exc \in Raisable
  BY <1>1, TopKind, Kinds
<1>3. /\ todo' \in Seq(Instructions(n, avr.drv))
      /\ TodoInv'
      /\ exc' \in {Top.exc, exc} /\ session' \in Sessions
      /\ \/ todo' = <<>> /\ exc' = Top.exc
         \/ Top.exc \in {"LockedError", "SerialException"} /\ exc' = exc
  BY <1>1, <1>2, Failing
<1>4. TypeInv'
  <2>1. exc' \in Raisable \cup WireErrors \cup {"none", "running"}
    BY <1>2, <1>3 DEF TypeInv
  <2>2. /\ tgt' \in Targets /\ tgt'.nvm = tgt.nvm
        /\ avr' \in [drv : Drivers, width : {16, 24}, sib : Variants \cup {"None"},
                     built : BOOLEAN]
        /\ avr'.sib \in {tgt.nvm, "None"} /\ avr'.drv \in {tgt.nvm, "none"}
        /\ waited' \in Nat /\ faults' \in 0..MaxFaults /\ luck' \in Luck /\ short' \in BOOLEAN
    BY <1>1 DEF TypeInv
  <2>3. todo' \in Seq(Instructions(tgt'.nvm, avr'.drv))
    BY <1>1, <1>3
  <2> QED BY <1>1, <1>3, <2>1, <2>2, <2>3, Typed
<1>5. StaleInv'
  <2>1. ASSUME luck = "calm", before.cmd = "NOCMD", tgt.cmd # "NOCMD"
        PROVE  LateCall /\ Top = Timeout
    <3>1. Clears(todo, LateCall)
      BY <1>1, <2>1 DEF StaleInv
    <3>2. todo \in Seq(Instructions(n, avr.drv))
      BY DEF TypeInv
    <3>3. ~Steady(Top, LateCall)
      BY <1>1, <1>2, <3>1, <3>2, ClearsOn
    <3> QED BY <1>1, <1>2, <3>3, SteadyKinds
  <2>2. Timeout.exc = "NvmTimeout"
    BY DEF Timeout
  <2>3. Top = Timeout => exc' = "NvmTimeout"
    BY <1>3, <2>2
  <2>4. tgt'.nvm = "P0" => tgt'.cmd = "NOCMD"
    BY <1>1 DEF StaleInv
  <2>5. LateCall' = LateCall
    BY <1>1 DEF LateCall, LateCallOf
  <2>6. luck' = luck /\ before' = before /\ tgt' = tgt
    BY <1>1
  <2>7. ASSUME luck = "calm", before.cmd = "NOCMD", tgt.cmd # "NOCMD"
        PROVE  ~Working' /\ exc' = "NvmTimeout" /\ LateCall
    BY <2>1, <2>3, <2>7 DEF Working
  <2> QED BY <2>4, <2>5, <2>6, <2>7 DEF StaleInv
<1> QED BY <1>3, <1>4, <1>5

\* The end of a call: nothing is left to do, so CTRLA is clear.
LEMMA ReturnStep ==
    ASSUME TypeInv, TodoInv, StaleInv, Return, setup' = setup
    PROVE  TypeInv' /\ TodoInv' /\ StaleInv'
<1>1. /\ Working /\ todo = <<>> /\ exc' = "none" /\ session' = NextSession
      /\ avr' = [avr EXCEPT !.built = @ \/ call.f = "construct"]
      /\ UNCHANGED <<tgt, todo, call, waited, faults, before, luck, asked, short>>
  BY DEF Return
<1>2. TypeInv'
  <2>1. session' \in Sessions
    BY <1>1 DEF NextSession, Sessions
  <2>2. /\ avr' \in [drv : Drivers, width : {16, 24}, sib : Variants \cup {"None"},
                     built : BOOLEAN]
        /\ avr'.sib = avr.sib /\ avr'.drv = avr.drv
    BY <1>1 DEF TypeInv
  <2>3. /\ tgt' \in Targets /\ tgt'.nvm = tgt.nvm
        /\ avr'.sib \in {tgt.nvm, "None"} /\ avr'.drv \in {tgt.nvm, "none"}
        /\ waited' \in Nat /\ faults' \in 0..MaxFaults /\ luck' \in Luck /\ short' \in BOOLEAN
        /\ todo' \in Seq(Instructions(tgt'.nvm, avr'.drv))
    BY <1>1, <2>2 DEF TypeInv
  <2> QED BY <1>1, <2>1, <2>2, <2>3, Typed
<1>3. TodoInv'
  BY <1>1 DEF TodoInv, LateCall, LateCallOf
<1>4. StaleInv'
  <2>1. ~Clears(todo, LateCall)
    BY <1>1, Nothing DEF Clears
  <2> QED BY <1>1, <2>1 DEF StaleInv, Working
<1> QED BY <1>2, <1>3, <1>4

\* ... its beginning, ...
LEMMA BeginStep ==
    ASSUME TypeInv, TodoInv, StaleInv, Begin, setup' = setup
    PROVE  TypeInv' /\ TodoInv' /\ StaleInv'
<1> DEFINE n == tgt.nvm
<1>1. PICK c \in Calls :
        /\ call' = c
        /\ avr' = IF c.f = "construct" THEN NoAvr ELSE avr
        /\ todo' = Body(c)
        /\ asked' = Wanted(c) \cup IF "NVMErase" \in tgt.keys THEN asked ELSE {}
  BY DEF Begin
<1>2. /\ exc' = "running" /\ waited' = 0 /\ luck' = "calm" /\ short' = FALSE
      /\ before' = [mem |-> tgt.mem, cmd |-> tgt.cmd, session |-> session]
      /\ UNCHANGED <<tgt, faults, session>>
  BY DEF Begin
<1>3. c \in Requests
  BY SetupsAssumption DEF TypeInv, Calls
<1>4. avr'.drv = IF c.f = "construct" THEN "none" ELSE avr.drv
  BY <1>1 DEF NoAvr
<1>5. Left(Body(c), n, avr'.drv, LateCallOf(c, n))
  BY <1>3, <1>4, BodyLeft
<1>6. TodoInv'
  <2>1. (tgt'.busy = 0) \in BOOLEAN /\ FALSE \in BOOLEAN
    OBVIOUS
  <2>2. /\ HandlersLast(todo') /\ Guarded(todo', tgt'.nvm, FALSE)
        /\ Finished(todo', tgt'.nvm, LateCall')
    BY <1>1, <1>2, <1>5 DEF Left, LateCall
  <2>3. Guarded(todo', tgt'.nvm, tgt'.busy = 0)
    BY <2>1, <2>2, StillGuarded
  <2> QED BY <2>2, <2>3 DEF TodoInv
<1>7. TypeInv'
  <2>1. todo' \in Seq(Instructions(tgt'.nvm, avr'.drv))
    BY <1>1, <1>2, <1>5 DEF Left
  <2>2. /\ avr' \in [drv : Drivers, width : {16, 24}, sib : Variants \cup {"None"},
                     built : BOOLEAN]
        /\ avr'.sib \in {tgt'.nvm, "None"} /\ avr'.drv \in {tgt'.nvm, "none"}
    BY <1>1, <1>2 DEF TypeInv, NoAvr, Drivers
  <2>3. asked' \in SUBSET ({"erase", "write"} \X Areas)
    <3>1. Wanted(c) \in SUBSET ({"erase", "write"} \X Areas)
      <4> DEFINE all == IF c.m = "flash" THEN Pages ELSE {c.m}
      <4>1. Erased(tgt) \in SUBSET Areas
        BY DEF Erased, Areas, Pages
      <4>2. c.f = "write" => all \in SUBSET Areas
        BY <1>3 DEF Requests, Memories, Areas, Pages
      <4>3. c.m \in {"flash", "eeprom", "user_row"} => all \in SUBSET Areas
        BY DEF Areas, Pages
      <4>4. CASE c.f = "erase"
        BY <4>1, <4>3, <4>4 DEF Wanted
      <4>5. CASE c.f = "write"
        BY <4>2, <4>5 DEF Wanted
      <4>6. CASE c.f \notin {"erase", "write"}
        BY <4>1, <4>6 DEF Wanted
      <4> QED BY <4>4, <4>5, <4>6
    <3> QED BY <1>1, <3>1 DEF TypeInv
  <2>4. before' \in [mem : [Areas -> Content], cmd : CommandNames, session : Sessions]
    BY <1>2, FieldTypes DEF TypeInv
  <2>5. /\ setup' \in DOMAIN Setups /\ tgt' \in Targets
        /\ call' \in Requests \cup {[f |-> "none", m |-> "none"]}
        /\ exc' \in Raisable \cup WireErrors \cup {"none", "running"}
        /\ waited' \in Nat /\ faults' \in 0..MaxFaults /\ luck' \in Luck
        /\ session' \in Sessions /\ short' \in BOOLEAN
    BY <1>1, <1>2, <1>3 DEF TypeInv, Luck
  <2> QED BY <2>1, <2>2, <2>3, <2>4, <2>5 DEF TypeInv
<1>8. StaleInv'
  <2>1. before'.cmd = tgt.cmd
    BY <1>2
  <2> QED BY <1>2, <2>1 DEF StaleInv, Working
<1> QED BY <1>6, <1>7, <1>8

\* ... and time between two calls.
LEMMA PauseStep ==
    ASSUME TypeInv, TodoInv, StaleInv, Pause, setup' = setup
    PROVE  TypeInv' /\ TodoInv' /\ StaleInv'
<1>1. tgt' = Settle(tgt)
      /\ UNCHANGED <<avr, todo, call, exc, waited, faults, before, luck, session, asked, short>>
  BY DEF Pause
<1>2. tgt' \in Targets /\ tgt'.nvm = tgt.nvm /\ tgt'.cmd = tgt.cmd /\ tgt'.busy = 0
  BY <1>1, TimeType, 0 \in Nat DEF TypeInv
<1>3. TypeInv'
  BY <1>1, <1>2 DEF TypeInv
<1>4. TodoInv'
  <2>1. (tgt.busy = 0) \in BOOLEAN /\ (tgt'.busy = 0) \in BOOLEAN
    OBVIOUS
  <2>2. Guarded(todo, tgt.nvm, tgt'.busy = 0)
    BY <1>2, <2>1, StillGuarded DEF TodoInv
  <2> QED BY <1>1, <1>2, <2>2 DEF TodoInv, LateCall, LateCallOf
<1>5. StaleInv'
  BY <1>1, <1>2 DEF StaleInv, Working, LateCall, LateCallOf
<1> QED BY <1>3, <1>4, <1>5

-----------------------------------------------------------------------------
(* The theorems                                                            *)

IndInv == TypeInv /\ TodoInv /\ StaleInv

\* The invariant holds at first,
LEMMA StartsWell == Init => IndInv
<1> SUFFICES ASSUME Init PROVE IndInv
  OBVIOUS
<1>1. PICK t \in Setups[setup].targets : tgt = Fresh(t.nvm, t.lockbits, t.expected)
  BY DEF Init
<1>2. t.nvm \in Variants /\ t.lockbits \in {"old", "new"} /\ t.expected \in BOOLEAN
  BY SetupsAssumption DEF Init
<1>3. tgt \in Targets /\ tgt.cmd = "NOCMD" /\ tgt.nvm = t.nvm
  BY <1>1, <1>2, FreshTarget
<1>4. TypeInv
  <2>1. /\ avr \in [drv : Drivers, width : {16, 24}, sib : Variants \cup {"None"},
                    built : BOOLEAN]
        /\ avr.sib \in {tgt.nvm, "None"} /\ avr.drv \in {tgt.nvm, "none"}
    BY DEF Init, NoAvr, Drivers
  <2>2. todo \in Seq(Instructions(tgt.nvm, avr.drv))
    BY Nothing DEF Init
  <2>3. before \in [mem : [Areas -> Content], cmd : CommandNames, session : Sessions]
    BY <1>3, FieldTypes DEF Init, Sessions
  <2>4. 0 \in 0..MaxFaults
    BY FaultsAssumption
  <2> QED BY <1>3, <2>1, <2>2, <2>3, <2>4 DEF Init, TypeInv, Luck, Sessions
<1>5. TodoInv
  BY Nothing DEF Init, TodoInv, HandlersLast, Guarded, Finished
<1>6. StaleInv
  BY <1>3 DEF Init, StaleInv, Working
<1> QED BY <1>4, <1>5, <1>6 DEF IndInv

\* every step keeps it,
LEMMA GoesOnWell == IndInv /\ [Next]_vars => IndInv'
<1> SUFFICES ASSUME TypeInv, TodoInv, StaleInv, [Next]_vars
             PROVE  TypeInv' /\ TodoInv' /\ StaleInv'
  BY DEF IndInv
<1>1. CASE UNCHANGED vars
  BY <1>1 DEF vars, TypeInv, TodoInv, StaleInv, LateCall, LateCallOf, Working
<1>2. CASE Next
  <2>1. setup' = setup
    BY <1>2 DEF Next
  <2>2. CASE Begin
    BY <2>1, <2>2, BeginStep
  <2>3. CASE Return
    BY <2>1, <2>3, ReturnStep
  <2>4. CASE Perform
    BY <2>1, <2>4, PerformStep
  <2>5. CASE Test
    BY <2>1, <2>5, TestStep
  <2>6. CASE Wait
    BY <2>1, <2>6, WaitStep
  <2>7. CASE TimedOut \/ Stalled
    BY <2>1, <2>7, GiveUpStep
  <2>8. CASE ReadSib
    BY <2>1, <2>8, ReadSibStep
  <2>9. CASE Select \/ Use \/ Short \/ Skip
    BY <2>1, <2>9, LocalStep
  <2>10. CASE RaiseIt
    BY <2>1, <2>10, RaiseStep
  <2>11. CASE Pause
    BY <2>1, <2>11, PauseStep
  <2> QED BY <1>2, <2>2, <2>3, <2>4, <2>5, <2>6, <2>7, <2>8, <2>9, <2>10, <2>11 DEF Next, HostStep
<1> QED BY <1>1, <1>2

\* and so it holds always.
LEMMA IndInvHolds == Spec => []IndInv
BY StartsWell, GoesOnWell, PTL DEF Spec

\* Types: the target, the programs of the functions with the instructions of the
\* one driver for it, what a call can end with, and the books that are kept.
THEOREM TypesHold == Spec => []TypeInv
<1>1. IndInv => TypeInv
  BY DEF IndInv
<1> QED BY <1>1, IndInvHolds, PTL

\* Every function of every driver waits for NVMCTRL before it gives a command,
\* and nothing comes in between that makes it busy: whatever faults there are,
\* however late the target is, and whatever was called before.
THEOREM NoCommandTooEarly == Spec => CommandsWhenReady
<1>1. IndInv /\ [Next]_vars =>
        [Doing("do") /\ Top.f = "execute_nvm_command" /\ Top.x # 0 => tgt.busy = 0]_vars
  <2> SUFFICES ASSUME IndInv, Doing("do"), Top.f = "execute_nvm_command", Top.x # 0
               PROVE  tgt.busy = 0
    OBVIOUS
  <2>1. TypeInv /\ TodoInv /\ todo # <<>> /\ Top.op = "do"
    BY DEF IndInv, Doing
  <2>2. Top = todo[1] /\ Top \in Commands
    BY <2>1, TopKind, Kinds
  <2>3. 1 \in 1..Len(todo)
    BY <2>1 DEF TypeInv
  <2>4. \/ \E j \in 1..(1 - 1) :
              /\ todo[j] \in {WaitReady, Timeout}
              /\ \A k \in (j + 1)..(1 - 1) : todo[k] \in Buffered(tgt.nvm)
        \/ tgt.busy = 0
    BY <2>1, <2>2, <2>3 DEF TodoInv, Guarded
  <2> QED BY <2>4
<1> QED BY <1>1, IndInvHolds, PTL DEF Spec, CommandsWhenReady

\* No function leaves a command in CTRLA that the next store would carry out,
\* as long as the wire behaves; but for the write of P:3 and P:5 whose last wait
\* is not in time.
THEOREM NoCommandLeft == Spec => []NoStaleCommand
<1>1. IndInv => NoStaleCommand
  BY DEF IndInv, StaleInv, NoStaleCommand, Ended, Idle, Working, LateCall, LateCallOf, LateTo
<1> QED BY <1>1, IndInvHolds, PTL

-----------------------------------------------------------------------------
(* Keys and modes: what a session that nothing disturbs does with them.    *)

\* What is left of the program p from its k-th instruction on.
Rest(p, k) == SubSeq(p, k, Len(p))

\* Keys are armed only while UPDI is enabled.
PoweredInv == ~tgt.on => tgt.keys = {}

\* Between two calls of a session.
Clean == tgt.on /\ tgt.keys = {}

Stops == {"stop", "release_from_reset"}

\* Instructions without keys and without UPDIDIS.
Quiet1 ==
    Plain \ ([op : {"do"}, f : {"key"}, x : Keys]
             \cup [op : {"do"}, f : {"stcs"}, x : {"UPDIDIS"}]
             \cup [op : {"raise"}, exc : {"LockedError"}])
Quiet2 == Quiet1 \cup Branching(Quiet1)
Quiet3 == Quiet2 \cup Branching(Quiet2)
QuietDriving == Quiet3 \cup Handlers \cup Driving

\* stop: reset, and UPDI disabled.
LeavingAt(k) ==
    /\ k = 1 => Clean
    /\ k = 2 => Clean /\ tgt.rst
    /\ k \in {3, 4} => Running(tgt)
Leaving ==
    \E k \in 1..4 :
        /\ todo = Rest(leave_progmode, k)
        /\ k = 4 => ~tgt.on
        /\ before.session \in {"built", "started"} => LeavingAt(k)

\* start: what NeedKey and two resets do, then LockedError or not.
EntryProgram ==
    reset(TRUE) \o NeedKey("NVMProg") \o reset(TRUE) \o reset(FALSE)
    \o While("unlocked", 100, <<>>, Raise("LockedError"))
    \o If("NVMPROG", <<>>, Raise("UpdiError"))
LockedHandler ==
    IF "user-row-locked-device" \in Options THEN <<>>
    ELSE IF "chip-erase-locked-device" \in Options THEN unlock
    ELSE Raise("DeviceLockedError")
Handling == <<[op |-> "except", excs |-> {"LockedError"}, handler |-> LockedHandler]>>

\* An armed key is used by the release at k.
ArmedUntil(k, release) ==
    /\ tgt.on /\ "NVMUs&te" \notin tgt.keys
    /\ k = release => tgt.rst
    /\ k > release => tgt.keys = {}
Raising == todo # <<>> /\ Top.op = "raise" /\ Top.exc \notin {"LockedError", "SerialException"}
Starting ==
    \/ todo = start /\ Clean
    \/ \E k \in 1..8 : todo = Rest(EntryProgram, k) \o Handling /\ ArmedUntil(k, 5)
    \/ todo = Raise("LockedError") \o (Rest(EntryProgram, 7) \o Handling) /\ Clean
    \/ \E k \in 1..6 : todo = Rest(unlock, k) /\ ArmedUntil(k, 4)
    \/ todo = <<>> /\ Clean
    \/ Raising

\* write_user_row_locked_device, whatever keys it finds armed.
RowAt(k) ==
    /\ k >= 3 => tgt.on
    /\ k = 4 => tgt.rst
    /\ k >= 5 => tgt.keys \subseteq {"NVMUs&te"}
    /\ k >= 10 => tgt.keys = {}
    /\ k = 11 => tgt.rst
    /\ k = 12 => ~tgt.rst /\ tgt.mode = "run"
Doomed ==
    \E j \in 1..Len(todo) :
        /\ todo[j].op = "raise" /\ todo[j].exc = "UpdiError"
        /\ \A i \in 1..(j - 1) : todo[i].op = "do"
WritingRow ==
    \/ \E k \in 1..12 : todo = Rest(write_user_row_locked_device, k) /\ RowAt(k)
    \/ Doomed

RowCall ==
    call.f = "write" /\ call.m = "user_row" /\ "user-row-locked-device" \in Options

CallInv ==
    Working /\ luck = "calm" =>
        /\ session = before.session
        /\ call.f = "construct" =>
              /\ todo \in Seq(Quiet3 \cup Uses(tgt.nvm))
              /\ before.session = "closed" => tgt.keys = {} /\ (tgt.on \/ todo = UpdiApplication)
        /\ call.f \in Stops => Leaving
        /\ call.f = "start" /\ before.session = "built" => Starting
        /\ RowCall => WritingRow
        /\ call.f \notin Stops \cup {"construct", "start"} /\ ~RowCall
           /\ before.session = "started" =>
              Clean /\ todo \in Seq(QuietDriving \cup Uses(tgt.nvm))

RestInv ==
    ~Working =>
        /\ session = "closed" => ~tgt.on
        /\ session \in {"built", "started"} => Clean
        /\ exc = "none" /\ luck = "calm" =>
              /\ call.f \in Stops /\ before.session \in {"built", "started"} => Running(tgt)
              /\ RowCall => tgt.mode # "urow" /\ tgt.keys = {} /\ ~tgt.rst

WorkInv == Working => call.f # "none"

ModeInv == PoweredInv /\ CallInv /\ RestInv /\ WorkInv

\* Quiet instructions of a lower level are so at the higher ones.
LEMMA QuietGrows ==
    /\ Quiet1 \subseteq Quiet2 /\ Quiet2 \subseteq Quiet3 /\ Quiet3 \subseteq QuietDriving
    /\ Seq(Quiet1) \subseteq Seq(Quiet2) /\ Seq(Quiet2) \subseteq Seq(Quiet3)
    /\ Seq(Quiet3) \subseteq Seq(QuietDriving)
<1>1. /\ Quiet1 \subseteq Quiet2 /\ Quiet2 \subseteq Quiet3 /\ Quiet3 \subseteq QuietDriving
  BY DEF Quiet2, Quiet3, QuietDriving
<1> QED BY <1>1, SeqGrows

\* Two quiet programs, one after the other.
LEMMA QuietJoins ==
    ASSUME NEW S \in {Quiet1, Quiet2, Quiet3, QuietDriving}
    PROVE  \A s \in Seq(S), t \in Seq(S) : s \o t \in Seq(S)
BY SeqJoins

\* The quiet programs of one instruction.
LEMMA QuietFrames ==
    /\ \A r \in Registers \ {"UPDIDIS"} : stcs(r) \in Seq(Quiet1)
    /\ \A r \in Registers : Do("ldcs", r) \in Seq(Quiet1) /\ Do("break", r) \in Seq(Quiet1)
    /\ send_double_break \in Seq(Quiet1) /\ read_sib \in Seq(Quiet1)
    /\ <<[op |-> "select"]>> \in Seq(Quiet1) /\ Missing \in Seq(Quiet1)
    /\ [op |-> "call"] \in Quiet1
    /\ \A e \in Raisable \ {"LockedError"} : Raise(e) \in Seq(Quiet1)
<1>1. \A f \in {"break", "double_break", "ldcs"}, r \in Registers : Do(f, r) \in Seq(Quiet1)
  BY DEF Do, Quiet1, Plain, Frames
<1>2. \A r \in Registers \ {"UPDIDIS"} : Do("stcs", r) \in Seq(Quiet1)
  BY DEF Do, Quiet1, Plain, Frames
<1>3. \A e \in Raisable \ {"LockedError"} : Raise(e) \in Seq(Quiet1)
  <2> SUFFICES ASSUME NEW e \in Raisable \ {"LockedError"} PROVE Raise(e) \in Seq(Quiet1)
    OBVIOUS
  <2>1. [op |-> "raise", exc |-> e] \in Quiet1
    BY DEF Quiet1, Plain, Raises
  <2> QED BY <2>1, OneStep DEF Raise
<1>4. \A x \in {"sib", "select", "short", "call"} : [op |-> x] \in Quiet1
  BY DEF Quiet1, Plain
<1>5. /\ read_sib \in Seq(Quiet1) /\ <<[op |-> "select"]>> \in Seq(Quiet1)
      /\ Missing \in Seq(Quiet1)
  BY <1>4, OneStep DEF read_sib, Missing
<1>6. send_double_break \in Seq(Quiet1)
  <2>1. "none" \in Registers
    BY DEF Registers
  <2> QED BY <1>1, <2>1 DEF send_double_break
<1>7. \A r \in Registers \ {"UPDIDIS"} : stcs(r) \in Seq(Quiet1)
  BY <1>2 DEF stcs
<1> QED BY <1>1, <1>3, <1>4, <1>5, <1>6, <1>7

\* Quiet branchings.
LEMMA QuietBranches ==
    /\ \A a \in Seq(Quiet1), b \in Seq(Quiet1), t \in Tests : If(t, a, b) \in Seq(Quiet2)
    /\ \A a \in Seq(Quiet2), b \in Seq(Quiet2), t \in Tests : If(t, a, b) \in Seq(Quiet3)
<1>1. Seq(Branching(Quiet1)) \subseteq Seq(Quiet2) /\ Seq(Branching(Quiet2)) \subseteq Seq(Quiet3)
  BY SeqGrows DEF Quiet2, Quiet3
<1> QED BY <1>1, Branches

\* init_datalink is quiet.
LEMMA QuietDatalink == init_datalink \in Seq(Quiet3)
<1>1. init_session_parameters \in Seq(Quiet1)
  <2>1. {"CTRLA", "CTRLB"} \subseteq Registers \ {"UPDIDIS"}
    BY DEF Registers
  <2>2. stcs("CTRLA") \in Seq(Quiet1) /\ stcs("CTRLB") \in Seq(Quiet1)
    BY <2>1, QuietFrames
  <2> QED BY <2>2, QuietJoins DEF init_session_parameters
<1>2. /\ <<>> \in Seq(Quiet1) /\ <<>> \in Seq(Quiet2) /\ "check_datalink" \in Tests
      /\ Raise("UpdiError") \in Seq(Quiet1)
  BY QuietFrames DEF Tests, Raisable
<1>3. If("check_datalink", <<>>, Raise("UpdiError")) \in Seq(Quiet2)
  BY <1>2, QuietBranches
<1>4. send_double_break \o init_session_parameters \in Seq(Quiet2)
  BY <1>1, QuietFrames, QuietGrows, QuietJoins
<1>5. send_double_break \o init_session_parameters
      \o If("check_datalink", <<>>, Raise("UpdiError")) \in Seq(Quiet2)
  BY <1>3, <1>4, QuietJoins
<1>6. If("check_datalink", <<>>,
         send_double_break \o init_session_parameters
         \o If("check_datalink", <<>>, Raise("UpdiError"))) \in Seq(Quiet3)
  BY <1>2, <1>5, QuietBranches
<1>7. init_session_parameters \in Seq(Quiet3)
  BY <1>1, QuietGrows
<1> QED BY <1>6, <1>7, QuietJoins DEF init_datalink

\* So is a read of data.
LEMMA QuietRead ==
    /\ \A a \in Seq(Quiet1), b \in Seq(Quiet1) : read_data_op(a, b) \in Seq(Quiet2)
    /\ \A a \in Seq(Quiet2), b \in Seq(Quiet2) : read_data_op(a, b) \in Seq(Quiet3)
BY QuietBranches DEF read_data_op, Tests

\* So is read_device_info.
LEMMA QuietInfo == read_device_info \in Seq(Quiet3)
<1>1. /\ <<>> \in Seq(Quiet1) /\ <<>> \in Seq(Quiet2)
      /\ {"NVMPROG", "sib_is_None"} \subseteq Tests
      /\ Raise("UpdiError") \in Seq(Quiet1) /\ Raise("IndexError") \in Seq(Quiet1)
  BY QuietFrames DEF Tests, Raisable
<1>2. If("sib_is_None", Raise("UpdiError"), <<>>) \in Seq(Quiet2)
  BY <1>1, QuietBranches
<1>3. send_double_break \o read_sib \in Seq(Quiet2)
  BY QuietFrames, QuietGrows, QuietJoins
<1>4. send_double_break \o read_sib \o If("sib_is_None", Raise("UpdiError"), <<>>)
      \in Seq(Quiet2)
  BY <1>2, <1>3, QuietJoins
<1>5. If("sib_is_None",
         send_double_break \o read_sib \o If("sib_is_None", Raise("UpdiError"), <<>>), <<>>)
      \in Seq(Quiet3)
  BY <1>1, <1>4, QuietBranches
<1>6. /\ read_data_op(<<>>, Missing) \in Seq(Quiet2)
      /\ If("short", Raise("IndexError"), <<>>) \in Seq(Quiet2)
  <2>1. Missing \in Seq(Quiet1) /\ "short" \in Tests
    BY QuietFrames DEF Tests
  <2> QED BY <1>1, <2>1, QuietRead, QuietBranches
<1>7. If("NVMPROG", read_data_op(<<>>, Missing) \o read_data_op(<<>>, Missing)
                    \o If("short", Raise("IndexError"), <<>>), <<>>) \in Seq(Quiet3)
  BY <1>1, <1>6, QuietBranches, QuietJoins
<1>8. "STATUSA" \in Registers
  BY DEF Registers
<1>9. /\ read_sib \in Seq(Quiet3) /\ <<[op |-> "select"]>> \in Seq(Quiet3)
      /\ Do("ldcs", "STATUSA") \in Seq(Quiet3)
  BY <1>8, QuietFrames, QuietGrows
<1> QED BY <1>5, <1>7, <1>9, QuietJoins DEF read_device_info

\* The other functions outside the drivers that are.
LEMMA QuietOthers ==
    /\ UpdiApplication \in Seq(Quiet3) /\ read_device_id \in Seq(Quiet3)
    /\ application_write_data \in Seq(Quiet3) /\ \A m \in Memories : read(m) \in Seq(Quiet3)
    /\ \A e \in {"NotImplementedError"} : Raise(e) \in Seq(Quiet3)
<1>1. UpdiApplication \in Seq(Quiet3)
  <2>1. "none" \in Registers
    BY DEF Registers
  <2>2. Do("break", "none") \in Seq(Quiet3)
    BY <2>1, QuietFrames, QuietGrows
  <2> QED BY <2>2, QuietDatalink, QuietInfo, QuietJoins DEF UpdiApplication
<1>2. /\ <<>> \in Seq(Quiet1) /\ <<>> \in Seq(Quiet2) /\ "expected" \in Tests
      /\ Raise("SessionError") \in Seq(Quiet1) /\ Raise("IndexError") \in Seq(Quiet1)
  BY QuietFrames DEF Tests, Raisable
<1>3. read_device_id \in Seq(Quiet3)
  <2>1. If("expected", <<>>, Raise("SessionError")) \in Seq(Quiet2)
    BY <1>2, QuietBranches
  <2>2. Raise("SessionError") \in Seq(Quiet2)
    BY <1>2, QuietGrows
  <2>3. read_data_op(If("expected", <<>>, Raise("SessionError")), Raise("SessionError"))
        \in Seq(Quiet3)
    BY <2>1, <2>2, QuietRead
  <2>4. /\ read_data_op(<<>>, Raise("IndexError")) \in Seq(Quiet3)
        /\ read_data_op(<<>>, <<>>) \in Seq(Quiet3)
    BY <1>2, QuietRead, QuietGrows
  <2> QED BY <2>3, <2>4, QuietInfo, QuietJoins DEF read_device_id
<1>4. application_write_data \in Seq(Quiet3)
  <2>1. [d \in 1..RecursionLimit |-> [op |-> "call"]] \in Seq(Quiet1)
    BY QuietFrames DEF RecursionLimit
  <2>2. Raise("RecursionError") \in Seq(Quiet1)
    BY QuietFrames DEF Raisable
  <2>3. application_write_data \in Seq(Quiet1)
    BY <2>1, <2>2, QuietJoins DEF application_write_data
  <2> QED BY <2>3, QuietGrows
<1>5. read_chunk \in Seq(Quiet3)
  <2>1. Missing \in Seq(Quiet1)
    BY QuietFrames
  <2>2. read_chunk \in Seq(Quiet2)
    BY <1>2, <2>1, QuietRead DEF read_chunk
  <2> QED BY <2>2, QuietGrows
<1>6. \A m \in Memories : read(m) \in Seq(Quiet3)
  BY <1>5, QuietJoins DEF read
<1>7. Raise("NotImplementedError") \in Seq(Quiet3)
  BY QuietFrames, QuietGrows DEF Raisable
<1> QED BY <1>1, <1>3, <1>4, <1>6, <1>7

\* The functions of the drivers are, or the ones of no driver.
LEMMA QuietDriver ==
    ASSUME NEW d \in Drivers
    PROVE  /\ NvmDriver[d].chip_erase \in Seq(QuietDriving)
           /\ NvmDriver[d].erase_eeprom \in Seq(QuietDriving)
           /\ NvmDriver[d].erase_user_row \in Seq(QuietDriving)
           /\ NvmDriver[d].write_eeprom \in Seq(QuietDriving)
           /\ NvmDriver[d].write_user_row \in Seq(QuietDriving)
           /\ \A a \in {"fuses", "lockbits"} : NvmDriver[d].write_fuse[a] \in Seq(QuietDriving)
           /\ \A p \in Pages : NvmDriver[d].erase_flash_page[p] \in Seq(QuietDriving)
           /\ \A p \in Pages : NvmDriver[d].write_flash[p] \in Seq(QuietDriving)
<1> DEFINE r == NvmDriver[d]
<1>1. CASE d = "none"
  <2>1. /\ r.chip_erase = NotReady /\ r.erase_eeprom = NotReady /\ r.erase_user_row = NotReady
        /\ r.write_eeprom = NotReady /\ r.write_user_row = NotReady
        /\ \A a \in {"fuses", "lockbits"} : r.write_fuse[a] = NotReady
        /\ \A p \in Pages : r.erase_flash_page[p] = NotReady /\ r.write_flash[p] = NotReady
    BY <1>1 DEF NvmDriver, NvmUpdi, Pages
  <2>2. NotReady \in Seq(QuietDriving)
    BY QuietOthers, QuietGrows DEF NotReady
  <2> QED BY <2>1, <2>2
<1>2. CASE d # "none"
  <2>1. DriverPrograms(r, d)
    BY <1>2, EveryDriver
  <2>2. Driving \cup Loads \subseteq QuietDriving
    <3>1. Loads \subseteq Quiet1
      BY DEF Loads, Quiet1, Plain
    <3> QED BY <3>1, QuietGrows DEF QuietDriving
  <2>3. Seq(Driving \cup Loads) \subseteq Seq(QuietDriving)
    BY <2>2, SeqGrows
  <2> HIDE DEF r
  <2>4. ASSUME NEW s, NEW late, Program(s, d, late) PROVE s \in Seq(QuietDriving)
    BY <2>3, <2>4 DEF Program, Part
  <2>5. /\ r.chip_erase \in Seq(QuietDriving) /\ r.erase_eeprom \in Seq(QuietDriving)
        /\ r.erase_user_row \in Seq(QuietDriving) /\ r.write_eeprom \in Seq(QuietDriving)
        /\ r.write_user_row \in Seq(QuietDriving)
        /\ \A a \in {"fuses", "lockbits"} : r.write_fuse[a] \in Seq(QuietDriving)
        /\ \A p \in Pages : r.erase_flash_page[p] \in Seq(QuietDriving)
        /\ \A p \in Pages : r.write_flash[p] \in Seq(QuietDriving)
    BY <2>1, <2>4 DEF DriverPrograms
  <2> QED BY <2>5 DEF r
<1> QED BY <1>1, <1>2

\* The calls that are quiet: all but stop, start and the user row with its key.
LEMMA QuietBody ==
    ASSUME TypeInv, NEW c \in Requests, c.f \notin Stops \cup {"construct", "start"},
           ~(c.f = "write" /\ c.m = "user_row" /\ "user-row-locked-device" \in Options)
    PROVE  Body(c) \in Seq(QuietDriving)
<1>0. avr.drv \in Drivers
  BY DEF TypeInv
<1>1. CASE c.f = "read_device_id"
  BY <1>1, QuietOthers, QuietGrows DEF Body
<1>2. CASE c.f = "hold_in_reset"
  <2>1. Body(c) = <<>>
    BY <1>2 DEF Body
  <2> QED BY <2>1, Nothing
<1>3. CASE c.f = "write_data"
  BY <1>3, QuietOthers, QuietGrows DEF Body
<1>4. CASE c.f = "read"
  <2>1. Body(c) = read(c.m) /\ c.m \in Memories
    BY <1>4 DEF Body, Requests
  <2> QED BY <2>1, QuietOthers, QuietGrows
<1>5. CASE c.f = "erase"
  <2>1. Body(c) = erase(c.m)
    BY <1>5 DEF Body
  <2>2. PICK h \in Handlers : Try(nvm.chip_erase, {"SerialException"}, unlock)
                              = nvm.chip_erase \o <<h>>
    BY ProgmodeTypes, HandlerTypes DEF Try
  <2>3. <<h>> \in Seq(QuietDriving)
    BY OneStep DEF QuietDriving
  <2>4. Try(nvm.chip_erase, {"SerialException"}, unlock) \in Seq(QuietDriving)
    BY <1>0, <2>2, <2>3, QuietDriver, QuietJoins DEF nvm
  <2>5. /\ nvm.erase_eeprom \in Seq(QuietDriving) /\ nvm.erase_user_row \in Seq(QuietDriving)
        /\ nvm.erase_flash_page["page1"] \in Seq(QuietDriving)
        /\ nvm.erase_flash_page["page2"] \in Seq(QuietDriving)
    BY <1>0, QuietDriver DEF nvm, Pages
  <2>6. nvm.erase_flash_page["page1"] \o nvm.erase_flash_page["page2"] \in Seq(QuietDriving)
    BY <2>5, QuietJoins
  <2> QED BY <2>1, <2>4, <2>5, <2>6 DEF erase
<1>6. CASE c.f = "write"
  <2>1. Body(c) = write(c.m) /\ c.m \in Memories
    BY <1>6 DEF Body, Requests
  <2>2. /\ nvm.write_user_row \in Seq(QuietDriving) /\ nvm.write_eeprom \in Seq(QuietDriving)
        /\ \A a \in {"fuses", "lockbits"} : nvm.write_fuse[a] \in Seq(QuietDriving)
        /\ \A p \in Pages : nvm.write_flash[p] \in Seq(QuietDriving)
    BY <1>0, QuietDriver DEF nvm
  <2>3. nvm.write_flash["page1"] \o nvm.write_flash["page2"] \in Seq(QuietDriving)
    BY <2>2, QuietJoins DEF Pages
  <2>4. CASE c.m = "user_row"
    BY <1>6, <2>1, <2>2, <2>4 DEF write
  <2>5. CASE c.m \in {"eeprom", "fuses", "lockbits", "flash"}
    BY <2>1, <2>2, <2>3, <2>5 DEF write
  <2>6. CASE c.m \in Pages
    BY <2>1, <2>2, <2>6 DEF write, Pages
  <2> QED BY <2>1, <2>4, <2>5, <2>6 DEF Memories, Areas
<1>7. c.f \in {"construct", "start", "read_device_id", "hold_in_reset", "release_from_reset",
               "write_data", "stop", "read", "write", "erase"}
  BY DEF Requests
<1> QED BY <1>1, <1>2, <1>3, <1>4, <1>5, <1>6, <1>7 DEF Stops

\* Two programs, one after the other.
LEMMA Joined ==
    ASSUME NEW S, NEW r \in Seq(S), NEW h \in Seq(S)
    PROVE  /\ r \o h \in Seq(S) /\ Len(r \o h) = Len(r) + Len(h)
           /\ Len(r) \in Nat /\ Len(h) \in Nat
           /\ \A i \in 1..Len(r) : (r \o h)[i] = r[i]
           /\ \A i \in 1..Len(h) : (r \o h)[Len(r) + i] = h[i]
OBVIOUS

\* The rest of a program, with something after it.
LEMMA RestStep ==
    ASSUME NEW S, NEW p \in Seq(S), NEW h \in Seq(S), NEW k \in 1..Len(p)
    PROVE  /\ Rest(p, k) # <<>> /\ Head(Rest(p, k)) = p[k] /\ Tail(Rest(p, k)) = Rest(p, k + 1)
           /\ Rest(p, k) \o h # <<>> /\ Head(Rest(p, k) \o h) = p[k]
           /\ Tail(Rest(p, k) \o h) = Rest(p, k + 1) \o h
<1>1. /\ Rest(p, k) \in Seq(S) /\ Len(Rest(p, k)) = Len(p) - k + 1
      /\ \A i \in 1..Len(Rest(p, k)) : Rest(p, k)[i] = p[k + i - 1]
  BY DEF Rest
<1>2. /\ Rest(p, k + 1) \in Seq(S) /\ Len(Rest(p, k + 1)) = Len(p) - k
      /\ \A i \in 1..Len(Rest(p, k + 1)) : Rest(p, k + 1)[i] = p[k + i]
  BY DEF Rest
<1> DEFINE r == Rest(p, k)
           q == Rest(p, k + 1)
<1> HIDE DEF r, q
<1>3. /\ r \in Seq(S) /\ q \in Seq(S) /\ Len(r) = Len(q) + 1 /\ Len(q) \in Nat /\ Len(r) \in Nat
      /\ r[1] = p[k] /\ \A i \in 1..Len(q) : r[i + 1] = q[i]
  <2>1. ASSUME NEW i \in 1..Len(Rest(p, k + 1)) PROVE Rest(p, k)[i + 1] = Rest(p, k + 1)[i]
    <3>1. i + 1 \in 1..Len(Rest(p, k)) /\ k + (i + 1) - 1 = k + i
      BY <1>1, <1>2
    <3>2. Rest(p, k)[i + 1] = p[k + (i + 1) - 1]
      BY <1>1, <3>1
    <3> QED BY <1>2, <3>1, <3>2
  <2>2. Rest(p, k)[1] = p[k]
    BY <1>1
  <2> QED BY <1>1, <1>2, <2>1, <2>2 DEF r, q
<1>4. r # <<>> /\ Head(r) = p[k]
  BY <1>3
<1>5. Tail(r) = q
  BY <1>3
<1>6. r \o h # <<>> /\ Head(r \o h) = p[k]
  <2> DEFINE rh == r \o h
  <2>0. r \in Seq(S) /\ h \in Seq(S) /\ 1 \in 1..Len(r)
    BY <1>3
  <2>1. rh \in Seq(S) /\ Len(rh) = Len(r) + Len(h) /\ Len(h) \in Nat /\ rh[1] = r[1]
    BY <2>0, Joined
  <2> HIDE DEF rh
  <2>2. rh # <<>> /\ Head(rh) = rh[1]
    BY <1>3, <2>1
  <2> QED BY <1>3, <2>1, <2>2 DEF rh
<1>7. Tail(r \o h) = q \o h
  <2>0. r \in Seq(S) /\ q \in Seq(S) /\ h \in Seq(S)
    BY <1>3
  <2>1. /\ r \o h \in Seq(S) /\ Len(r \o h) = Len(r) + Len(h) /\ Len(h) \in Nat
        /\ \A i \in 1..Len(r) : (r \o h)[i] = r[i]
        /\ \A i \in 1..Len(h) : (r \o h)[Len(r) + i] = h[i]
    BY <2>0, Joined
  <2>2. /\ q \o h \in Seq(S) /\ Len(q \o h) = Len(q) + Len(h)
        /\ \A i \in 1..Len(q) : (q \o h)[i] = q[i]
        /\ \A i \in 1..Len(h) : (q \o h)[Len(q) + i] = h[i]
    BY <2>0, Joined
  <2>3. ASSUME NEW i \in 1..(Len(q) + Len(h)) PROVE (r \o h)[i + 1] = (q \o h)[i]
    <3>1. CASE i \in 1..Len(q)
      BY <1>3, <2>1, <2>2, <3>1
    <3>2. CASE i \notin 1..Len(q)
      <4>1. i - Len(q) \in 1..Len(h) /\ i + 1 = Len(r) + (i - Len(q)) /\ i = Len(q) + (i - Len(q))
        BY <1>3, <2>1, <3>2
      <4> QED BY <2>1, <2>2, <4>1
    <3> QED BY <3>1, <3>2
  <2> DEFINE rh == r \o h
             qh == q \o h
  <2> HIDE DEF rh, qh
  <2>4. /\ rh \in Seq(S) /\ qh \in Seq(S) /\ Len(rh) = Len(qh) + 1 /\ Len(qh) \in Nat
        /\ \A i \in 1..Len(qh) : rh[i + 1] = qh[i]
    BY <1>3, <2>1, <2>2, <2>3 DEF rh, qh
  <2>5. Tail(rh) = qh
    BY <2>4
  <2> QED BY <2>5 DEF rh, qh
<1> QED BY <1>4, <1>5, <1>6, <1>7 DEF r, q

\* Its ends.
LEMMA RestEnds ==
    ASSUME NEW S, NEW p \in Seq(S)
    PROVE  Rest(p, 1) = p /\ Rest(p, Len(p) + 1) = <<>>
BY DEF Rest

Stcs1(r) == [op |-> "do", f |-> "stcs", x |-> r]
Key1(k) == [op |-> "do", f |-> "key", x |-> k]
NeedIf(k) ==
    [op |-> "if", test |-> k, then |-> <<>>, else |-> <<[op |-> "raise", exc |-> "UpdiError"]>>]
Wait1(until, ms, else) ==
    [op |-> "wait", until |-> until, ms |-> ms, then |-> <<>>, else |-> else]
Raise1(e) == [op |-> "raise", exc |-> e]
AnyStep == Instructions("P0", "P0")

\* The instructions of leave_progmode, ...
LEMMA LeavePlaces ==
    /\ leave_progmode \in Seq(AnyStep) /\ Len(leave_progmode) = 3
    /\ leave_progmode[1] = Stcs1("RESET_REQ") /\ leave_progmode[2] = Stcs1("RESET_REQ_off")
    /\ leave_progmode[3] = Stcs1("UPDIDIS")
<1>1. leave_progmode = <<Stcs1("RESET_REQ")>> \o <<Stcs1("RESET_REQ_off")>> \o <<Stcs1("UPDIDIS")>>
  BY DEF leave_progmode, reset, stcs, Do, Stcs1
<1>2. leave_progmode \in Seq(AnyStep)
  BY ProgmodeTypes, PlainInstructions DEF AnyStep
<1> QED BY <1>1, <1>2

-----------------------------------------------------------------------------
(* Keys and modes: what an access does with them.                          *)

\* UPDI, keys, reset request and mode are what they were.
Same(t, u) ==
    u.nvm = t.nvm /\ u.on = t.on /\ u.keys = t.keys /\ u.rst = t.rst /\ u.mode = t.mode
Powered(t) == ~t.on => t.keys = {}

\* What a frame makes of the target if nothing goes wrong.
Effect(f, x, ms) ==
    CASE f = "break" -> [tgt EXCEPT !.on = TRUE]
      [] f = "double_break" -> DoubleBreak(tgt)
      [] f = "stcs" -> Stcs(tgt, x, ms)
      [] f = "key" -> TakeKey(tgt, x)
      [] OTHER -> tgt

\* Stores leave them alone, ...
LEMMA StoreSame ==
    ASSUME NEW t \in Targets, NEW a \in Areas, NEW c \in Content, NEW ms \in Nat
    PROVE  Same(t, Store(t, a, c, ms))
<1>1. Same(t, [t EXCEPT !.buf = c])
  BY DEF Targets, Same
<1>2. Same(t, [t EXCEPT !.addr = a, !.buf = IF c = "blank" THEN @ ELSE c])
  BY DEF Targets, Same
<1>3. ASSUME NEW d PROVE Same(t, [t EXCEPT !.mem[a] = d, !.busy = ms])
  BY DEF Targets, Same
<1>4. Same(t, Refuse(t))
  BY DEF Targets, Refuse, Same
<1>5. /\ Same(t, [t EXCEPT !.mem[a] = Programmed(@, c), !.busy = ms])
      /\ Same(t, [t EXCEPT !.mem[a] = "blank", !.busy = ms])
      /\ Same(t, [t EXCEPT !.mem[a] = c, !.busy = ms])
  <2>1. [t EXCEPT !.mem[a] = Programmed(@, c), !.busy = ms]
        = [t EXCEPT !.mem[a] = Programmed(t.mem[a], c), !.busy = ms]
    BY DEF Targets
  <2> QED BY <1>3, <2>1
<1> HIDE DEF Same
<1>6. CASE t.mode = "urow"
  BY <1>1, <1>6 DEF Store
<1>7. CASE t.mode # "urow" /\ ~WordOriented(t)
  BY <1>2, <1>7 DEF Store
<1>8. CASE t.mode # "urow" /\ WordOriented(t)
  BY <1>4, <1>5, <1>8 DEF Store
<1> QED BY <1>6, <1>7, <1>8

\* ... so do commands, ...
LEMMA CommandSame ==
    ASSUME NEW t \in Targets, NEW code, NEW ms \in Nat
    PROVE  Same(t, TakeCommand(t, code, ms)) /\ Same(t, Refuse(t))
<1>1. ASSUME NEW u \in Targets, NEW cmd PROVE Same(u, Obey(u, cmd, ms))
  <2>1. Same(u, u) /\ Same(u, Refuse(u)) /\ Same(u, [u EXCEPT !.buf = "blank"])
    BY DEF Same, Targets, Refuse
  <2>2. ASSUME NEW m PROVE Same(u, [u EXCEPT !.mem = m, !.busy = ms])
    BY DEF Same, Targets
  <2>3. Same(u, [u EXCEPT !.mem.eeprom = "blank", !.busy = ms])
    BY DEF Same, Targets
  <2>4. ASSUME NEW ok, NEW d PROVE Same(u, PageCommand(u, ok, d, ms))
    <3>1. Same(u, [u EXCEPT !.mem[u.addr] = d, !.busy = ms, !.buf = "blank"])
      BY DEF Same, Targets
    <3> QED BY <2>1, <3>1 DEF PageCommand
  <2>5. Same(u, [u EXCEPT !.mem[u.reg] = u.dat, !.busy = ms])
    BY DEF Same, Targets
  <2> HIDE DEF Same
  <2> QED BY <2>1, <2>2, <2>3, <2>4, <2>5 DEF Obey
<1>2. Same(t, Refuse(t))
  BY DEF Same, Targets, Refuse
<1>3. ASSUME NEW c \in CommandNames
      PROVE  [t EXCEPT !.cmd = c] \in Targets /\ Same(t, [t EXCEPT !.cmd = c])
  BY DEF Same, Targets
<1>4. ASSUME NEW c \in CommandNames, NEW n PROVE Same(t, Obey([t EXCEPT !.cmd = c], n, ms))
  <2> DEFINE u == [t EXCEPT !.cmd = c]
  <2>1. u \in Targets /\ Same(t, u)
    BY <1>3
  <2> HIDE DEF u
  <2>2. Same(u, Obey(u, n, ms))
    BY <1>1, <2>1
  <2>3. Same(t, Obey(u, n, ms))
    BY <2>1, <2>2 DEF Same
  <2> QED BY <2>3 DEF u
<1>5. Decode(t, code) \in CommandNames /\ "NOCMD" \in CommandNames
  BY DecodeType DEF CommandNames
<1> HIDE DEF Same
<1> QED BY <1>2, <1>3, <1>4, <1>5 DEF TakeCommand

\* ... time and acknowledgements.
LEMMA TimeSame ==
    ASSUME NEW t \in Targets, NEW ms \in Nat, NEW b \in BOOLEAN
    PROVE  Same(t, t) /\ Same(t, Settle(t)) /\ Same(t, Elapse(t, ms)) /\ Same(t, SetRsd(t, b))
BY DEF Same, Settle, Elapse, SetRsd, Targets

\* Keys are armed only with UPDI enabled, whatever the frame.
LEMMA EffectPowered ==
    ASSUME tgt \in Targets, NEW i \in Frames, NEW ms \in Nat, PoweredInv
    PROVE  Powered(Effect(i.f, i.x, ms))
<1>1. i.f \in {"break", "double_break", "ldcs", "stcs", "key"}
  BY DEF Frames
<1>2. Powered(tgt)
  BY DEF Powered, PoweredInv
<1>3. /\ Powered([tgt EXCEPT !.on = TRUE]) /\ Powered(DoubleBreak(tgt))
      /\ \A k : Powered(TakeKey(tgt, k)) /\ Powered(SetRsd(tgt, FALSE))
      /\ Powered(HoldReset(tgt)) /\ Powered(Disable(tgt))
      /\ Powered(ClearUrowKey(tgt)) /\ Powered(UrowFinal(tgt, ms))
  BY <1>2 DEF Powered, DoubleBreak, TakeKey, SetRsd, HoldReset, Disable, ClearUrowKey, UrowFinal,
     Targets
<1>4. Powered(ReleaseReset(tgt, ms))
  <2>1. CASE ~(tgt.on /\ tgt.rst)
    BY <1>2, <2>1 DEF ReleaseReset
  <2>2. CASE tgt.on /\ tgt.rst
    <3>1. ReleaseReset(tgt, ms).on = tgt.on
      BY <2>2 DEF ReleaseReset, Targets
    <3> QED BY <2>2, <3>1 DEF Powered
  <2> QED BY <2>1, <2>2
<1> HIDE DEF Powered
<1> QED BY <1>1, <1>2, <1>3, <1>4 DEF Effect, Stcs

\* A frame arrives or does not.
LEMMA FrameEffect ==
    ASSUME TypeInv, PoweredInv, NEW i \in Frames, NEW ms \in Nat, NEW o \in Access(i.f, i.x, ms)
    PROVE  /\ Powered(o.tgt)
           /\ o.exc = "none" /\ o.fault = 0 => o.tgt = Effect(i.f, i.x, ms)
<1>1. tgt \in Targets
  BY DEF TypeInv
<1>2. i.f \in {"break", "double_break", "ldcs", "stcs", "key"}
  BY DEF Frames
<1>3. Powered(Effect(i.f, i.x, ms)) /\ Powered(tgt) /\ Powered(Settle(tgt))
  <2>1. Same(tgt, Settle(tgt))
    BY <1>1, TimeSame, 0 \in Nat
  <2> QED BY <1>1, <2>1, EffectPowered DEF Same, Powered, PoweredInv
<1>4. CASE i.f = "ldcs"
  <2>1. o \in ldcs(tgt, TRUE) /\ Effect(i.f, i.x, ms) = tgt
    BY <1>4 DEF Access, Effect
  <2>2. o.tgt \in Missed(tgt) /\ (o.exc = "none" => o.tgt = tgt)
    BY <1>1, <2>1, LdcsWays
  <2> QED BY <1>3, <2>1, <2>2 DEF Missed
<1>5. CASE i.f # "ldcs"
  <2>1. o \in send(tgt, Effect(i.f, i.x, ms))
    BY <1>2, <1>5 DEF Access, Effect
  <2>2. Effect(i.f, i.x, ms) \in Targets
    <3>1. i.f = "key" => i.x \in Keys
      BY DEF Frames
    <3>2. Stcs(tgt, i.x, ms) \in Targets
      BY <1>1, StcsType
    <3>3. /\ [tgt EXCEPT !.on = TRUE] \in Targets /\ DoubleBreak(tgt) \in Targets
          /\ \A k \in Keys : TakeKey(tgt, k) \in Targets
      BY <1>1, SimpleTypes DEF Keys
    <3> QED BY <1>1, <1>2, <3>1, <3>2, <3>3 DEF Effect
  <2>3. o.tgt \in {tgt, Effect(i.f, i.x, ms)} /\ (o.fault = 0 => o.tgt = Effect(i.f, i.x, ms))
    BY <1>1, <2>1, <2>2, SendWays
  <2> QED BY <1>3, <2>3
<1> QED BY <1>4, <1>5

\* All other accesses leave keys and mode alone, also when they fail.
LEMMA OtherEffect ==
    ASSUME TypeInv, NEW i \in Loads \cup Commands \cup {Removal}, NEW ms \in Nat,
           NEW o \in Access(i.f, i.x, ms)
    PROVE  Same(tgt, o.tgt)
<1>1. tgt \in Targets
  BY DEF TypeInv
<1> DEFINE Kept(u) == u \in Targets /\ Same(tgt, u)
<1>2. Kept(tgt)
  BY <1>1 DEF Same
<1>3. ASSUME NEW u, Kept(u) PROVE Kept(Settle(u)) /\ \A b \in BOOLEAN : Kept(SetRsd(u, b))
  <2>1. Settle(u) \in Targets /\ Same(u, Settle(u))
    BY <1>3, TimeType, TimeSame, 0 \in Nat, TRUE \in BOOLEAN
  <2>2. ASSUME NEW b \in BOOLEAN PROVE SetRsd(u, b) \in Targets /\ Same(u, SetRsd(u, b))
    <3>1. "NVMErase" \in Keys
      BY DEF Keys
    <3> QED BY <1>3, <3>1, SimpleTypes, TimeSame, 0 \in Nat
  <2> QED BY <1>3, <2>1, <2>2 DEF Same
<1>4. ASSUME NEW a \in Areas, NEW c \in Content PROVE Kept(Store(tgt, a, c, ms))
  BY <1>1, StoreType, StoreSame
<1>5. CASE i.f = "write_byte" /\ i \in Loads
  <2> DEFINE u == IF i.x.reg = "ADDR" THEN [tgt EXCEPT !.reg = i.x.area]
                  ELSE [tgt EXCEPT !.dat = "new"]
  <2>1. o \in st(tgt, u, avr.width) /\ i.x.area \in Areas
    BY <1>5 DEF Access, Loads
  <2>2. Kept(u)
    BY <1>1, <2>1 DEF Targets, Content, Same
  <2> HIDE DEF u
  <2>3. o.tgt \in {tgt, u, Settle(tgt), Settle(u)}
    BY <1>1, <2>1, <2>2, StWays
  <2>4. Kept(o.tgt)
    BY <1>2, <1>3, <2>2, <2>3
  <2> QED BY <2>4
<1>6. CASE i.f \in {"write_data", "write_data_words"}
  <2> DEFINE a == i.x.area
             c == i.x.c
             u == Store(tgt, a, c, ms)
             half == IF c = "blank" THEN "blank" ELSE "torn"
             v == Store(tgt, a, half, ms)
             w == Store(tgt, a, "torn", ms)
  <2>1. a \in Areas /\ c \in Content /\ half \in Content /\ "torn" \in Content
    BY <1>6 DEF Loads, Content, Commands, Removal, Command
  <2>2. /\ i.f = "write_data" => o \in write_data(tgt, u, v, avr.width)
        /\ i.f = "write_data_words" => o \in write_data_words(tgt, u, w, avr.width)
    BY <1>6 DEF Access
  <2> HIDE DEF a, c, half
  <2>3. Kept(u) /\ Kept(v) /\ Kept(w)
    BY <1>4, <2>1
  <2> HIDE DEF u, v, w
  <2>4. CASE i.f = "write_data"
    <3>1. o.tgt \in {tgt, u, Settle(tgt), Settle(u), Settle(v)}
      BY <1>1, <2>2, <2>3, <2>4, WriteDataWays
    <3>2. Kept(o.tgt)
      BY <1>2, <1>3, <2>3, <3>1
    <3> QED BY <3>2
  <2>5. CASE i.f = "write_data_words"
    <3>1. Worded(tgt, u, w, o.tgt)
      BY <1>1, <2>2, <2>3, <2>5, WriteWordsWays
    <3> SUFFICES Kept(o.tgt)
      OBVIOUS
    <3> HIDE DEF Kept
    <3>3. CASE o.tgt \in {tgt, u, w, Settle(tgt), SetRsd(u, TRUE)}
      BY <1>2, <1>3, <2>3, <3>3
    <3>4. CASE \E r \in {tgt, u, w}, b \in BOOLEAN : o.tgt = Settle(SetRsd(r, b))
      <4>1. PICK r \in {tgt, u, w}, b \in BOOLEAN : o.tgt = Settle(SetRsd(r, b))
        BY <3>4
      <4>2. Kept(SetRsd(r, b))
        BY <1>2, <1>3, <2>3, <4>1
      <4> QED BY <1>3, <4>1, <4>2
    <3> QED BY <3>1, <3>3, <3>4 DEF Worded
  <2> QED BY <1>6, <2>4, <2>5
<1>7. CASE i \in Commands \cup {Removal}
  <2>1. i.f = "execute_nvm_command"
    BY <1>7 DEF Commands, Removal, Command
  <2> DEFINE u == TakeCommand(tgt, i.x, ms)
  <2>2. Kept(u) /\ Kept(Refuse(tgt))
    <3>1. Refuse(tgt) \in Targets
      BY <1>1 DEF Refuse, Targets
    <3> QED BY <1>1, <3>1, TakeType, CommandSame
  <2>3. o \in st(tgt, u, avr.width) \/ o = [Done(Refuse(tgt)) EXCEPT !.fault = 1]
    BY <2>1 DEF Access
  <2> HIDE DEF u
  <2>4. CASE o \in st(tgt, u, avr.width)
    <3>1. o.tgt \in {tgt, u, Settle(tgt), Settle(u)}
      BY <1>1, <2>2, <2>4, StWays
    <3>2. Kept(o.tgt)
      BY <1>2, <1>3, <2>2, <3>1
    <3> QED BY <3>2
  <2>5. CASE o = [Done(Refuse(tgt)) EXCEPT !.fault = 1]
    <3>1. o.tgt = Refuse(tgt)
      BY <2>5 DEF Done, Out
    <3> QED BY <2>2, <3>1
  <2> QED BY <2>3, <2>4, <2>5
<1>8. i \in Loads => i.f \in {"write_byte", "write_data", "write_data_words"}
  BY DEF Loads
<1> QED BY <1>5, <1>6, <1>7, <1>8

\* One more instruction at the end of a program.
Then1(s, x) == s \o <<x>>

\* Its length and its end, ...
LEMMA Longer ==
    ASSUME NEW S, NEW s \in Seq(S), NEW x \in S
    PROVE  /\ Then1(s, x) \in Seq(S) /\ Len(Then1(s, x)) = Len(s) + 1
           /\ Then1(s, x)[Len(s) + 1] = x
BY DEF Then1

\* ... and all before it.
LEMMA LongerKeeps ==
    ASSUME NEW S, NEW s \in Seq(S), NEW x \in S
    PROVE  \A i \in 1..Len(s) : Then1(s, x)[i] = s[i]
BY DEF Then1

\* The kinds of instructions that entering a mode takes.
LEMMA StepKinds ==
    /\ \A r \in Registers : Stcs1(r) \in AnyStep
    /\ \A k \in Keys : Key1(k) \in AnyStep /\ NeedIf(k) \in AnyStep
    /\ NeedIf("NVMPROG") \in AnyStep
    /\ \A u \in {"unlocked", "urowprog", "no_urowprog"}, ms \in Nat, s \in Seq(Plain) :
          Wait1(u, ms, s) \in AnyStep
    /\ \A i \in Loads : i \in AnyStep
<1>1. Plain3 \subseteq AnyStep
  BY PlainInstructions DEF AnyStep
<1>2. Plain \subseteq AnyStep /\ Branching(Plain) \subseteq AnyStep
  BY <1>1, PlainGrows DEF Plain2
<1>3. \A r \in Registers : Stcs1(r) \in Plain
  BY DEF Stcs1, Plain, Frames
<1>4. \A k \in Keys : Key1(k) \in Plain
  BY DEF Key1, Plain, Frames
<1>5. <<[op |-> "raise", exc |-> "UpdiError"]>> \in Seq(Plain)
  <2>1. [op |-> "raise", exc |-> "UpdiError"] \in Plain
    BY DEF Plain, Raises, Raisable
  <2> QED BY <2>1, OneStep
<1>6. <<>> \in Seq(Plain)
  BY Nothing
<1>7. \A k \in Tests : NeedIf(k) \in Branching(Plain)
  BY <1>5, <1>6 DEF NeedIf, Branching
<1>8. \A u \in {"unlocked", "urowprog", "no_urowprog"}, ms \in Nat, s \in Seq(Plain) :
          Wait1(u, ms, s) \in Branching(Plain)
  BY <1>6 DEF Wait1, Branching
<1>9. Loads \subseteq Plain
  BY DEF Plain
<1> QED BY <1>2, <1>3, <1>4, <1>7, <1>8, <1>9 DEF Tests

\* ..., of unlock, ...
LEMMA UnlockPlaces ==
    /\ unlock \in Seq(AnyStep) /\ Len(unlock) = 5
    /\ unlock[1] = Key1("NVMErase") /\ unlock[2] = NeedIf("NVMErase")
    /\ unlock[3] = Stcs1("RESET_REQ") /\ unlock[4] = Stcs1("RESET_REQ_off")
    /\ unlock[5] = Wait1("unlocked", 500, <<Raise1("UpdiError")>>)
<1> DEFINE a == Key1("NVMErase")
           b == NeedIf("NVMErase")
           c == Stcs1("RESET_REQ")
           d == Stcs1("RESET_REQ_off")
           e == Wait1("unlocked", 500, <<Raise1("UpdiError")>>)
<1>1. unlock = ((<<a>> \o <<b>>) \o <<c>> \o <<d>>) \o <<e>>
  BY DEF unlock, NeedKey, key, Do, If, Raise, reset, stcs, While, Key1, NeedIf, Stcs1, Wait1,
     Raise1
<1>2. a \in AnyStep /\ b \in AnyStep /\ c \in AnyStep /\ d \in AnyStep /\ e \in AnyStep
  <2>1. <<Raise1("UpdiError")>> \in Seq(Plain)
    <3>1. Raise1("UpdiError") \in Plain
      BY DEF Raise1, Plain, Raises, Raisable
    <3> QED BY <3>1, OneStep
  <2>2. e \in AnyStep
    BY <2>1, StepKinds, 500 \in Nat
  <2>3. a \in AnyStep /\ b \in AnyStep
    BY StepKinds DEF Keys
  <2>4. c \in AnyStep /\ d \in AnyStep
    BY StepKinds DEF Registers
  <2> QED BY <2>2, <2>3, <2>4
<1> HIDE DEF a, b, c, d, e
<1>3. LET p == ((<<a>> \o <<b>>) \o <<c>> \o <<d>>) \o <<e>>
      IN  /\ p \in Seq(AnyStep) /\ Len(p) = 5
          /\ p[1] = a /\ p[2] = b /\ p[3] = c /\ p[4] = d /\ p[5] = e
  BY <1>2
<1> QED BY <1>1, <1>3 DEF a, b, c, d, e

\* ... of enter_progmode where it does something, ...
LEMMA EntryPlaces ==
    /\ EntryProgram \in Seq(AnyStep) /\ Len(EntryProgram) = 7
    /\ EntryProgram[1] = Stcs1("RESET_REQ")
    /\ EntryProgram[2] = Key1("NVMProg") /\ EntryProgram[3] = NeedIf("NVMProg")
    /\ EntryProgram[4] = Stcs1("RESET_REQ") /\ EntryProgram[5] = Stcs1("RESET_REQ_off")
    /\ EntryProgram[6] = Wait1("unlocked", 100, <<Raise1("LockedError")>>)
    /\ EntryProgram[7] = NeedIf("NVMPROG")
<1> DEFINE a == Key1("NVMProg")
           b == NeedIf("NVMProg")
           c == Stcs1("RESET_REQ")
           d == Stcs1("RESET_REQ_off")
           e == Wait1("unlocked", 100, <<Raise1("LockedError")>>)
           f == NeedIf("NVMPROG")
           p3 == <<c>> \o (<<a>> \o <<b>>)
           p4 == Then1(p3, c)
           p5 == Then1(p4, d)
           p6 == Then1(p5, e)
           p7 == Then1(p6, f)
<1>1. EntryProgram = p7
  BY DEF EntryProgram, NeedKey, key, Do, If, Raise, reset, stcs, While, Key1, NeedIf, Stcs1,
     Wait1, Raise1, Then1
<1>2. /\ a \in AnyStep /\ b \in AnyStep /\ c \in AnyStep /\ d \in AnyStep /\ e \in AnyStep
      /\ f \in AnyStep
  <2>1. <<Raise1("LockedError")>> \in Seq(Plain)
    <3>1. Raise1("LockedError") \in Plain
      BY DEF Raise1, Plain, Raises, Raisable
    <3> QED BY <3>1, OneStep
  <2>2. e \in AnyStep
    BY <2>1, StepKinds, 100 \in Nat
  <2>3. a \in AnyStep /\ b \in AnyStep /\ f \in AnyStep
    BY StepKinds DEF Keys
  <2>4. c \in AnyStep /\ d \in AnyStep
    BY StepKinds DEF Registers
  <2> QED BY <2>2, <2>3, <2>4
<1> HIDE DEF a, b, c, d, e, f
<1>3. /\ p3 \in Seq(AnyStep) /\ Len(p3) = 3
      /\ p3[1] = c /\ p3[2] = a /\ p3[3] = b
  BY <1>2
<1> HIDE DEF p3
<1>4. /\ p4 \in Seq(AnyStep) /\ Len(p4) = 4
      /\ p4[1] = c /\ p4[2] = a /\ p4[3] = b /\ p4[4] = c
  <2>1. /\ Then1(p3, c) \in Seq(AnyStep) /\ Len(Then1(p3, c)) = Len(p3) + 1
        /\ Then1(p3, c)[Len(p3) + 1] = c
    BY <1>2, <1>3, Longer
  <2>2. \A i \in 1..Len(p3) : Then1(p3, c)[i] = p3[i]
    BY <1>2, <1>3, LongerKeeps
  <2> QED BY <1>3, <2>1, <2>2
<1> HIDE DEF p4
<1>5. /\ p5 \in Seq(AnyStep) /\ Len(p5) = 5
      /\ p5[1] = c /\ p5[2] = a /\ p5[3] = b /\ p5[4] = c /\ p5[5] = d
  <2>1. /\ Then1(p4, d) \in Seq(AnyStep) /\ Len(Then1(p4, d)) = Len(p4) + 1
        /\ Then1(p4, d)[Len(p4) + 1] = d
    BY <1>2, <1>4, Longer
  <2>2. \A i \in 1..Len(p4) : Then1(p4, d)[i] = p4[i]
    BY <1>2, <1>4, LongerKeeps
  <2> QED BY <1>4, <2>1, <2>2
<1> HIDE DEF p5
<1>6. /\ p6 \in Seq(AnyStep) /\ Len(p6) = 6
      /\ p6[1] = c /\ p6[2] = a /\ p6[3] = b /\ p6[4] = c /\ p6[5] = d /\ p6[6] = e
  <2>1. /\ Then1(p5, e) \in Seq(AnyStep) /\ Len(Then1(p5, e)) = Len(p5) + 1
        /\ Then1(p5, e)[Len(p5) + 1] = e
    BY <1>2, <1>5, Longer
  <2>2. \A i \in 1..Len(p5) : Then1(p5, e)[i] = p5[i]
    BY <1>2, <1>5, LongerKeeps
  <2> QED BY <1>5, <2>1, <2>2
<1> HIDE DEF p6
<1>7. /\ p7 \in Seq(AnyStep) /\ Len(p7) = 7
      /\ p7[1] = c /\ p7[2] = a /\ p7[3] = b /\ p7[4] = c /\ p7[5] = d /\ p7[6] = e
      /\ p7[7] = f
  <2>1. /\ Then1(p6, f) \in Seq(AnyStep) /\ Len(Then1(p6, f)) = Len(p6) + 1
        /\ Then1(p6, f)[Len(p6) + 1] = f
    BY <1>2, <1>6, Longer
  <2>2. \A i \in 1..Len(p6) : Then1(p6, f)[i] = p6[i]
    BY <1>2, <1>6, LongerKeeps
  <2> QED BY <1>6, <2>1, <2>2
<1> HIDE DEF p7
<1> QED BY <1>1, <1>7 DEF a, b, c, d, e, f

\* ... and of write_user_row_locked_device.
LEMMA RowPlaces ==
    LET p == write_user_row_locked_device
    IN  /\ p \in Seq(AnyStep) /\ Len(p) = 11
        /\ p[1] = Key1("NVMUs&te") /\ p[2] = NeedIf("NVMUs&te")
        /\ p[3] = Stcs1("RESET_REQ") /\ p[4] = Stcs1("RESET_REQ_off")
        /\ p[5] = Wait1("urowprog", 500, <<Raise1("UpdiError")>>)
        /\ p[6] \in Loads /\ p[7] = Stcs1("UROW_FINAL")
        /\ p[8] = Wait1("no_urowprog", 500, <<Stcs1("RESET_REQ")>> \o <<Stcs1("RESET_REQ_off")>>
                                            \o <<Raise1("UpdiError")>>)
        /\ p[9] = Stcs1("KEY_STATUS")
        /\ p[10] = Stcs1("RESET_REQ") /\ p[11] = Stcs1("RESET_REQ_off")
<1> DEFINE l == [op |-> "do", f |-> "write_data", x |-> [area |-> "user_row", c |-> "new"]]
           a == Key1("NVMUs&te")
           b == NeedIf("NVMUs&te")
           c == Stcs1("RESET_REQ")
           d == Stcs1("RESET_REQ_off")
           e == Wait1("urowprog", 500, <<Raise1("UpdiError")>>)
           f == Stcs1("UROW_FINAL")
           g == Wait1("no_urowprog", 500, <<Stcs1("RESET_REQ")>> \o <<Stcs1("RESET_REQ_off")>>
                                          \o <<Raise1("UpdiError")>>)
           h == Stcs1("KEY_STATUS")
           p4 == (<<a>> \o <<b>>) \o <<c>> \o <<d>>
           p5 == Then1(p4, e)
           p6 == Then1(p5, l)
           p7 == Then1(p6, f)
           p8 == Then1(p7, g)
           p9 == Then1(p8, h)
           p10 == Then1(p9, c)
           p11 == Then1(p10, d)
<1>0. l \in Loads
  BY DEF Loads, Areas
<1>1. write_user_row_locked_device = p11
  BY DEF write_user_row_locked_device, NeedKey, key, Do, If, Raise, reset, stcs, While, Key1,
     NeedIf, Stcs1, Wait1, Raise1, Then1, write_data_op
<1>2. /\ a \in AnyStep /\ b \in AnyStep /\ c \in AnyStep /\ d \in AnyStep /\ e \in AnyStep
      /\ f \in AnyStep /\ g \in AnyStep /\ h \in AnyStep /\ l \in AnyStep
  <2>1. /\ Raise1("UpdiError") \in Plain /\ Stcs1("RESET_REQ") \in Plain
        /\ Stcs1("RESET_REQ_off") \in Plain
    BY DEF Raise1, Plain, Raises, Raisable, Stcs1, Frames, Registers
  <2>2. /\ <<Raise1("UpdiError")>> \in Seq(Plain)
        /\ <<Stcs1("RESET_REQ")>> \o <<Stcs1("RESET_REQ_off")>> \o <<Raise1("UpdiError")>>
           \in Seq(Plain)
    BY <2>1, OneStep, SeqJoins
  <2> DEFINE x == <<Stcs1("RESET_REQ")>> \o <<Stcs1("RESET_REQ_off")>> \o <<Raise1("UpdiError")>>
             y == <<Raise1("UpdiError")>>
  <2>7. x \in Seq(Plain) /\ y \in Seq(Plain)
    BY <2>2
  <2> HIDE DEF x, y
  <2>8. Wait1("urowprog", 500, y) \in AnyStep /\ Wait1("no_urowprog", 500, x) \in AnyStep
    BY <2>7, StepKinds, 500 \in Nat
  <2>3. e \in AnyStep /\ g \in AnyStep
    BY <2>8 DEF x, y
  <2>4. a \in AnyStep /\ b \in AnyStep
    BY StepKinds DEF Keys
  <2>5. c \in AnyStep /\ d \in AnyStep /\ f \in AnyStep /\ h \in AnyStep
    BY StepKinds DEF Registers
  <2>6. l \in AnyStep
    BY <1>0, StepKinds
  <2> QED BY <2>3, <2>4, <2>5, <2>6
<1>20. l \in AnyStep /\ l \in Loads
  BY <1>0, <1>2
<1> HIDE DEF a, b, c, d, e, f, g, h, l
<1>3. /\ p4 \in Seq(AnyStep) /\ Len(p4) = 4
      /\ p4[1] = a /\ p4[2] = b /\ p4[3] = c /\ p4[4] = d
  BY <1>2
<1> HIDE DEF p4
<1>4. /\ p5 \in Seq(AnyStep) /\ Len(p5) = 5
      /\ p5[1] = a /\ p5[2] = b /\ p5[3] = c /\ p5[4] = d /\ p5[5] = e
  <2>1. /\ Then1(p4, e) \in Seq(AnyStep) /\ Len(Then1(p4, e)) = Len(p4) + 1
        /\ Then1(p4, e)[Len(p4) + 1] = e
    BY <1>2, <1>3, Longer
  <2>2. \A i \in 1..Len(p4) : Then1(p4, e)[i] = p4[i]
    BY <1>2, <1>3, LongerKeeps
  <2> QED BY <1>3, <2>1, <2>2
<1> HIDE DEF p5
<1>5. /\ p6 \in Seq(AnyStep) /\ Len(p6) = 6
      /\ p6[1] = a /\ p6[2] = b /\ p6[3] = c /\ p6[4] = d /\ p6[5] = e /\ p6[6] = l
  <2>1. /\ Then1(p5, l) \in Seq(AnyStep) /\ Len(Then1(p5, l)) = Len(p5) + 1
        /\ Then1(p5, l)[Len(p5) + 1] = l
    BY <1>2, <1>4, Longer
  <2>2. \A i \in 1..Len(p5) : Then1(p5, l)[i] = p5[i]
    BY <1>2, <1>4, LongerKeeps
  <2> QED BY <1>4, <2>1, <2>2
<1> HIDE DEF p6
<1>6. /\ p7 \in Seq(AnyStep) /\ Len(p7) = 7
      /\ p7[1] = a /\ p7[2] = b /\ p7[3] = c /\ p7[4] = d /\ p7[5] = e /\ p7[6] = l
      /\ p7[7] = f
  <2>1. /\ Then1(p6, f) \in Seq(AnyStep) /\ Len(Then1(p6, f)) = Len(p6) + 1
        /\ Then1(p6, f)[Len(p6) + 1] = f
    BY <1>2, <1>5, Longer
  <2>2. \A i \in 1..Len(p6) : Then1(p6, f)[i] = p6[i]
    BY <1>2, <1>5, LongerKeeps
  <2> QED BY <1>5, <2>1, <2>2
<1> HIDE DEF p7
<1>7. /\ p8 \in Seq(AnyStep) /\ Len(p8) = 8
      /\ p8[1] = a /\ p8[2] = b /\ p8[3] = c /\ p8[4] = d /\ p8[5] = e /\ p8[6] = l
      /\ p8[7] = f /\ p8[8] = g
  <2>1. /\ Then1(p7, g) \in Seq(AnyStep) /\ Len(Then1(p7, g)) = Len(p7) + 1
        /\ Then1(p7, g)[Len(p7) + 1] = g
    BY <1>2, <1>6, Longer
  <2>2. \A i \in 1..Len(p7) : Then1(p7, g)[i] = p7[i]
    BY <1>2, <1>6, LongerKeeps
  <2> QED BY <1>6, <2>1, <2>2
<1> HIDE DEF p8
<1>8. /\ p9 \in Seq(AnyStep) /\ Len(p9) = 9
      /\ p9[1] = a /\ p9[2] = b /\ p9[3] = c /\ p9[4] = d /\ p9[5] = e /\ p9[6] = l
      /\ p9[7] = f /\ p9[8] = g /\ p9[9] = h
  <2>1. /\ Then1(p8, h) \in Seq(AnyStep) /\ Len(Then1(p8, h)) = Len(p8) + 1
        /\ Then1(p8, h)[Len(p8) + 1] = h
    BY <1>2, <1>7, Longer
  <2>2. \A i \in 1..Len(p8) : Then1(p8, h)[i] = p8[i]
    BY <1>2, <1>7, LongerKeeps
  <2> QED BY <1>7, <2>1, <2>2
<1> HIDE DEF p9
<1>9. /\ p10 \in Seq(AnyStep) /\ Len(p10) = 10
      /\ p10[1] = a /\ p10[2] = b /\ p10[3] = c /\ p10[4] = d /\ p10[5] = e /\ p10[6] = l
      /\ p10[7] = f /\ p10[8] = g /\ p10[9] = h /\ p10[10] = c
  <2>1. /\ Then1(p9, c) \in Seq(AnyStep) /\ Len(Then1(p9, c)) = Len(p9) + 1
        /\ Then1(p9, c)[Len(p9) + 1] = c
    BY <1>2, <1>8, Longer
  <2>2. \A i \in 1..Len(p9) : Then1(p9, c)[i] = p9[i]
    BY <1>2, <1>8, LongerKeeps
  <2> QED BY <1>8, <2>1, <2>2
<1> HIDE DEF p10
<1>10.
      /\ p11 \in Seq(AnyStep) /\ Len(p11) = 11
      /\ p11[1] = a /\ p11[2] = b /\ p11[3] = c /\ p11[4] = d /\ p11[5] = e /\ p11[6] = l
      /\ p11[7] = f /\ p11[8] = g /\ p11[9] = h /\ p11[10] = c /\ p11[11] = d
  <2>1. /\ Then1(p10, d) \in Seq(AnyStep) /\ Len(Then1(p10, d)) = Len(p10) + 1
        /\ Then1(p10, d)[Len(p10) + 1] = d
    BY <1>2, <1>9, Longer
  <2>2. \A i \in 1..Len(p10) : Then1(p10, d)[i] = p10[i]
    BY <1>2, <1>9, LongerKeeps
  <2> QED BY <1>9, <2>1, <2>2
<1> HIDE DEF p11
<1> QED BY <1>1, <1>20, <1>10 DEF a, b, c, d, e, f, g, h

-----------------------------------------------------------------------------
(* Keys and modes: what a step does with them.                             *)

\* A step of a call that nothing disturbs and that goes on.
Advance ==
    /\ todo # <<>> /\ exc' = exc /\ session' = session
    /\ \/ /\ Top.op = "do" /\ todo' = Tail(todo)
          /\ Top \in Frames => \E ms \in Nat : tgt' = Effect(Top.f, Top.x, ms)
          /\ Top \notin Frames => Same(tgt, tgt')
       \/ /\ Top.op = "if" /\ Same(tgt, tgt')
          /\ todo' \in {Top.then \o Tail(todo), Top.else \o Tail(todo)}
          /\ Top.test \in Keys \cup {"NVMPROG"} => tgt.on
       \/ /\ Top.op = "wait" /\ Same(tgt, tgt')
          /\ todo' \in {todo, Top.then \o Tail(todo), Top.else \o Tail(todo)}
       \/ Top.op = "select" /\ Same(tgt, tgt') /\ todo' = select(avr.sib) \o Tail(todo)
       \/ /\ Top.op \in {"sib", "use", "short", "call", "except"} /\ Same(tgt, tgt')
          /\ todo' = Tail(todo)

Breaks == exc' \notin {"none", "running"} /\ session' = "doubtful"
LocksUp ==
    /\ todo # <<>> /\ Top = Raise1("LockedError") /\ Throw("LockedError")
    /\ exc' = exc /\ session' = session /\ tgt' = tgt
Finishes == todo = <<>> /\ Return

\* An access that fails although nothing disturbs it ends the call.
LEMMA FailsCalmly ==
    ASSUME TypeInv, TodoInv, NEW o \in Outcomes, o.exc # "none", o.exc # "SerialException",
           Throw(o.exc)
    PROVE  Breaks
<1>1. o.exc \in WireErrors
  BY DEF Outcomes
<1>2. o.exc \notin {"LockedError", "SerialException", "none", "running"}
  BY <1>1 DEF WireErrors
<1>3. todo \in Seq(Instructions(tgt.nvm, avr.drv)) /\ HandlersLast(todo)
  BY DEF TypeInv, TodoInv
<1> QED BY <1>2, <1>3, Thrown DEF Breaks

\* The rest of what is left goes on when the first is done.
LEMMA Onwards ==
    ASSUME TypeInv, todo # <<>>, GoOn(<<>>) PROVE todo' = Tail(todo)
<1>1. Tail(todo) \in Seq(Instructions(tgt.nvm, avr.drv))
  BY DEF TypeInv
<1>2. <<>> \o Tail(todo) = Tail(todo)
  BY <1>1
<1> QED BY <1>2 DEF GoOn

\* Targets that agree on keys and mode.
LEMMA SameTargets ==
    ASSUME NEW t \in Targets, NEW u \in Missed(t)
    PROVE  Same(t, u) /\ u \in Targets
<1>1. Same(t, t) /\ Same(t, Settle(t)) /\ Settle(t) \in Targets
  BY TimeSame, TimeType, 0 \in Nat, TRUE \in BOOLEAN
<1> QED BY <1>1 DEF Missed

\* A frame, a store or a command of a calm call.
LEMMA PerformCalm ==
    ASSUME TypeInv, TodoInv, PoweredInv, Perform
    PROVE  PoweredInv' /\ (luck' = "calm" => luck = "calm" /\ (Advance \/ Breaks))
<1>1. Working /\ todo # <<>> /\ Top.op = "do"
  BY DEF Perform, Doing
<1>2. PICK ms \in Takes(Top.f, Top.x) :
         \E o \in Access(Top.f, Top.x, ms) : Ends(o, LAMBDA val : GoOn(<<>>))
  BY DEF Perform
<1>3. PICK o \in Access(Top.f, Top.x, ms) : Ends(o, LAMBDA val : GoOn(<<>>))
  BY <1>2
<1>4. /\ faults + o.fault <= MaxFaults /\ faults' = faults + o.fault
      /\ luck' = IF o.silent \/ luck = "silent" THEN "silent"
                 ELSE IF o.fault > 0 THEN "faulty" ELSE luck
      /\ tgt' = o.tgt
      /\ o.exc = "none" => GoOn(<<>>)
      /\ o.exc # "none" => Throw(o.exc)
  BY <1>3 DEF Ends
<1>5. ms \in Nat
  BY TakesType
<1>6. Top \in Instructions(tgt.nvm, avr.drv)
  BY <1>1, TopKind
<1>7. Top \in Frames \cup Loads \cup Commands \cup {Removal}
  BY <1>1, <1>6, Kinds
<1>8. o \in Outcomes /\ (o.exc # "none" /\ o.fault = 0 => o.exc = "ProtocolError")
  <2>1. CASE Top \in Frames
    BY <1>5, <2>1, FrameWays
  <2>2. CASE Top \in Loads
    BY <1>5, <2>2, LoadWays
  <2>3. CASE Top \in Commands \cup {Removal}
    <3>1. Top.f = "execute_nvm_command" /\ Top.x \in Nat
      BY <2>3 DEF Commands, Removal, Command
    <3>2. o \in Access("execute_nvm_command", Top.x, ms)
      BY <3>1
    <3> QED BY <1>5, <3>1, <3>2, CommandWays
  <2> QED BY <1>7, <2>1, <2>2, <2>3
<1>9. luck' = "calm" => luck = "calm" /\ o.fault = 0
  BY <1>4, <1>8, Accounting
<1>10. /\ Top \in Frames => Powered(o.tgt)
       /\ Top \in Frames /\ o.exc = "none" /\ o.fault = 0 => o.tgt = Effect(Top.f, Top.x, ms)
       /\ Top \notin Frames => Same(tgt, o.tgt)
  BY <1>5, <1>7, FrameEffect, OtherEffect
<1>11. PoweredInv'
  BY <1>4, <1>10 DEF PoweredInv, Powered, Same
<1>12. ASSUME luck' = "calm" PROVE Advance \/ Breaks
  <2>1. CASE o.exc # "none"
    BY <1>4, <1>8, <1>9, <1>12, <2>1, FailsCalmly
  <2>2. CASE o.exc = "none"
    <3>1. todo' = Tail(todo) /\ exc' = exc /\ session' = session
      BY <1>1, <1>4, <2>2, Onwards DEF GoOn
    <3> QED BY <1>1, <1>4, <1>5, <1>9, <1>10, <1>12, <2>2, <3>1 DEF Advance
  <2> QED BY <2>1, <2>2
<1> QED BY <1>9, <1>11, <1>12

\* A status of the target is not read unless it is enabled.
LEMMA StatusRead ==
    ASSUME TypeInv, NEW test \in Keys \cup {"NVMPROG"}, NEW o \in Answers(test), o.exc = "none"
    PROVE  tgt.on
<1>1. tgt \in Targets
  BY DEF TypeInv
<1>2. PICK val \in BOOLEAN : o \in ldcs(tgt, val)
  <2>1. CASE test = "NVMPROG"
    BY <2>1 DEF Answers, NvmProg
  <2>2. CASE test \in Keys
    <3>1. (test \in tgt.keys) \in BOOLEAN
      OBVIOUS
    <3>2. o \in ldcs(tgt, test \in tgt.keys)
      BY <2>2 DEF Answers, Keys
    <3> QED BY <3>1, <3>2
  <2> QED BY <2>1, <2>2
<1> QED BY <1>1, <1>2, LdcsWays

\* A test.
LEMMA TestCalm ==
    ASSUME TypeInv, TodoInv, PoweredInv, Test
    PROVE  PoweredInv' /\ (luck' = "calm" => luck = "calm" /\ (Advance \/ Breaks))
<1>1. Working /\ todo # <<>> /\ Top.op = "if"
  BY DEF Test, Doing
<1>2. PICK o \in Answers(Top.test) :
         Ends(o, LAMBDA val : GoOn(IF val THEN Top.then ELSE Top.else))
  BY DEF Test
<1>3. /\ faults + o.fault <= MaxFaults /\ faults' = faults + o.fault
      /\ luck' = IF o.silent \/ luck = "silent" THEN "silent"
                 ELSE IF o.fault > 0 THEN "faulty" ELSE luck
      /\ tgt' = o.tgt
      /\ o.exc = "none" => GoOn(IF o.val THEN Top.then ELSE Top.else)
      /\ o.exc # "none" => Throw(o.exc)
  BY <1>2 DEF Ends
<1>4. Top.test \in Tests
  BY <1>1, TopKind, Kinds
<1>5. /\ o \in Outcomes /\ o.tgt \in Missed(tgt)
      /\ o.exc # "none" /\ o.fault = 0 => o.exc = "ProtocolError"
  BY <1>4, AnswerWays
<1>6. luck' = "calm" => luck = "calm" /\ o.fault = 0
  BY <1>3, <1>5, Accounting
<1>7. Same(tgt, tgt')
  BY <1>3, <1>5, SameTargets DEF TypeInv
<1>8. PoweredInv'
  BY <1>7 DEF PoweredInv, Same
<1>9. ASSUME luck' = "calm" PROVE Advance \/ Breaks
  <2>1. CASE o.exc # "none"
    BY <1>3, <1>5, <1>6, <1>9, <2>1, FailsCalmly
  <2>2. CASE o.exc = "none"
    <3>1. Top.test \in Keys \cup {"NVMPROG"} => tgt.on
      BY <2>2, StatusRead
    <3>2. /\ todo' \in {Top.then \o Tail(todo), Top.else \o Tail(todo)}
          /\ exc' = exc /\ session' = session
      BY <1>3, <2>2 DEF GoOn
    <3> QED BY <1>1, <1>7, <3>1, <3>2 DEF Advance
  <2> QED BY <2>1, <2>2
<1> QED BY <1>6, <1>8, <1>9

\* A poll, or a wait given up.
LEMMA WaitCalm ==
    ASSUME TypeInv, TodoInv, PoweredInv, Wait \/ TimedOut \/ Stalled
    PROVE  PoweredInv' /\ (luck' = "calm" => luck = "calm" /\ (Advance \/ Breaks))
<1>1. Working /\ todo # <<>> /\ Top.op = "wait" /\ tgt \in Targets
  BY DEF Wait, TimedOut, Stalled, Doing, TypeInv
<1>2. CASE Wait
  <2>1. PICK o \in Poll(Top.until) :
          Ends([o EXCEPT !.tgt = Elapse(@, PollMs)],
               LAMBDA val : IF val THEN GoOn(Top.then) ELSE UNCHANGED <<todo, exc, session>>)
    BY <1>2 DEF Wait
  <2> DEFINE q == [o EXCEPT !.tgt = Elapse(@, PollMs)]
  <2>2. /\ faults + q.fault <= MaxFaults /\ faults' = faults + q.fault
        /\ luck' = IF q.silent \/ luck = "silent" THEN "silent"
                   ELSE IF q.fault > 0 THEN "faulty" ELSE luck
        /\ tgt' = q.tgt
        /\ q.exc = "none" /\ q.val => GoOn(Top.then)
        /\ q.exc = "none" /\ ~q.val => UNCHANGED <<todo, exc, session>>
        /\ q.exc # "none" => Throw(q.exc)
    BY <2>1 DEF Ends
  <2>3. /\ o \in Outcomes /\ o.tgt \in Missed(tgt)
        /\ o.exc # "none" /\ o.fault = 0 => o.exc # "SerialException"
    BY <1>1, WaitKinds, PollWays
  <2>4. Same(tgt, o.tgt) /\ o.tgt \in Targets
    BY <1>1, <2>3, SameTargets
  <2>5. Elapse(o.tgt, PollMs) \in Targets /\ Same(o.tgt, Elapse(o.tgt, PollMs))
    BY <2>4, TimeType, TimeSame, PollAssumption, TRUE \in BOOLEAN
  <2>6. /\ q \in Outcomes /\ q.tgt = Elapse(o.tgt, PollMs)
        /\ q.exc = o.exc /\ q.val = o.val /\ q.fault = o.fault /\ q.silent = o.silent
    BY <2>3, <2>5 DEF Outcomes
  <2> HIDE DEF q
  <2>7. Same(tgt, tgt')
    BY <2>2, <2>4, <2>5, <2>6 DEF Same
  <2>8. PoweredInv'
    BY <2>7 DEF PoweredInv, Same
  <2>9. luck' = "calm" => luck = "calm" /\ q.fault = 0
    BY <2>2, <2>6, Accounting
  <2>10. ASSUME luck' = "calm" PROVE Advance \/ Breaks
    <3>1. CASE q.exc # "none"
      BY <2>2, <2>3, <2>6, <2>9, <2>10, <3>1, FailsCalmly
    <3>2. CASE q.exc = "none"
      <4>1. todo' \in {todo, Top.then \o Tail(todo)} /\ exc' = exc /\ session' = session
        BY <2>2, <3>2 DEF GoOn
      <4> QED BY <1>1, <2>7, <4>1 DEF Advance
    <3> QED BY <3>1, <3>2
  <2> QED BY <2>8, <2>9, <2>10
<1>3. CASE TimedOut \/ Stalled
  <2>1. tgt' \in Missed(tgt)
    BY <1>3 DEF TimedOut, Stalled, Missed
  <2>2. Same(tgt, tgt')
    BY <1>1, <2>1, SameTargets
  <2>3. luck' = "calm" => luck = "calm"
    BY <1>3 DEF TimedOut, Stalled
  <2>4. todo' = Top.else \o Tail(todo) /\ exc' = exc /\ session' = session
    BY <1>3 DEF TimedOut, Stalled, GoOn
  <2>5. PoweredInv'
    BY <2>2 DEF PoweredInv, Same
  <2> QED BY <1>1, <2>2, <2>3, <2>4, <2>5 DEF Advance
<1> QED BY <1>2, <1>3

\* The rest.
LEMMA OtherCalm ==
    ASSUME TypeInv, TodoInv, PoweredInv,
           ReadSib \/ Select \/ Use \/ Short \/ Skip \/ RaiseIt \/ Return
    PROVE  /\ PoweredInv'
           /\ luck' = "calm" => luck = "calm" /\ (Advance \/ Breaks \/ LocksUp \/ Finishes)
<1>1. tgt \in Targets /\ Same(tgt, tgt)
  BY DEF TypeInv, Same
<1>2. CASE ReadSib
  <2>1. Working /\ todo # <<>> /\ Top.op = "sib"
    BY <1>2 DEF ReadSib, Doing
  <2>2. PICK o \in decode_sib(tgt) : Ends(o, LAMBDA val : GoOn(<<>>))
    BY <1>2 DEF ReadSib
  <2>3. /\ faults + o.fault <= MaxFaults /\ faults' = faults + o.fault
        /\ luck' = IF o.silent \/ luck = "silent" THEN "silent"
                   ELSE IF o.fault > 0 THEN "faulty" ELSE luck
        /\ tgt' = o.tgt
        /\ o.exc = "none" => GoOn(<<>>)
    BY <2>2 DEF Ends
  <2>4. o \in Outcomes /\ o.tgt \in Missed(tgt) /\ (o.exc # "none" => o.fault = 1)
    BY <1>1, SibWays
  <2>5. luck' = "calm" => luck = "calm" /\ o.fault = 0
    BY <2>3, <2>4, Accounting
  <2>6. Same(tgt, tgt')
    BY <1>1, <2>3, <2>4, SameTargets
  <2>7. PoweredInv'
    BY <2>6 DEF PoweredInv, Same
  <2>8. ASSUME luck' = "calm" PROVE Advance
    <3>1. o.exc = "none"
      BY <2>4, <2>5, <2>8
    <3>2. todo' = Tail(todo) /\ exc' = exc /\ session' = session
      BY <2>1, <2>3, <3>1, Onwards DEF GoOn
    <3> QED BY <2>1, <2>6, <3>2 DEF Advance
  <2> QED BY <2>5, <2>7, <2>8
<1>3. CASE Select \/ Use \/ Short \/ Skip
  <2>1. /\ todo # <<>> /\ tgt' = tgt /\ luck' = luck
        /\ Top.op \in {"select", "use", "short", "except", "call"}
        /\ Top.op = "select" => GoOn(select(avr.sib))
        /\ Top.op # "select" => GoOn(<<>>)
    BY <1>3 DEF Select, Use, Short, Skip, Local, Doing
  <2>2. /\ exc' = exc /\ session' = session
        /\ Top.op = "select" => todo' = select(avr.sib) \o Tail(todo)
        /\ Top.op # "select" => todo' = Tail(todo)
    BY <2>1, Onwards DEF GoOn
  <2>3. PoweredInv'
    BY <2>1 DEF PoweredInv
  <2>4. Same(tgt, tgt')
    BY <1>1, <2>1 DEF Same
  <2> QED BY <2>1, <2>2, <2>3, <2>4 DEF Advance
<1>4. CASE RaiseIt
  <2>1. todo # <<>> /\ Top.op = "raise" /\ Throw(Top.exc) /\ tgt' = tgt /\ luck' = luck
    BY <1>4 DEF RaiseIt, Doing
  <2>2. Top \in Raises
    BY <2>1, TopKind, Kinds
  <2>3. todo \in Seq(Instructions(tgt.nvm, avr.drv)) /\ HandlersLast(todo)
    BY DEF TypeInv, TodoInv
  <2>4. PoweredInv'
    BY <2>1 DEF PoweredInv
  <2>5. Top.exc \in Raisable /\ Top = Raise1(Top.exc)
    BY <2>2 DEF Raises, Raise1
  <2>6. \/ Breaks
        \/ Top.exc \in {"LockedError", "SerialException"} /\ exc' = exc /\ session' = session
    <3>1. Top.exc \notin {"none", "running"}
      BY <2>5 DEF Raisable
    <3> QED BY <2>1, <2>3, <3>1, Thrown DEF Breaks
  <2>7. Breaks \/ LocksUp
    <3>1. Top.exc # "SerialException"
      BY <2>5 DEF Raisable
    <3> QED BY <2>1, <2>5, <2>6, <3>1 DEF LocksUp
  <2> QED BY <2>1, <2>4, <2>7
<1>5. CASE Return
  BY <1>5 DEF Return, Finishes, PoweredInv
<1> QED BY <1>2, <1>3, <1>4, <1>5

\* A step of the host.
LEMMA CalmStep ==
    ASSUME TypeInv, TodoInv, PoweredInv, HostStep
    PROVE  /\ PoweredInv' /\ Working /\ call' = call /\ before' = before
           /\ luck' = "calm" => luck = "calm" /\ (Advance \/ Breaks \/ LocksUp \/ Finishes)
<1>1. Working /\ call' = call /\ before' = before
  BY DEF HostStep, Return, Perform, Test, Wait, TimedOut, Stalled, ReadSib, Select, Use, Short,
     Skip, RaiseIt, Doing, Local
<1> QED BY <1>1, PerformCalm, TestCalm, WaitCalm, OtherCalm DEF HostStep

-----------------------------------------------------------------------------
(* Keys and modes: the effects, one by one.                                *)

\* What each frame of the sequences for keys and resets does.
LEMMA ResetEffects ==
    ASSUME NEW t \in Targets, NEW ms \in Nat
    PROVE  /\ HoldReset(t).on = t.on /\ HoldReset(t).keys = t.keys
           /\ HoldReset(t).mode = t.mode /\ (t.on => HoldReset(t).rst)
           /\ ReleaseReset(t, ms).on = t.on
           /\ ReleaseReset(t, ms).keys \in {t.keys, t.keys \cap {"NVMUs&te"}}
           /\ t.on /\ t.rst =>
                 /\ ReleaseReset(t, ms).keys = t.keys \cap {"NVMUs&te"}
                 /\ ~ReleaseReset(t, ms).rst
                 /\ t.keys = {} => ReleaseReset(t, ms).mode = "run"
           /\ UrowFinal(t, ms).on = t.on /\ UrowFinal(t, ms).keys = t.keys
           /\ UrowFinal(t, ms).rst = t.rst
<1>1. /\ HoldReset(t).on = t.on /\ HoldReset(t).keys = t.keys
      /\ HoldReset(t).mode = t.mode /\ (t.on => HoldReset(t).rst)
  BY DEF HoldReset, Targets
<1>2. /\ UrowFinal(t, ms).on = t.on /\ UrowFinal(t, ms).keys = t.keys
      /\ UrowFinal(t, ms).rst = t.rst
  BY DEF UrowFinal, Targets
<1>3. CASE ~(t.on /\ t.rst)
  <2>1. ReleaseReset(t, ms) = t
    BY <1>3 DEF ReleaseReset
  <2> QED BY <1>1, <1>2, <1>3, <2>1
<1>4. CASE t.on /\ t.rst
  <2> DEFINE mem == IF "NVMErase" \in t.keys THEN Blanked(t, Erased(t)) ELSE t.mem
             locked == mem.lockbits = "new"
             mode == CASE "NVMProg" \in t.keys /\ ~locked -> "prog"
                       [] "NVMUs&te" \in t.keys -> "urow"
                       [] OTHER -> "run"
             u == [t EXCEPT !.rst = FALSE, !.boot = ms, !.mem = mem, !.locked = locked,
                            !.keys = @ \cap {"NVMUs&te"}, !.mode = mode]
  <2>1. ReleaseReset(t, ms) = u
    BY <1>4 DEF ReleaseReset
  <2>2. t.keys = {} => mode = "run"
    OBVIOUS
  <2> HIDE DEF mem, locked, mode
  <2>3. u.on = t.on /\ u.keys = t.keys \cap {"NVMUs&te"} /\ u.rst = FALSE /\ u.mode = mode
    BY DEF Targets
  <2> HIDE DEF u
  <2> QED BY <1>1, <1>2, <2>1, <2>2, <2>3
<1> QED BY <1>3, <1>4

\* What the other frames do.
LEMMA LinkEffects ==
    ASSUME NEW t \in Targets
    PROVE  /\ [t EXCEPT !.on = TRUE].on /\ [t EXCEPT !.on = TRUE].keys = t.keys
           /\ DoubleBreak(t).on /\ DoubleBreak(t).keys = t.keys
           /\ \A b \in BOOLEAN : SetRsd(t, b).on = t.on /\ SetRsd(t, b).keys = t.keys
           /\ \A k : TakeKey(t, k).on = t.on /\ TakeKey(t, k).keys \subseteq t.keys \cup {k}
           /\ ClearUrowKey(t).on = t.on
           /\ ClearUrowKey(t).keys \in {t.keys, t.keys \ {"NVMUs&te"}}
           /\ t.on => ClearUrowKey(t).keys = t.keys \ {"NVMUs&te"}
           /\ ~Disable(t).on /\ Disable(t).rst = t.rst /\ Disable(t).mode = t.mode
<1>1. /\ [t EXCEPT !.on = TRUE].on /\ [t EXCEPT !.on = TRUE].keys = t.keys
      /\ DoubleBreak(t).on /\ DoubleBreak(t).keys = t.keys
  BY DEF DoubleBreak, Targets
<1>2. \A b \in BOOLEAN : SetRsd(t, b).on = t.on /\ SetRsd(t, b).keys = t.keys
  BY DEF SetRsd, Targets
<1>3. \A k : TakeKey(t, k).on = t.on /\ TakeKey(t, k).keys \subseteq t.keys \cup {k}
  BY DEF TakeKey, Targets
<1>4. /\ ClearUrowKey(t).on = t.on
      /\ ClearUrowKey(t).keys \in {t.keys, t.keys \ {"NVMUs&te"}}
      /\ t.on => ClearUrowKey(t).keys = t.keys \ {"NVMUs&te"}
  BY DEF ClearUrowKey, Targets
<1>5. ~Disable(t).on /\ Disable(t).rst = t.rst /\ Disable(t).mode = t.mode
  BY DEF Disable, Targets
<1> QED BY <1>1, <1>2, <1>3, <1>4, <1>5

\* The interface stays what it is.
LEMMA EffectInterface ==
    ASSUME tgt \in Targets, NEW i \in Frames, NEW ms \in Nat
    PROVE  Effect(i.f, i.x, ms).nvm = tgt.nvm
<1>1. i.f \in {"break", "double_break", "ldcs", "stcs", "key"} /\ (i.f = "key" => i.x \in Keys)
  BY DEF Frames
<1>2. Stcs(tgt, i.x, ms).nvm = tgt.nvm
  BY StcsType DEF Removes
<1>3. /\ [tgt EXCEPT !.on = TRUE].nvm = tgt.nvm /\ DoubleBreak(tgt).nvm = tgt.nvm
      /\ \A k \in Keys : TakeKey(tgt, k).nvm = tgt.nvm
  BY SimpleTypes DEF Keys, Calmly
<1> QED BY <1>1, <1>2, <1>3 DEF Effect

\* A quiet frame disables nothing and arms nothing.
LEMMA QuietEffect ==
    ASSUME tgt \in Targets, NEW i \in Frames, NEW ms \in Nat,
           i.f # "key", ~(i.f = "stcs" /\ i.x = "UPDIDIS")
    PROVE  LET u == Effect(i.f, i.x, ms)
           IN  /\ tgt.on \/ i.f = "break" => u.on
               /\ tgt.keys = {} => u.keys = {}
<1>1. i.f \in {"break", "double_break", "ldcs", "stcs"}
  BY DEF Frames
<1>2. CASE i.f \in {"break", "double_break", "ldcs"}
  BY <1>2, LinkEffects DEF Effect
<1>3. CASE i.f = "stcs"
  <2>1. Effect(i.f, i.x, ms) = Stcs(tgt, i.x, ms)
    BY <1>3 DEF Effect
  <2>2. CASE i.x = "CTRLA"
    BY <1>3, <2>1, <2>2, LinkEffects DEF Stcs
  <2>3. CASE i.x \in {"RESET_REQ", "RESET_REQ_off", "UROW_FINAL", "KEY_STATUS"}
    <3>1. /\ HoldReset(tgt).on = tgt.on /\ HoldReset(tgt).keys = tgt.keys
          /\ ReleaseReset(tgt, ms).on = tgt.on
          /\ ReleaseReset(tgt, ms).keys \in {tgt.keys, tgt.keys \cap {"NVMUs&te"}}
          /\ UrowFinal(tgt, ms).on = tgt.on /\ UrowFinal(tgt, ms).keys = tgt.keys
      BY ResetEffects
    <3>2. /\ ClearUrowKey(tgt).on = tgt.on
          /\ ClearUrowKey(tgt).keys \in {tgt.keys, tgt.keys \ {"NVMUs&te"}}
      BY LinkEffects
    <3> QED BY <1>3, <2>1, <2>3, <3>1, <3>2 DEF Stcs
  <2>4. CASE i.x \notin {"CTRLA", "RESET_REQ", "RESET_REQ_off", "UPDIDIS", "UROW_FINAL",
                         "KEY_STATUS"}
    BY <1>3, <2>1, <2>4 DEF Stcs
  <2> QED BY <1>3, <2>2, <2>3, <2>4
<1> QED BY <1>1, <1>2, <1>3

\* The sets of quiet instructions: those of the calls, and of a new object.
QuietSet(S, n) == S \in {Quiet3 \cup Uses(n), QuietDriving \cup Uses(n)}

\* The branches of a quiet instruction are quiet; it arms no key, does not
\* disable UPDI and does not raise LockedError.
LEMMA QuietKinds ==
    ASSUME NEW n, NEW S, QuietSet(S, n), NEW i \in S
    PROVE  /\ i.op \in {"if", "wait"} => i.then \in Seq(S) /\ i.else \in Seq(S)
           /\ i \in Frames => i.f # "key" /\ ~(i.f = "stcs" /\ i.x = "UPDIDIS")
           /\ i # Raise1("LockedError")
<1>1. /\ Quiet1 \subseteq S /\ Quiet2 \subseteq S /\ Seq(Quiet1) \subseteq Seq(S)
      /\ Seq(Quiet2) \subseteq Seq(S)
  <2>1. Quiet1 \subseteq S /\ Quiet2 \subseteq S
    BY QuietGrows DEF QuietSet
  <2> QED BY <2>1, SeqGrows
<1>2. i \in Quiet1 \cup Branching(Quiet1) \cup Branching(Quiet2) \cup Uses(n)
            \cup Handlers \cup Driving
  BY DEF QuietSet, QuietDriving, Quiet3, Quiet2
<1>3. CASE i \in Quiet1
  <2>1. i \in Plain /\ i.op \notin {"if", "wait"}
    BY <1>3 DEF Quiet1, Plain, Frames, Loads, Raises
  <2>2. i # Raise1("LockedError")
    BY <1>3 DEF Quiet1, Raise1
  <2>3. i \in Frames => i.f # "key"
    <3>1. \A j \in Frames : j.f = "key" => j \in [op : {"do"}, f : {"key"}, x : Keys]
      BY DEF Frames
    <3> QED BY <1>3, <3>1 DEF Quiet1
  <2>4. i \in Frames => ~(i.f = "stcs" /\ i.x = "UPDIDIS")
    <3>1. \A j \in Frames : j.f = "stcs" /\ j.x = "UPDIDIS" =>
                               j \in [op : {"do"}, f : {"stcs"}, x : {"UPDIDIS"}]
      BY DEF Frames
    <3> QED BY <1>3, <3>1 DEF Quiet1
  <2> QED BY <2>1, <2>2, <2>3, <2>4
<1>4. CASE i \in Branching(Quiet1) \cup Branching(Quiet2)
  <2>1. i.op \in {"if", "wait"} /\ i.then \in Seq(S) /\ i.else \in Seq(S)
    BY <1>1, <1>4 DEF Branching
  <2> QED BY <2>1 DEF Frames, Raise1
<1>5. CASE i \in Uses(n) \cup Handlers
  <2>1. i.op \in {"use", "except"}
    BY <1>5 DEF Uses, Handlers
  <2> QED BY <2>1 DEF Frames, Raise1
<1>6. CASE i \in Driving
  <2>1. CASE i \in Commands \cup {Removal}
    <3>1. i.op = "do" /\ i.f = "execute_nvm_command"
      BY <2>1 DEF Commands, Removal, Command
    <3> QED BY <3>1 DEF Frames, Raise1
  <2>2. CASE i \in {WaitReady, WaitFinish}
    <3>0. CASE ~(Driving \subseteq S)
      <4>1. i \in Quiet3 \cup Uses(n)
        BY <3>0 DEF QuietSet, QuietDriving
      <4>2. i.op = "wait" /\ i.until = "nvm_ready"
        BY <2>2 DEF WaitReady, WaitFinish
      <4>3. \A j \in Quiet3 \cup Uses(n) : ~(j.op = "wait" /\ j.until = "nvm_ready")
        <5>1. \A j \in Quiet1 \cup Uses(n) : j.op # "wait"
          BY DEF Quiet1, Plain, Frames, Loads, Raises, Uses
        <5>2. \A j \in Branching(Quiet1) \cup Branching(Quiet2) :
                 ~(j.op = "wait" /\ j.until = "nvm_ready")
          BY DEF Branching
        <5> QED BY <5>1, <5>2 DEF Quiet3, Quiet2
      <4> QED BY <4>1, <4>2, <4>3
    <3>1. CASE Driving \subseteq S
      <4>1. Timeout \in S /\ Removal \in S
        <5>1. Timeout \in Quiet1
          BY DEF Timeout, Quiet1, Plain, Raises, Raisable
        <5> QED BY <1>1, <3>1, <5>1 DEF Driving
      <4>2. <<Timeout>> \in Seq(S) /\ <<Removal>> \in Seq(S) /\ <<>> \in Seq(S)
        BY <4>1, OneStep
      <4>3. <<Removal>> \o <<Timeout>> \in Seq(S)
        BY <4>2, SeqJoins
      <4>4. /\ i.then \in {<<>>, <<Removal>>} /\ i.op = "wait"
            /\ i.else \in {<<Timeout>>, <<Removal>> \o <<Timeout>>}
        BY <2>2 DEF WaitReady, WaitFinish
      <4>5. i.then \in Seq(S) /\ i.else \in Seq(S)
        BY <4>2, <4>3, <4>4
      <4>6. i \notin Frames /\ i # Raise1("LockedError")
        BY <4>4 DEF Frames, Raise1
      <4> QED BY <4>5, <4>6
    <3> QED BY <3>0, <3>1
  <2> QED BY <1>6, <2>1, <2>2 DEF Driving
<1> QED BY <1>2, <1>3, <1>4, <1>5, <1>6

\* The choice of a driver is quiet.
LEMMA QuietSelect ==
    ASSUME NEW n \in Variants, NEW sib \in {n, "None"}, NEW S, QuietSet(S, n)
    PROVE  select(sib) \in Seq(S)
<1>0. /\ Seq(Quiet3) \subseteq Seq(S) /\ Seq(Uses(n)) \subseteq Seq(S)
  <2>1. Quiet3 \subseteq S /\ Uses(n) \subseteq S
    BY QuietGrows DEF QuietSet
  <2> QED BY <2>1, SeqGrows
<1>1. ASSUME NEW m \in {"P0", "P2", "P3", "P4", "P5"} PROVE use(m) \in Seq(Uses(m))
  <2>1. [op |-> "use", drv |-> m] \in Uses(m)
    BY DEF Uses, Drivers
  <2> QED BY <2>1, OneStep DEF use
<1>2. CASE sib = "P0"
  <2>1. use("P0") \in Seq(S) /\ init_datalink \in Seq(S)
    <3>1. n = "P0"
      BY <1>2
    <3> QED BY <1>0, <1>1, <3>1, QuietDatalink
  <2> QED BY <1>2, <2>1, SeqJoins DEF select
<1>3. CASE sib \in {"P2", "P3", "P4", "P5"}
  <2>1. n = sib /\ select(sib) = use(n)
    BY <1>3 DEF select
  <2> QED BY <1>0, <1>1, <1>3, <2>1
<1>4. CASE sib \notin {"P0", "P2", "P3", "P4", "P5"}
  <2>1. select(sib) = <<>>
    BY <1>4 DEF select
  <2> QED BY <2>1, Nothing
<1> QED BY <1>2, <1>3, <1>4

\* A quiet call stays quiet; its keys and UPDI stay what they were.
LEMMA QuietOn ==
    ASSUME TypeInv, NEW S, QuietSet(S, tgt.nvm), todo \in Seq(S), Advance
    PROVE  /\ todo' \in Seq(S) /\ tgt'.nvm = tgt.nvm
           /\ tgt.on \/ (Top \in Frames /\ Top.f = "break") => tgt'.on
           /\ tgt.keys = {} => tgt'.keys = {}
<1>1. todo # <<>> /\ Top \in S /\ Tail(todo) \in Seq(S)
  BY DEF Advance, Top
<1>2. /\ Top.op \in {"if", "wait"} => Top.then \in Seq(S) /\ Top.else \in Seq(S)
      /\ Top \in Frames => Top.f # "key" /\ ~(Top.f = "stcs" /\ Top.x = "UPDIDIS")
  BY <1>1, QuietKinds
<1>3. tgt \in Targets /\ tgt.nvm \in Variants /\ avr.sib \in {tgt.nvm, "None"}
  BY FieldTypes DEF TypeInv
<1>4. CASE Top.op = "do" /\ Top \in Frames
  <2>1. PICK ms \in Nat : tgt' = Effect(Top.f, Top.x, ms)
    BY <1>4 DEF Advance
  <2>2. todo' = Tail(todo)
    BY <1>4 DEF Advance
  <2> QED BY <1>1, <1>2, <1>3, <1>4, <2>1, <2>2, QuietEffect, EffectInterface
<1>5. CASE ~(Top.op = "do" /\ Top \in Frames)
  <2>1. Same(tgt, tgt')
    BY <1>5 DEF Advance
  <2>2. todo' \in Seq(S)
    <3>1. CASE Top.op \in {"if", "wait"}
      <4>1. todo' \in {todo, Top.then \o Tail(todo), Top.else \o Tail(todo)}
        BY <3>1 DEF Advance
      <4>2. Top.then \o Tail(todo) \in Seq(S) /\ Top.else \o Tail(todo) \in Seq(S)
        BY <1>1, <1>2, <3>1, SeqJoins
      <4> QED BY <4>1, <4>2
    <3>2. CASE Top.op = "select"
      <4>1. todo' = select(avr.sib) \o Tail(todo)
        BY <3>2 DEF Advance
      <4>2. select(avr.sib) \in Seq(S)
        BY <1>3, QuietSelect
      <4> QED BY <1>1, <4>1, <4>2, SeqJoins
    <3>3. CASE Top.op \notin {"if", "wait", "select"}
      <4>1. todo' = Tail(todo)
        BY <3>3 DEF Advance
      <4> QED BY <1>1, <4>1
    <3> QED BY <3>1, <3>2, <3>3
  <2>3. ~(Top \in Frames /\ Top.f = "break")
    <3>1. \A i \in Frames : i.op = "do"
      BY DEF Frames
    <3> QED BY <1>5, <3>1
  <2> QED BY <2>1, <2>2, <2>3 DEF Same
<1> QED BY <1>4, <1>5

-----------------------------------------------------------------------------
(* Keys and modes: each sequence, step by step.                            *)

\* A frame to one of the reset and key registers, carried out.
LEMMA StcsAdvance ==
    ASSUME TypeInv, Advance, NEW r \in Registers, Top = Stcs1(r)
    PROVE  todo' = Tail(todo) /\ \E ms \in Nat : tgt' = Stcs(tgt, r, ms)
<1>1. Top \in Frames /\ Top.op = "do" /\ Top.f = "stcs" /\ Top.x = r
  BY DEF Stcs1, Frames
<1>2. todo' = Tail(todo) /\ \E ms \in Nat : tgt' = Effect("stcs", r, ms)
  BY <1>1 DEF Advance
<1> QED BY <1>2 DEF Effect

\* A key, sent.
LEMMA KeyAdvance ==
    ASSUME TypeInv, Advance, NEW k \in Keys, Top = Key1(k)
    PROVE  todo' = Tail(todo) /\ tgt' = TakeKey(tgt, k)
<1>1. Top \in Frames /\ Top.op = "do" /\ Top.f = "key" /\ Top.x = k
  BY DEF Key1, Frames
<1>2. todo' = Tail(todo) /\ \E ms \in Nat : tgt' = Effect("key", k, ms)
  BY <1>1 DEF Advance
<1> QED BY <1>2 DEF Effect

\* A test that raises UpdiError unless it holds.
LEMMA NeedAdvance ==
    ASSUME Advance, NEW k, Top = NeedIf(k)
    PROVE  /\ todo' \in {<<>> \o Tail(todo), <<Raise1("UpdiError")>> \o Tail(todo)}
           /\ Same(tgt, tgt') /\ (k \in Keys \cup {"NVMPROG"} => tgt.on)
BY DEF Advance, NeedIf, Raise1

\* A wait.
LEMMA WaitAdvance ==
    ASSUME Advance, NEW u, NEW ms, NEW s, Top = Wait1(u, ms, s)
    PROVE  todo' \in {todo, <<>> \o Tail(todo), s \o Tail(todo)} /\ Same(tgt, tgt')
BY DEF Advance, Wait1

\* The end of leave_progmode.
LEMMA LeaveEnd == Rest(leave_progmode, 4) = <<>>
<1>1. leave_progmode \in Seq(AnyStep) /\ Len(leave_progmode) + 1 = 4
  BY LeavePlaces
<1>2. Rest(leave_progmode, Len(leave_progmode) + 1) = <<>>
  BY <1>1, RestEnds
<1> QED BY <1>1, <1>2

\* stop goes on as planned.
LEMMA LeavingOn ==
    ASSUME TypeInv, Leaving, Advance, before' = before
    PROVE  Leaving'
<1>1. PICK k \in 1..4 : /\ todo = Rest(leave_progmode, k)
                        /\ k = 4 => ~tgt.on
                        /\ before.session \in {"built", "started"} => LeavingAt(k)
  BY DEF Leaving
<1>2. tgt \in Targets
  BY DEF TypeInv
<1>3. k \in 1..3
  <2>1. Rest(leave_progmode, 4) = <<>>
    BY LeaveEnd
  <2> QED BY <1>1, <2>1 DEF Advance
<1>4. Top = leave_progmode[k] /\ Tail(todo) = Rest(leave_progmode, k + 1)
  <2>1. k \in 1..Len(leave_progmode) /\ leave_progmode \in Seq(AnyStep)
    BY <1>3, LeavePlaces
  <2> QED BY <1>1, <2>1, RestStep DEF Top
<1>5. ASSUME todo' = Tail(todo), k + 1 = 4 => ~tgt'.on,
             before.session \in {"built", "started"} => LeavingAt(k + 1)'
      PROVE  Leaving'
  <2>1. k + 1 \in 1..4
    BY <1>3
  <2> QED BY <1>4, <1>5, <2>1 DEF Leaving, LeavingAt
<1>6. CASE k = 1
  <2>1. Top = Stcs1("RESET_REQ")
    BY <1>4, <1>6, LeavePlaces
  <2>2. todo' = Tail(todo) /\ tgt' = HoldReset(tgt)
    BY <2>1, StcsAdvance DEF Registers, Stcs
  <2>3. Clean => (Clean /\ tgt.rst)'
    BY <1>2, <2>2, ResetEffects, 0 \in Nat DEF Clean
  <2> QED BY <1>1, <1>5, <1>6, <2>2, <2>3 DEF LeavingAt
<1>7. CASE k = 2
  <2>1. Top = Stcs1("RESET_REQ_off")
    BY <1>4, <1>7, LeavePlaces
  <2>2. todo' = Tail(todo) /\ \E ms \in Nat : tgt' = ReleaseReset(tgt, ms)
    BY <2>1, StcsAdvance DEF Registers, Stcs
  <2>3. Clean /\ tgt.rst => Running(tgt')
    BY <1>2, <2>2, ResetEffects DEF Clean, Running
  <2> QED BY <1>1, <1>5, <1>7, <2>2, <2>3 DEF LeavingAt
<1>8. CASE k = 3
  <2>1. Top = Stcs1("UPDIDIS")
    BY <1>4, <1>8, LeavePlaces
  <2>2. todo' = Tail(todo) /\ tgt' = Disable(tgt)
    BY <2>1, StcsAdvance DEF Registers, Stcs
  <2>3. ~tgt'.on /\ (Running(tgt) => Running(tgt'))
    BY <1>2, <2>2, LinkEffects DEF Running
  <2> QED BY <1>1, <1>5, <1>8, <2>2, <2>3 DEF LeavingAt
<1> QED BY <1>3, <1>6, <1>7, <1>8

\* stop ends with UPDI disabled and, in a session, with the program running.
LEMMA LeavingEnds ==
    ASSUME Leaving, todo = <<>>
    PROVE  ~tgt.on /\ (before.session \in {"built", "started"} => Running(tgt))
<1>1. PICK k \in 1..4 : /\ todo = Rest(leave_progmode, k)
                        /\ k = 4 => ~tgt.on
                        /\ before.session \in {"built", "started"} => LeavingAt(k)
  BY DEF Leaving
<1>2. k = 4
  <2>1. k \in 1..3 => Rest(leave_progmode, k) # <<>>
    BY LeavePlaces, RestStep, Nothing
  <2> QED BY <1>1, <2>1
<1> QED BY <1>1, <1>2 DEF LeavingAt

\* Nothing is raised by it.
LEMMA LeavingRaisesNothing ==
    ASSUME Leaving PROVE ~LocksUp
<1>1. PICK k \in 1..4 : todo = Rest(leave_progmode, k)
  BY DEF Leaving
<1>2. CASE k = 4
  <2>1. Rest(leave_progmode, 4) = <<>>
    BY LeaveEnd
  <2> QED BY <1>1, <1>2, <2>1 DEF LocksUp
<1>3. CASE k \in 1..3
  <2>1. k \in 1..Len(leave_progmode) /\ leave_progmode \in Seq(AnyStep) /\ <<>> \in Seq(AnyStep)
    BY <1>3, LeavePlaces, Nothing
  <2>2. Top = leave_progmode[k]
    BY <1>1, <2>1, RestStep DEF Top
  <2>3. Top.op = "do"
    BY <1>3, <2>2, LeavePlaces DEF Stcs1
  <2> QED BY <2>3 DEF LocksUp, Raise1
<1> QED BY <1>2, <1>3

-----------------------------------------------------------------------------
(* Keys and modes: start.                                                  *)

\* The instruction at a place of a program, with something after the program.
LEMMA AtPlace ==
    ASSUME NEW p \in Seq(AnyStep), NEW h \in Seq(AnyStep), NEW k \in 1..Len(p),
           todo = Rest(p, k) \o h
    PROVE  todo # <<>> /\ Top = p[k] /\ Tail(todo) = Rest(p, k + 1) \o h
BY RestStep DEF Top

\* The same with nothing after it.
LEMMA AtEndPlace ==
    ASSUME NEW p \in Seq(AnyStep), NEW k \in 1..Len(p), todo = Rest(p, k)
    PROVE  todo # <<>> /\ Top = p[k] /\ Tail(todo) = Rest(p, k + 1)
BY RestStep, Nothing DEF Top

\* The handler of start.
LEMMA HandlingType ==
    /\ LockedHandler \in Seq(Plain2)
    /\ Handling = <<Handling[1]>> /\ Handling[1] \in Handlers /\ Handling \in Seq(AnyStep)
    /\ Handling[1].op = "except" /\ Handling[1].excs = {"LockedError"}
    /\ Handling[1].handler = LockedHandler
<1>1. LockedHandler \in Seq(Plain2)
  <2>1. Raise("DeviceLockedError") \in Seq(Plain2)
    <3>1. [op |-> "raise", exc |-> "DeviceLockedError"] \in Plain2
      BY DEF Plain2, Plain, Raises, Raisable
    <3> QED BY <3>1, OneStep DEF Raise
  <2> QED BY <2>1, ProgmodeTypes, Nothing DEF LockedHandler
<1> DEFINE h == [op |-> "except", excs |-> {"LockedError"}, handler |-> LockedHandler]
<1>2. h \in Handlers /\ Handling = <<h>>
  BY <1>1, HandlerTypes DEF Handling
<1>3. h.op = "except" /\ h.excs = {"LockedError"} /\ h.handler = LockedHandler
  OBVIOUS
<1>4. h \in AnyStep
  BY <1>2 DEF AnyStep, Instructions
<1> HIDE DEF h
<1>5. <<h>> \in Seq(AnyStep) /\ <<h>>[1] = h
  BY <1>4, OneStep
<1> QED BY <1>1, <1>2, <1>3, <1>5

\* The ends of the two programs.
LEMMA EntryEnds ==
    /\ Rest(EntryProgram, 8) = <<>> /\ Rest(EntryProgram, 1) = EntryProgram
    /\ Rest(unlock, 6) = <<>> /\ Rest(unlock, 1) = unlock
<1>1. /\ EntryProgram \in Seq(AnyStep) /\ Len(EntryProgram) + 1 = 8
      /\ unlock \in Seq(AnyStep) /\ Len(unlock) + 1 = 6
  BY EntryPlaces, UnlockPlaces
<1>2. /\ Rest(EntryProgram, 1) = EntryProgram /\ Rest(unlock, 1) = unlock
      /\ Rest(EntryProgram, Len(EntryProgram) + 1) = <<>>
      /\ Rest(unlock, Len(unlock) + 1) = <<>>
  BY <1>1, RestEnds
<1> QED BY <1>1, <1>2

\* What the instructions of the two programs do to the key that is armed; k is
\* the place, release that of the release from reset.
LEMMA ArmedOn ==
    ASSUME TypeInv, Advance, NEW k \in Nat, NEW release \in Nat, ArmedUntil(k, release)
    PROVE  /\ Top = Stcs1("RESET_REQ") /\ (k + 1 < release \/ k + 1 = release) =>
                 todo' = Tail(todo) /\ ArmedUntil(k + 1, release)'
           /\ Top = Stcs1("RESET_REQ_off") /\ k = release =>
                 todo' = Tail(todo) /\ ArmedUntil(k + 1, release)'
           /\ \A key1 \in {"NVMProg", "NVMErase"} : Top = Key1(key1) /\ k + 1 < release =>
                 todo' = Tail(todo) /\ ArmedUntil(k + 1, release)'
           /\ \A test : Top = NeedIf(test) /\ (k + 1 < release \/ k > release) =>
                 \/ todo' = <<>> \o Tail(todo) /\ ArmedUntil(k + 1, release)'
                 \/ todo' = <<Raise1("UpdiError")>> \o Tail(todo)
           /\ \A u, ms, s : Top = Wait1(u, ms, s) /\ k > release =>
                 \/ todo' = todo /\ ArmedUntil(k, release)'
                 \/ todo' = <<>> \o Tail(todo) /\ ArmedUntil(k + 1, release)'
                 \/ todo' = s \o Tail(todo) /\ Clean'
<1>0. tgt \in Targets
  BY DEF TypeInv
<1>1. ASSUME Top = Stcs1("RESET_REQ"), k + 1 < release \/ k + 1 = release
      PROVE  todo' = Tail(todo) /\ ArmedUntil(k + 1, release)'
  <2>1. todo' = Tail(todo) /\ tgt' = HoldReset(tgt)
    BY <1>1, StcsAdvance DEF Registers, Stcs
  <2>2. tgt'.on /\ tgt'.keys = tgt.keys /\ tgt'.rst
    BY <1>0, <2>1, ResetEffects, 0 \in Nat DEF ArmedUntil
  <2> QED BY <1>1, <2>1, <2>2 DEF ArmedUntil
<1>2. ASSUME Top = Stcs1("RESET_REQ_off"), k = release
      PROVE  todo' = Tail(todo) /\ ArmedUntil(k + 1, release)'
  <2>1. todo' = Tail(todo) /\ \E ms \in Nat : tgt' = ReleaseReset(tgt, ms)
    BY <1>2, StcsAdvance DEF Registers, Stcs
  <2>2. tgt'.on /\ tgt'.keys = tgt.keys \cap {"NVMUs&te"}
    BY <1>0, <1>2, <2>1, ResetEffects DEF ArmedUntil
  <2>3. tgt'.keys = {}
    BY <2>2 DEF ArmedUntil
  <2> QED BY <1>2, <2>1, <2>2, <2>3 DEF ArmedUntil
<1>3. ASSUME NEW key1 \in {"NVMProg", "NVMErase"}, Top = Key1(key1), k + 1 < release
      PROVE  todo' = Tail(todo) /\ ArmedUntil(k + 1, release)'
  <2>1. todo' = Tail(todo) /\ tgt' = TakeKey(tgt, key1)
    BY <1>3, KeyAdvance DEF Keys
  <2>2. tgt'.on /\ tgt'.keys \subseteq tgt.keys \cup {key1}
    BY <1>0, <2>1, LinkEffects DEF ArmedUntil
  <2> QED BY <1>3, <2>1, <2>2 DEF ArmedUntil
<1>4. ASSUME NEW test, Top = NeedIf(test), k + 1 < release \/ k > release
      PROVE  \/ todo' = <<>> \o Tail(todo) /\ ArmedUntil(k + 1, release)'
             \/ todo' = <<Raise1("UpdiError")>> \o Tail(todo)
  <2>1. /\ todo' = <<>> \o Tail(todo) \/ todo' = <<Raise1("UpdiError")>> \o Tail(todo)
        /\ Same(tgt, tgt')
    BY <1>4, NeedAdvance
  <2>2. ArmedUntil(k + 1, release)'
    BY <1>4, <2>1 DEF ArmedUntil, Same
  <2> QED BY <2>1, <2>2
<1>5. ASSUME NEW u, NEW ms, NEW s, Top = Wait1(u, ms, s), k > release
      PROVE  \/ todo' = todo /\ ArmedUntil(k, release)'
             \/ todo' = <<>> \o Tail(todo) /\ ArmedUntil(k + 1, release)'
             \/ todo' = s \o Tail(todo) /\ Clean'
  <2>1. /\ \/ todo' = todo \/ todo' = <<>> \o Tail(todo) \/ todo' = s \o Tail(todo)
        /\ Same(tgt, tgt')
    BY <1>5, WaitAdvance
  <2>2. ArmedUntil(k, release)' /\ ArmedUntil(k + 1, release)' /\ Clean'
    BY <1>5, <2>1 DEF ArmedUntil, Same, Clean
  <2> QED BY <2>1, <2>2
<1> QED BY <1>1, <1>2, <1>3, <1>4, <1>5

\* The rest of a program is one.
LEMMA RestType ==
    ASSUME NEW S, NEW p \in Seq(S), NEW k \in 1..(Len(p) + 1)
    PROVE  Rest(p, k) \in Seq(S)
BY DEF Rest

\* So is that of enter_progmode.
LEMMA EntryRest ==
    Handling \in Seq(AnyStep) /\ \A k \in 1..8 : Rest(EntryProgram, k) \in Seq(AnyStep)
<1>1. EntryProgram \in Seq(AnyStep) /\ Len(EntryProgram) + 1 = 8
  BY EntryPlaces
<1>2. \A k \in 1..(Len(EntryProgram) + 1) : Rest(EntryProgram, k) \in Seq(AnyStep)
  BY <1>1, RestType
<1> QED BY <1>1, <1>2, HandlingType

\* What is left of a call, and nothing or a raise before it.
LEMMA Before ==
    ASSUME NEW S, NEW s \in Seq(S)
    PROVE  /\ <<>> \o s = s
           /\ todo' = <<Raise1("UpdiError")>> \o s => Raising'
<1>1. <<>> \o s = s
  OBVIOUS
<1>2. ASSUME todo' = <<Raise1("UpdiError")>> \o s PROVE Raising'
  <2> DEFINE r == Raise1("UpdiError")
             w == <<r>> \o s
  <2>1. r.op = "raise" /\ r.exc = "UpdiError"
    BY DEF Raise1
  <2> HIDE DEF r
  <2>2. w # <<>> /\ Head(w) = r
    OBVIOUS
  <2>3. todo' = w
    BY <1>2 DEF r
  <2> HIDE DEF w
  <2> QED BY <2>1, <2>2, <2>3 DEF Raising, Top
<1> QED BY <1>1, <1>2

\* In the middle of enter_progmode.
LEMMA EntryOn ==
    ASSUME TypeInv, Advance, setup' = setup, NEW k \in 1..8,
           todo = Rest(EntryProgram, k) \o Handling, ArmedUntil(k, 5)
    PROVE  Starting'
<1>1. Tail(todo) \in Seq(Instructions(tgt.nvm, avr.drv)) /\ todo # <<>>
  BY DEF TypeInv, Advance
<1>2. Handling' = Handling
  BY DEF Handling, LockedHandler, Options
<1>3. CASE k = 8
  <2>1. todo = Handling
    <3>1. todo = <<>> \o Handling
      BY <1>3, EntryEnds
    <3> QED BY <3>1, HandlingType, Before
  <2>2. Top = Handling[1] /\ Tail(todo) = <<>>
    <3> DEFINE h == Handling[1]
    <3>1. todo = <<h>>
      BY <2>1, HandlingType
    <3> HIDE DEF h
    <3> QED BY <3>1 DEF Top, h
  <2>3. Top.op = "except"
    BY <2>2, HandlingType
  <2>4. todo' = <<>> /\ Same(tgt, tgt')
    BY <2>2, <2>3 DEF Advance
  <2>5. Clean'
    BY <1>3, <2>4 DEF ArmedUntil, Same, Clean
  <2> QED BY <2>4, <2>5 DEF Starting
<1>4. CASE k \in 1..7
  <2>1. k \in 1..Len(EntryProgram) /\ EntryProgram \in Seq(AnyStep) /\ Handling \in Seq(AnyStep)
    BY <1>4, EntryPlaces, HandlingType
  <2>2. Top = EntryProgram[k] /\ Tail(todo) = Rest(EntryProgram, k + 1) \o Handling
    BY <2>1, AtPlace
  <2>3. /\ <<>> \o Tail(todo) = Tail(todo)
        /\ todo' = <<Raise1("UpdiError")>> \o Tail(todo) => Raising'
    BY <1>1, Before
  <2>4. ASSUME todo' = Tail(todo), ArmedUntil(k + 1, 5)' PROVE Starting'
    <3>1. k + 1 \in 1..8
      BY <1>4
    <3> QED BY <1>2, <2>2, <2>4, <3>1 DEF Starting, ArmedUntil
  <2>5. k \in Nat /\ 5 \in Nat
    BY <1>4
  <2>6. CASE k \in {1, 4}
    <3>1. Top = Stcs1("RESET_REQ") /\ (k + 1 < 5 \/ k + 1 = 5)
      BY <2>2, <2>6, EntryPlaces
    <3> QED BY <2>4, <2>5, <3>1, ArmedOn
  <2>7. CASE k = 2
    <3>1. Top = Key1("NVMProg") /\ k + 1 < 5
      BY <2>2, <2>7, EntryPlaces
    <3> QED BY <2>4, <2>5, <3>1, ArmedOn
  <2>8. CASE k = 5
    <3>1. Top = Stcs1("RESET_REQ_off") /\ k = 5
      BY <2>2, <2>8, EntryPlaces
    <3> QED BY <2>4, <2>5, <3>1, ArmedOn
  <2>9. CASE k \in {3, 7}
    <3>1. \E test : Top = NeedIf(test)
      BY <2>2, <2>9, EntryPlaces
    <3>2. k + 1 < 5 \/ k > 5
      BY <2>9
    <3>3. \/ todo' = <<>> \o Tail(todo) /\ ArmedUntil(k + 1, 5)'
          \/ todo' = <<Raise1("UpdiError")>> \o Tail(todo)
      BY <2>5, <3>1, <3>2, ArmedOn
    <3>4. Raising' => Starting'
      BY DEF Starting
    <3> QED BY <2>3, <2>4, <3>3, <3>4
  <2>10. CASE k = 6
    <3> DEFINE s == <<Raise1("LockedError")>>
    <3>1. Top = Wait1("unlocked", 100, s) /\ k > 5
      BY <2>2, <2>10, EntryPlaces
    <3>2. \/ todo' = todo /\ ArmedUntil(k, 5)'
          \/ todo' = <<>> \o Tail(todo) /\ ArmedUntil(k + 1, 5)'
          \/ todo' = s \o Tail(todo) /\ Clean'
      BY <2>5, <3>1, ArmedOn
    <3>3. ASSUME todo' = todo, ArmedUntil(k, 5)' PROVE Starting'
      BY <1>2, <3>3 DEF Starting, ArmedUntil
    <3>4. ASSUME todo' = s \o Tail(todo), Clean' PROVE Starting'
      <4>1. todo' = Raise("LockedError") \o (Rest(EntryProgram, 7) \o Handling)
        <5>1. Raise("LockedError") = s
          BY DEF Raise, Raise1
        <5>2. k + 1 = 7
          BY <2>10
        <5>3. todo' = s \o (Rest(EntryProgram, 7) \o Handling)
          BY <2>2, <3>4, <5>2
        <5> QED BY <5>1, <5>3
      <4> QED BY <1>2, <3>4, <4>1 DEF Starting
    <3> HIDE DEF s
    <3> QED BY <2>3, <2>4, <3>2, <3>3, <3>4
  <2> QED BY <1>4, <2>6, <2>7, <2>8, <2>9, <2>10
<1> QED BY <1>3, <1>4

\* In the middle of unlock.
LEMMA UnlockOn ==
    ASSUME TypeInv, Advance, NEW k \in 1..6, todo = Rest(unlock, k), ArmedUntil(k, 4)
    PROVE  Starting'
<1>1. Tail(todo) \in Seq(Instructions(tgt.nvm, avr.drv)) /\ todo # <<>>
  BY DEF TypeInv, Advance
<1>2. k \in 1..5
  BY <1>1, EntryEnds
<1>3. k \in 1..Len(unlock) /\ unlock \in Seq(AnyStep)
  BY <1>2, UnlockPlaces
<1>4. Top = unlock[k] /\ Tail(todo) = Rest(unlock, k + 1)
  BY <1>3, AtEndPlace
<1>5. /\ <<>> \o Tail(todo) = Tail(todo)
      /\ todo' = <<Raise1("UpdiError")>> \o Tail(todo) => Raising'
  BY <1>1, Before
<1>6. ASSUME todo' = Tail(todo), ArmedUntil(k + 1, 4)' PROVE Starting'
  <2>1. k + 1 \in 1..6
    BY <1>2
  <2> QED BY <1>4, <1>6, <2>1 DEF Starting, ArmedUntil
<1>7. k \in Nat /\ 4 \in Nat
  BY <1>2
<1>8. Raising' => Starting'
  BY DEF Starting
<1>9. CASE k = 1
  <2>1. Top = Key1("NVMErase") /\ k + 1 < 4
    BY <1>4, <1>9, UnlockPlaces
  <2> QED BY <1>6, <1>7, <2>1, ArmedOn
<1>10. CASE k = 2
  <2>1. Top = NeedIf("NVMErase") /\ k + 1 < 4
    BY <1>4, <1>10, UnlockPlaces
  <2>2. \/ todo' = <<>> \o Tail(todo) /\ ArmedUntil(k + 1, 4)'
        \/ todo' = <<Raise1("UpdiError")>> \o Tail(todo)
    BY <1>7, <2>1, ArmedOn
  <2> QED BY <1>5, <1>6, <1>8, <2>2
<1>11. CASE k = 3
  <2>1. Top = Stcs1("RESET_REQ") /\ k + 1 = 4
    BY <1>4, <1>11, UnlockPlaces
  <2> QED BY <1>6, <1>7, <2>1, ArmedOn
<1>12. CASE k = 4
  <2>1. Top = Stcs1("RESET_REQ_off") /\ k = 4
    BY <1>4, <1>12, UnlockPlaces
  <2> QED BY <1>6, <1>7, <2>1, ArmedOn
<1>13. CASE k = 5
  <2> DEFINE s == <<Raise1("UpdiError")>>
  <2>1. Top = Wait1("unlocked", 500, s) /\ k > 4
    BY <1>4, <1>13, UnlockPlaces
  <2>2. \/ todo' = todo /\ ArmedUntil(k, 4)'
        \/ todo' = <<>> \o Tail(todo) /\ ArmedUntil(k + 1, 4)'
        \/ todo' = s \o Tail(todo) /\ Clean'
    BY <1>7, <2>1, ArmedOn
  <2>3. ASSUME todo' = todo, ArmedUntil(k, 4)' PROVE Starting'
    BY <2>3 DEF Starting, ArmedUntil
  <2> QED BY <1>5, <1>6, <1>8, <2>2, <2>3
<1> QED BY <1>2, <1>9, <1>10, <1>11, <1>12, <1>13

\* The instruction of start that raises LockedError.
LEMMA LockedTop ==
    ASSUME todo = Raise("LockedError") \o (Rest(EntryProgram, 7) \o Handling)
    PROVE  Top = Raise1("LockedError")
<1> DEFINE r == Raise1("LockedError")
           s == Rest(EntryProgram, 7) \o Handling
<1>1. s \in Seq(AnyStep)
  <2>1. Rest(EntryProgram, 7) \in Seq(AnyStep) /\ Handling \in Seq(AnyStep)
    BY EntryRest, HandlingType
  <2> QED BY <2>1, SeqJoins
<1>2. todo = <<r>> \o s
  BY DEF Raise, Raise1
<1> HIDE DEF r, s
<1>3. Head(<<r>> \o s) = r
  BY <1>1
<1> QED BY <1>2, <1>3 DEF Top, r

\* In start it is the only one.
LEMMA LockedPlace ==
    ASSUME Starting, todo # <<>>, Top = Raise1("LockedError")
    PROVE  todo = Raise("LockedError") \o (Rest(EntryProgram, 7) \o Handling) /\ Clean
<1>1. Top.op = "raise" /\ Top.exc = "LockedError"
  BY DEF Raise1
<1>2. todo # start
  <2> DEFINE i == [op |-> "if", test |-> "NVMPROG", then |-> <<>>, else |-> EntryProgram]
  <2>1. start = <<i>> \o Handling
    BY DEF start, Handling, LockedHandler, Try, enter_progmode, If, EntryProgram
  <2>2. i.op = "if"
    OBVIOUS
  <2> HIDE DEF i
  <2>3. Handling \in Seq(AnyStep)
    BY HandlingType
  <2>4. Head(<<i>> \o Handling) = i
    BY <2>3
  <2> QED BY <1>1, <2>1, <2>2, <2>4 DEF Top
<1>3. ASSUME NEW k \in 1..8, todo = Rest(EntryProgram, k) \o Handling PROVE FALSE
  <2>1. CASE k = 8
    <3>1. todo = Handling
      <4>1. todo = <<>> \o Handling
        BY <1>3, <2>1, EntryEnds
      <4> QED BY <4>1, HandlingType, Before
    <3> DEFINE h == Handling[1]
    <3>2. todo = <<h>> /\ h.op = "except"
      BY <3>1, HandlingType
    <3> HIDE DEF h
    <3>3. Top = h
      BY <3>2 DEF Top
    <3> QED BY <1>1, <3>2, <3>3
  <2>2. CASE k \in 1..7
    <3>1. k \in 1..Len(EntryProgram) /\ EntryProgram \in Seq(AnyStep) /\ Handling \in Seq(AnyStep)
      BY <2>2, EntryPlaces, HandlingType
    <3>2. Top = EntryProgram[k]
      BY <1>3, <3>1, AtPlace
    <3>3. Top.op \in {"do", "if", "wait"}
      BY <2>2, <3>2, EntryPlaces DEF Stcs1, Key1, NeedIf, Wait1
    <3> QED BY <1>1, <3>3
  <2> QED BY <2>1, <2>2
<1>4. ASSUME NEW k \in 1..6, todo = Rest(unlock, k) PROVE FALSE
  <2>1. k \in 1..5
    BY <1>4, EntryEnds
  <2>2. k \in 1..Len(unlock) /\ unlock \in Seq(AnyStep)
    BY <2>1, UnlockPlaces
  <2>3. Top = unlock[k]
    BY <1>4, <2>2, AtEndPlace
  <2>4. Top.op \in {"do", "if", "wait"}
    BY <2>1, <2>3, UnlockPlaces DEF Stcs1, Key1, NeedIf, Wait1
  <2> QED BY <1>1, <2>4
<1>5. ~Raising
  BY <1>1 DEF Raising
<1> QED BY <1>2, <1>3, <1>4, <1>5 DEF Starting

\* There it is caught.
LEMMA Caught ==
    ASSUME TypeInv, TodoInv, Throw("LockedError"),
           todo = Raise("LockedError") \o (Rest(EntryProgram, 7) \o Handling)
    PROVE  todo' = LockedHandler
<1> DEFINE n == Len(todo)
           I == {i \in 1..n : todo[i].op = "except" /\ "LockedError" \in todo[i].excs}
<1>1. todo \in Seq(Instructions(tgt.nvm, avr.drv)) /\ HandlersLast(todo) /\ n \in Nat
  BY DEF TypeInv, TodoInv
<1>2. n \in 1..n /\ todo[n] = Handling[1]
  <2> DEFINE r == Raise1("LockedError")
             q == Rest(EntryProgram, 7)
             h == Handling[1]
  <2>1. q \in Seq(AnyStep) /\ h \in Handlers /\ Handling = <<h>>
    BY EntryRest, HandlingType
  <2>2. todo = <<r>> \o (q \o <<h>>)
    BY <2>1 DEF Raise, Raise1
  <2> HIDE DEF r, q, h
  <2>3. h \in AnyStep
    BY <2>1 DEF AnyStep, Instructions
  <2> DEFINE w == q \o <<h>>
  <2>4. w \in Seq(AnyStep) /\ Len(w) = Len(q) + 1 /\ Len(q) \in Nat /\ w[Len(w)] = h
    BY <2>1, <2>3
  <2>5. todo = <<r>> \o w
    BY <2>2
  <2> HIDE DEF w
  <2>6. Len(<<r>> \o w) = Len(w) + 1 /\ (<<r>> \o w)[Len(w) + 1] = w[Len(w)]
    BY <2>4
  <2>7. n = Len(w) + 1 /\ todo[n] = h
    BY <2>4, <2>5, <2>6
  <2> HIDE DEF n
  <2>8. n \in 1..n
    BY <2>4, <2>7
  <2> QED BY <2>7, <2>8 DEF h
<1> HIDE DEF n
<1>3. n \in I
  BY <1>2, HandlingType
<1>4. ASSUME NEW i \in I PROVE i = n
  <2>1. todo[i] \in Handlers
    BY <1>1, Kinds DEF n
  <2> QED BY <1>1, <2>1 DEF HandlersLast, n
<1>5. I = {n}
  BY <1>3, <1>4
<1>6. SelectInSubSeq(todo, 1, Len(todo), LAMBDA o : o.op = "except" /\ "LockedError" \in o.excs)
      = IF I # {} THEN Min(I) ELSE 0
  BY DEF SelectInSubSeq, n
<1> HIDE DEF I
<1>7. Min(I) = n
  BY <1>1, <1>5 DEF Min
<1>8. n # 0
  BY <1>2
<1>9. todo' = todo[n].handler \o SubSeq(todo, n + 1, n)
  BY <1>5, <1>6, <1>7, <1>8 DEF Throw, n
<1>10. SubSeq(todo, n + 1, n) = <<>>
  BY <1>1
<1>11. LockedHandler \o <<>> = LockedHandler
  BY HandlingType
<1> QED BY <1>2, <1>9, <1>10, <1>11, HandlingType

\* A raise does not go on by itself.
LEMMA NoAdvance ==
    ASSUME Top.op = "raise" PROVE ~Advance
BY DEF Advance

\* start goes on as planned.
LEMMA StartingOn ==
    ASSUME TypeInv, Starting, Advance, setup' = setup
    PROVE  Starting'
<1>1. Handling' = Handling
  BY DEF Handling, LockedHandler, Options
<1>2. CASE todo = start /\ Clean
  <2> DEFINE i == [op |-> "if", test |-> "NVMPROG", then |-> <<>>, else |-> EntryProgram]
  <2>1. start = <<i>> \o Handling
    BY DEF start, Handling, LockedHandler, Try, enter_progmode, If, EntryProgram
  <2>2. i.op = "if" /\ i.then = <<>> /\ i.else = EntryProgram
    OBVIOUS
  <2> HIDE DEF i
  <2>3. Top = i /\ Tail(todo) = Handling
    <3>1. Handling \in Seq(AnyStep)
      BY HandlingType
    <3> QED BY <1>2, <2>1, <3>1 DEF Top
  <2>4. Same(tgt, tgt') /\ (todo' = <<>> \o Handling \/ todo' = EntryProgram \o Handling)
    BY <2>2, <2>3 DEF Advance
  <2>5. ArmedUntil(1, 5)' /\ ArmedUntil(8, 5)'
    BY <1>2, <2>4 DEF Clean, Same, ArmedUntil
  <2>6. \/ todo' = Rest(EntryProgram, 8) \o Handling
        \/ todo' = Rest(EntryProgram, 1) \o Handling
    BY <2>4, EntryEnds
  <2>7. 1 \in 1..8 /\ 8 \in 1..8
    OBVIOUS
  <2> QED BY <1>1, <2>5, <2>6, <2>7 DEF Starting, ArmedUntil
<1>3. CASE \E k \in 1..8 : todo = Rest(EntryProgram, k) \o Handling /\ ArmedUntil(k, 5)
  BY <1>3, EntryOn
<1>4. CASE todo = Raise("LockedError") \o (Rest(EntryProgram, 7) \o Handling)
  <2>1. Top = Raise1("LockedError")
    BY <1>4, LockedTop
  <2>2. Top.op = "raise"
    BY <2>1 DEF Raise1
  <2> QED BY <2>2, NoAdvance
<1>5. CASE \E k \in 1..6 : todo = Rest(unlock, k) /\ ArmedUntil(k, 4)
  BY <1>5, UnlockOn
<1>6. CASE todo = <<>>
  BY <1>6 DEF Advance
<1>7. CASE Raising
  BY <1>7, NoAdvance DEF Raising
<1> QED BY <1>2, <1>3, <1>4, <1>5, <1>6, <1>7 DEF Starting

\* A caught LockedError goes on with the handler of start.
LEMMA StartingCaught ==
    ASSUME TypeInv, TodoInv, Starting, LocksUp, setup' = setup, exc = "running"
    PROVE  Starting'
<1>1. Top.op = "raise" /\ Top.exc = "LockedError" /\ todo # <<>> /\ Throw("LockedError")
  BY DEF LocksUp, Raise1
<1>2. todo = Raise("LockedError") \o (Rest(EntryProgram, 7) \o Handling) /\ Clean
  BY LockedPlace DEF LocksUp
<1>3. todo' = LockedHandler
  BY <1>1, <1>2, Caught
<1>4. Clean'
  BY <1>2 DEF LocksUp, Clean
<1>5. CASE LockedHandler = <<>>
  BY <1>3, <1>4, <1>5 DEF Starting
<1>6. CASE LockedHandler = unlock
  <2>1. todo' = Rest(unlock, 1) /\ ArmedUntil(1, 4)' /\ 1 \in 1..6
    BY <1>3, <1>4, <1>6, EntryEnds DEF Clean, ArmedUntil
  <2> QED BY <2>1 DEF Starting, ArmedUntil
<1>7. CASE LockedHandler = Raise("DeviceLockedError")
  <2> DEFINE r == [op |-> "raise", exc |-> "DeviceLockedError"]
  <2>1. todo' = <<r>>
    BY <1>3, <1>7 DEF Raise
  <2>2. r.op = "raise" /\ r.exc = "DeviceLockedError"
    OBVIOUS
  <2> HIDE DEF r
  <2>3. todo' # <<>> /\ Top' = r
    BY <2>1 DEF Top
  <2> QED BY <2>2, <2>3 DEF Starting, Raising
<1> QED BY <1>5, <1>6, <1>7 DEF LockedHandler

\* start ends without a key.
LEMMA StartingEnds ==
    ASSUME Starting, todo = <<>> PROVE Clean
<1>1. todo # start
  <2> DEFINE i == [op |-> "if", test |-> "NVMPROG", then |-> <<>>, else |-> EntryProgram]
  <2>1. start = <<i>> \o Handling
    BY DEF start, Handling, LockedHandler, Try, enter_progmode, If, EntryProgram
  <2> HIDE DEF i
  <2>2. Handling \in Seq(AnyStep)
    BY HandlingType
  <2> QED BY <2>1, <2>2
<1>2. ASSUME NEW k \in 1..8, todo = Rest(EntryProgram, k) \o Handling PROVE FALSE
  <2>1. Rest(EntryProgram, k) \in Seq(AnyStep) /\ Handling \in Seq(AnyStep)
    BY EntryRest, HandlingType
  <2> DEFINE h == Handling[1]
             q == Rest(EntryProgram, k)
  <2>2. Handling = <<h>> /\ q \in Seq(AnyStep) /\ todo = q \o Handling
    BY <1>2, <2>1, HandlingType
  <2> HIDE DEF h, q
  <2>3. q \o <<h>> # <<>>
    BY <2>2
  <2> QED BY <2>2, <2>3
<1>3. todo # Raise("LockedError") \o (Rest(EntryProgram, 7) \o Handling)
  <2> DEFINE s == Rest(EntryProgram, 7) \o Handling
             r == Raise1("LockedError")
  <2>1. s \in Seq(AnyStep)
    <3>1. Rest(EntryProgram, 7) \in Seq(AnyStep) /\ Handling \in Seq(AnyStep)
      BY EntryRest, HandlingType
    <3> QED BY <3>1, SeqJoins
  <2>2. Raise("LockedError") \o s = <<r>> \o s
    BY DEF Raise, Raise1
  <2> HIDE DEF s, r
  <2>3. <<r>> \o s # <<>>
    BY <2>1
  <2> QED BY <2>2, <2>3 DEF s
<1>4. ASSUME NEW k \in 1..6, todo = Rest(unlock, k), ArmedUntil(k, 4) PROVE Clean
  <2>1. k \in 1..5 => k \in 1..Len(unlock) /\ unlock \in Seq(AnyStep)
    BY UnlockPlaces
  <2>2. k \in 1..5 => Rest(unlock, k) # <<>>
    BY <2>1, RestStep, Nothing
  <2>3. k = 6
    BY <1>4, <2>2
  <2> QED BY <1>4, <2>3 DEF ArmedUntil, Clean
<1>5. ~Raising
  BY DEF Raising
<1> QED BY <1>1, <1>2, <1>3, <1>4, <1>5 DEF Starting

-----------------------------------------------------------------------------
(* Keys and modes: write_user_row_locked_device.                           *)

\* A call that is about to raise does nothing but frames before it does.
LEMMA DoomedOn ==
    ASSUME TypeInv, Doomed, Advance PROVE Doomed'
<1>1. todo \in Seq(Instructions(tgt.nvm, avr.drv)) /\ todo # <<>>
  BY DEF TypeInv, Advance
<1>2. PICK j \in 1..Len(todo) :
         /\ todo[j].op = "raise" /\ todo[j].exc = "UpdiError"
         /\ \A i \in 1..(j - 1) : todo[i].op = "do"
  BY DEF Doomed
<1>3. Top = todo[1] /\ Len(todo) \in Nat
  BY <1>1 DEF Top
<1>4. j # 1
  BY <1>2, <1>3, NoAdvance
<1>5. j \in 2..Len(todo) /\ Top.op = "do"
  BY <1>1, <1>2, <1>3, <1>4
<1>6. todo' = Tail(todo)
  BY <1>5 DEF Advance
<1>7. Len(todo') = Len(todo) - 1 /\ \A i \in 1..Len(todo') : todo'[i] = todo[i + 1]
  BY <1>1, <1>6
<1>8. j - 1 \in 1..Len(todo') /\ todo'[j - 1] = todo[j]
  <2>1. j - 1 \in 1..Len(todo') /\ (j - 1) + 1 = j
    BY <1>3, <1>5, <1>7
  <2> QED BY <1>7, <2>1
<1>9. \A i \in 1..((j - 1) - 1) : todo'[i].op = "do"
  <2> SUFFICES ASSUME NEW i \in 1..((j - 1) - 1) PROVE todo'[i].op = "do"
    OBVIOUS
  <2>1. i \in 1..Len(todo') /\ i + 1 \in 1..(j - 1)
    BY <1>3, <1>5, <1>7
  <2> QED BY <1>2, <1>7, <2>1
<1> QED BY <1>2, <1>8, <1>9 DEF Doomed

\* What raises at once, and what resets before it does.
LEMMA Dooms ==
    ASSUME NEW S, NEW s \in Seq(S)
    PROVE  /\ todo' = <<Raise1("UpdiError")>> \o s => Doomed'
           /\ todo' = (<<Stcs1("RESET_REQ")>> \o <<Stcs1("RESET_REQ_off")>>
                       \o <<Raise1("UpdiError")>>) \o s => Doomed'
<1> DEFINE r == Raise1("UpdiError")
           a == Stcs1("RESET_REQ")
           b == Stcs1("RESET_REQ_off")
<1>1. r.op = "raise" /\ r.exc = "UpdiError" /\ a.op = "do" /\ b.op = "do"
  BY DEF Raise1, Stcs1
<1> HIDE DEF r, a, b
<1>2. ASSUME todo' = <<r>> \o s PROVE Doomed'
  <2> DEFINE w == <<r>> \o s
  <2>1. Len(w) \in Nat /\ Len(w) >= 1 /\ w[1] = r
    OBVIOUS
  <2>2. todo' = w
    BY <1>2
  <2> HIDE DEF w
  <2>3. 1 \in 1..Len(todo') /\ todo'[1].op = "raise" /\ todo'[1].exc = "UpdiError"
    BY <1>1, <2>1, <2>2
  <2>4. \A i \in 1..(1 - 1) : todo'[i].op = "do"
    OBVIOUS
  <2> QED BY <2>3, <2>4 DEF Doomed
<1>3. ASSUME todo' = (<<a>> \o <<b>> \o <<r>>) \o s PROVE Doomed'
  <2> DEFINE p == <<a>> \o <<b>> \o <<r>>
             w == p \o s
             T == S \cup {a, b, r}
  <2>1. p \in Seq(T) /\ Len(p) = 3 /\ p[1] = a /\ p[2] = b /\ p[3] = r
    OBVIOUS
  <2>2. s \in Seq(T)
    BY SeqGrows
  <2> HIDE DEF p, T
  <2>3. /\ Len(w) = Len(p) + Len(s) /\ Len(s) \in Nat
        /\ \A i \in 1..Len(p) : w[i] = p[i]
    BY <2>1, <2>2, Joined
  <2>4. todo' = w
    BY <1>3 DEF p
  <2> HIDE DEF w
  <2>5. Len(todo') >= 3 /\ Len(todo') \in Nat /\ todo'[1] = a /\ todo'[2] = b /\ todo'[3] = r
    BY <2>1, <2>3, <2>4
  <2>6. 3 \in 1..Len(todo') /\ todo'[3].op = "raise" /\ todo'[3].exc = "UpdiError"
    BY <1>1, <2>5
  <2>7. \A i \in 1..(3 - 1) : todo'[i].op = "do"
    <3>1. \A i \in 1..(3 - 1) : i = 1 \/ i = 2
      OBVIOUS
    <3> QED BY <1>1, <2>5, <3>1
  <2> QED BY <2>6, <2>7 DEF Doomed
<1> QED BY <1>2, <1>3 DEF r, a, b

\* The end of write_user_row_locked_device.
LEMMA RowEnd == Rest(write_user_row_locked_device, 12) = <<>>
<1>1. /\ write_user_row_locked_device \in Seq(AnyStep)
      /\ Len(write_user_row_locked_device) + 1 = 12
  BY RowPlaces
<1>2. Rest(write_user_row_locked_device, Len(write_user_row_locked_device) + 1) = <<>>
  BY <1>1, RestEnds
<1> QED BY <1>1, <1>2

\* It goes on as planned.
LEMMA RowOn ==
    ASSUME TypeInv, WritingRow, Advance PROVE WritingRow'
<1> DEFINE p == write_user_row_locked_device
<1>1. CASE Doomed
  BY <1>1, DoomedOn DEF WritingRow
<1>2. CASE \E k \in 1..12 : todo = Rest(write_user_row_locked_device, k) /\ RowAt(k)
  <2>1. PICK k \in 1..12 : todo = Rest(p, k) /\ RowAt(k)
    BY <1>2
  <2>2. Tail(todo) \in Seq(Instructions(tgt.nvm, avr.drv)) /\ todo # <<>> /\ tgt \in Targets
    BY DEF TypeInv, Advance
  <2>3. k \in 1..11
    BY <2>1, <2>2, RowEnd
  <2>4. k \in 1..Len(p) /\ p \in Seq(AnyStep)
    BY <2>3, RowPlaces
  <2>5. Top = p[k] /\ Tail(todo) = Rest(p, k + 1)
    BY <2>1, <2>4, AtEndPlace
  <2>6. /\ <<>> \o Tail(todo) = Tail(todo)
        /\ todo' = <<Raise1("UpdiError")>> \o Tail(todo) => Doomed'
        /\ todo' = (<<Stcs1("RESET_REQ")>> \o <<Stcs1("RESET_REQ_off")>>
                    \o <<Raise1("UpdiError")>>) \o Tail(todo) => Doomed'
    BY <2>2, Before, Dooms
  <2>7. Doomed' => WritingRow'
    BY DEF WritingRow
  <2>8. ASSUME todo' = Tail(todo), RowAt(k + 1)' PROVE WritingRow'
    <3>1. k + 1 \in 1..12
      BY <2>3
    <3> QED BY <2>5, <2>8, <3>1 DEF WritingRow, RowAt
  <2>9. CASE k = 1
    <3>1. Top = Key1("NVMUs&te")
      BY <2>5, <2>9, RowPlaces
    <3>2. todo' = Tail(todo)
      BY <3>1, KeyAdvance DEF Keys
    <3>3. RowAt(k + 1)'
      BY <2>9 DEF RowAt
    <3> QED BY <2>8, <3>2, <3>3
  <2>10. CASE k = 2
    <3>1. Top = NeedIf("NVMUs&te")
      BY <2>5, <2>10, RowPlaces
    <3>2. /\ todo' = <<>> \o Tail(todo) \/ todo' = <<Raise1("UpdiError")>> \o Tail(todo)
          /\ Same(tgt, tgt') /\ tgt.on
      BY <3>1, NeedAdvance DEF Keys
    <3>3. RowAt(k + 1)'
      BY <2>10, <3>2 DEF RowAt, Same
    <3> QED BY <2>6, <2>7, <2>8, <3>2, <3>3
  <2>11. CASE k \in {3, 10}
    <3>1. Top = Stcs1("RESET_REQ")
      BY <2>5, <2>11, RowPlaces
    <3>2. todo' = Tail(todo) /\ tgt' = HoldReset(tgt)
      BY <3>1, StcsAdvance DEF Registers, Stcs
    <3>3. tgt.on /\ tgt'.on /\ tgt'.rst /\ tgt'.keys = tgt.keys
      BY <2>1, <2>2, <2>11, <3>2, ResetEffects, 0 \in Nat DEF RowAt
    <3>4. RowAt(k + 1)'
      BY <2>1, <2>11, <3>3 DEF RowAt
    <3> QED BY <2>8, <3>2, <3>4
  <2>12. CASE k \in {4, 11}
    <3>1. Top = Stcs1("RESET_REQ_off")
      BY <2>5, <2>12, RowPlaces
    <3>2. todo' = Tail(todo) /\ \E ms \in Nat : tgt' = ReleaseReset(tgt, ms)
      BY <3>1, StcsAdvance DEF Registers, Stcs
    <3>3. tgt.on /\ tgt.rst /\ (k = 11 => tgt.keys = {})
      BY <2>1, <2>12 DEF RowAt
    <3>4. /\ tgt'.on /\ tgt'.keys = tgt.keys \cap {"NVMUs&te"} /\ ~tgt'.rst
          /\ k = 11 => tgt'.mode = "run"
      BY <2>2, <3>2, <3>3, ResetEffects
    <3>5. RowAt(k + 1)'
      BY <2>12, <3>3, <3>4 DEF RowAt
    <3> QED BY <2>8, <3>2, <3>5
  <2>13. CASE k = 5
    <3> DEFINE s == <<Raise1("UpdiError")>>
    <3>1. Top = Wait1("urowprog", 500, s)
      BY <2>5, <2>13, RowPlaces
    <3>2. /\ todo' = todo \/ todo' = <<>> \o Tail(todo) \/ todo' = s \o Tail(todo)
          /\ Same(tgt, tgt')
      BY <3>1, WaitAdvance
    <3>3. RowAt(k)' /\ RowAt(k + 1)'
      BY <2>1, <2>13, <3>2 DEF RowAt, Same
    <3>4. ASSUME todo' = todo PROVE WritingRow'
      BY <2>1, <3>3, <3>4 DEF WritingRow, RowAt
    <3> QED BY <2>6, <2>7, <2>8, <3>2, <3>3, <3>4
  <2>14. CASE k = 6
    <3>1. Top \in Loads
      BY <2>5, <2>14, RowPlaces
    <3>2. Top.op = "do" /\ Top.f \in {"write_data", "write_data_words", "write_byte"}
      BY <3>1 DEF Loads
    <3>3. Top \notin Frames
      BY <3>2 DEF Frames
    <3>4. todo' = Tail(todo) /\ Same(tgt, tgt')
      BY <3>2, <3>3 DEF Advance
    <3>5. RowAt(k + 1)'
      BY <2>1, <2>14, <3>4 DEF RowAt, Same
    <3> QED BY <2>8, <3>4, <3>5
  <2>15. CASE k = 7
    <3>1. Top = Stcs1("UROW_FINAL")
      BY <2>5, <2>15, RowPlaces
    <3>2. todo' = Tail(todo) /\ \E ms \in Nat : tgt' = UrowFinal(tgt, ms)
      BY <3>1, StcsAdvance DEF Registers, Stcs
    <3>3. tgt'.on = tgt.on /\ tgt'.keys = tgt.keys
      BY <2>2, <3>2, ResetEffects
    <3>4. RowAt(k + 1)'
      BY <2>1, <2>15, <3>3 DEF RowAt
    <3> QED BY <2>8, <3>2, <3>4
  <2>16. CASE k = 8
    <3> DEFINE s == <<Stcs1("RESET_REQ")>> \o <<Stcs1("RESET_REQ_off")>>
                    \o <<Raise1("UpdiError")>>
    <3>1. Top = Wait1("no_urowprog", 500, s)
      BY <2>5, <2>16, RowPlaces
    <3>2. /\ todo' = todo \/ todo' = <<>> \o Tail(todo) \/ todo' = s \o Tail(todo)
          /\ Same(tgt, tgt')
      BY <3>1, WaitAdvance
    <3>3. RowAt(k)' /\ RowAt(k + 1)'
      BY <2>1, <2>16, <3>2 DEF RowAt, Same
    <3>4. ASSUME todo' = todo PROVE WritingRow'
      BY <2>1, <3>3, <3>4 DEF WritingRow, RowAt
    <3> QED BY <2>6, <2>7, <2>8, <3>2, <3>3, <3>4
  <2>17. CASE k = 9
    <3>1. Top = Stcs1("KEY_STATUS")
      BY <2>5, <2>17, RowPlaces
    <3>2. todo' = Tail(todo) /\ tgt' = ClearUrowKey(tgt)
      BY <3>1, StcsAdvance DEF Registers, Stcs
    <3>3. tgt'.on /\ tgt'.keys = {}
      <4>1. tgt.on /\ tgt.keys \subseteq {"NVMUs&te"}
        BY <2>1, <2>17 DEF RowAt
      <4> QED BY <2>2, <3>2, <4>1, LinkEffects
    <3>4. RowAt(k + 1)'
      BY <2>17, <3>3 DEF RowAt
    <3> QED BY <2>8, <3>2, <3>4
  <2> QED BY <2>3, <2>9, <2>10, <2>11, <2>12, <2>13, <2>14, <2>15, <2>16, <2>17
<1> QED BY <1>1, <1>2 DEF WritingRow

\* It raises no LockedError.
LEMMA RowRaisesNothing ==
    ASSUME TypeInv, WritingRow PROVE ~LocksUp
<1> SUFFICES ASSUME LocksUp PROVE FALSE
  OBVIOUS
<1> DEFINE p == write_user_row_locked_device
<1>1. todo # <<>> /\ Top.op = "raise" /\ Top.exc = "LockedError"
  BY DEF LocksUp, Raise1
<1>2. CASE Doomed
  <2>1. PICK j \in 1..Len(todo) :
           /\ todo[j].op = "raise" /\ todo[j].exc = "UpdiError"
           /\ \A i \in 1..(j - 1) : todo[i].op = "do"
    BY <1>2 DEF Doomed
  <2>2. Top = todo[1] /\ Len(todo) \in Nat
    BY <1>1 DEF Top, TypeInv
  <2>3. CASE j = 1
    BY <1>1, <2>1, <2>2, <2>3
  <2>4. CASE j # 1
    <3>1. 1 \in 1..(j - 1)
      BY <2>2, <2>4
    <3> QED BY <1>1, <2>1, <2>2, <3>1
  <2> QED BY <2>3, <2>4
<1>3. CASE \E k \in 1..12 : todo = Rest(p, k) /\ RowAt(k)
  <2>1. PICK k \in 1..12 : todo = Rest(p, k)
    BY <1>3
  <2>2. k \in 1..11
    BY <1>1, <2>1, RowEnd
  <2>3. k \in 1..Len(p) /\ p \in Seq(AnyStep)
    BY <2>2, RowPlaces
  <2>4. Top = p[k]
    BY <2>1, <2>3, AtEndPlace
  <2>5. p[6].op = "do"
    <3>1. p[6] \in Loads
      BY RowPlaces
    <3> QED BY <3>1 DEF Loads
  <2>6. k # 6 => Top.op \in {"do", "if", "wait"}
    BY <2>2, <2>4, RowPlaces DEF Stcs1, Key1, NeedIf, Wait1
  <2> QED BY <1>1, <2>4, <2>5, <2>6
<1> QED BY <1>2, <1>3 DEF WritingRow

\* It ends after its last reset.
LEMMA RowEnds ==
    ASSUME WritingRow, todo = <<>> PROVE RowAt(12)
<1> DEFINE p == write_user_row_locked_device
<1>1. ~Doomed
  <2>1. Len(todo) = 0
    OBVIOUS
  <2> QED BY <2>1 DEF Doomed
<1>2. PICK k \in 1..12 : todo = Rest(p, k) /\ RowAt(k)
  BY <1>1 DEF WritingRow
<1>3. k \in 1..11 => k \in 1..Len(p) /\ p \in Seq(AnyStep)
  BY RowPlaces
<1>4. k \in 1..11 => Rest(p, k) # <<>>
  BY <1>3, RestStep, Nothing
<1>5. k = 12
  BY <1>2, <1>4
<1> QED BY <1>2, <1>5

-----------------------------------------------------------------------------
(* Keys and modes: every step keeps them.                                  *)

\* The first instruction of a new object.
LEMMA FirstBreak ==
    /\ UpdiApplication # <<>>
    /\ todo = UpdiApplication => Top \in Frames /\ Top.f = "break"
<1> DEFINE i == [op |-> "do", f |-> "break", x |-> "none"]
           s == init_datalink \o read_device_info
<1>1. i \in Frames /\ i.f = "break"
  BY DEF Frames, Registers
<1>2. init_datalink \in Seq(Quiet3) /\ read_device_info \in Seq(Quiet3)
  BY QuietDatalink, QuietInfo
<1>3. s \in Seq(Quiet3)
  BY <1>2, SeqJoins
<1>4. UpdiApplication = <<i>> \o s
  <2> DEFINE a == init_datalink
             b == read_device_info
  <2>1. UpdiApplication = (<<i>> \o a) \o b /\ s = a \o b
    BY DEF UpdiApplication, Do
  <2>2. a \in Seq(Quiet3 \cup {i}) /\ b \in Seq(Quiet3 \cup {i}) /\ i \in Quiet3 \cup {i}
    BY <1>2, SeqGrows
  <2> HIDE DEF a, b, i, s
  <2>3. (<<i>> \o a) \o b = <<i>> \o (a \o b)
    BY <2>2
  <2> QED BY <2>1, <2>3
<1> HIDE DEF i, s
<1>5. <<i>> \o s # <<>> /\ Head(<<i>> \o s) = i
  BY <1>3
<1> QED BY <1>1, <1>4, <1>5 DEF Top

\* A call that goes on keeps to its plan.
LEMMA CallGoesOn ==
    ASSUME TypeInv, CallInv, Working, luck = "calm", Advance,
           call' = call, before' = before, setup' = setup
    PROVE  CallInv'
<1>1. session' = session /\ session = before.session
  BY DEF Advance, CallInv
<1>2. ASSUME call.f = "construct"
      PROVE  /\ todo' \in Seq(Quiet3 \cup Uses(tgt'.nvm))
             /\ before.session = "closed" => tgt'.keys = {} /\ tgt'.on
  <2>1. /\ todo \in Seq(Quiet3 \cup Uses(tgt.nvm))
        /\ before.session = "closed" => tgt.keys = {} /\ (tgt.on \/ todo = UpdiApplication)
    BY <1>2 DEF CallInv
  <2> DEFINE S == Quiet3 \cup Uses(tgt.nvm)
  <2>2. QuietSet(S, tgt.nvm) /\ todo \in Seq(S)
    BY <2>1 DEF QuietSet
  <2> HIDE DEF S
  <2>3. /\ todo' \in Seq(S) /\ tgt'.nvm = tgt.nvm
        /\ tgt.on \/ (Top \in Frames /\ Top.f = "break") => tgt'.on
        /\ tgt.keys = {} => tgt'.keys = {}
    BY <2>2, QuietOn
  <2> QED BY <2>1, <2>3, FirstBreak DEF S
<1>3. ASSUME call.f \in Stops PROVE Leaving'
  <2>1. Leaving
    BY <1>3 DEF CallInv
  <2> QED BY <2>1, LeavingOn
<1>4. ASSUME call.f = "start", before.session = "built" PROVE Starting'
  <2>1. Starting
    BY <1>4 DEF CallInv
  <2> QED BY <2>1, StartingOn
<1>5. ASSUME RowCall PROVE WritingRow'
  <2>1. WritingRow
    BY <1>5 DEF CallInv
  <2> QED BY <2>1, RowOn
<1>6. ASSUME call.f \notin Stops \cup {"construct", "start"}, ~RowCall,
             before.session = "started"
      PROVE  Clean' /\ todo' \in Seq(QuietDriving \cup Uses(tgt'.nvm))
  <2>1. Clean /\ todo \in Seq(QuietDriving \cup Uses(tgt.nvm))
    BY <1>6 DEF CallInv
  <2> DEFINE S == QuietDriving \cup Uses(tgt.nvm)
  <2>2. QuietSet(S, tgt.nvm) /\ todo \in Seq(S)
    BY <2>1 DEF QuietSet
  <2> HIDE DEF S
  <2>3. /\ todo' \in Seq(S) /\ tgt'.nvm = tgt.nvm /\ (tgt.on => tgt'.on)
        /\ tgt.keys = {} => tgt'.keys = {}
    BY <2>2, QuietOn
  <2> QED BY <2>1, <2>3 DEF S, Clean
<1>7. RowCall' = RowCall
  BY DEF RowCall, Options
<1> QED BY <1>1, <1>2, <1>3, <1>4, <1>5, <1>6, <1>7 DEF CallInv

\* Only start catches a LockedError.
LEMMA CallCatches ==
    ASSUME TypeInv, TodoInv, CallInv, Working, luck = "calm", LocksUp,
           call' = call, before' = before, setup' = setup
    PROVE  CallInv'
<1>1. session' = session /\ session = before.session /\ exc = "running" /\ todo # <<>>
  BY DEF LocksUp, CallInv, Working
<1>2. ASSUME NEW S, QuietSet(S, tgt.nvm), todo \in Seq(S) PROVE FALSE
  <2>1. Top \in S /\ Top = Raise1("LockedError")
    BY <1>1, <1>2 DEF LocksUp, Top
  <2> QED BY <1>2, <2>1, QuietKinds
<1>3. call.f # "construct"
  <2> SUFFICES ASSUME call.f = "construct" PROVE FALSE
    OBVIOUS
  <2>1. QuietSet(Quiet3 \cup Uses(tgt.nvm), tgt.nvm) /\ todo \in Seq(Quiet3 \cup Uses(tgt.nvm))
    BY DEF CallInv, QuietSet
  <2> QED BY <1>2, <2>1
<1>4. call.f \notin Stops
  BY LeavingRaisesNothing DEF CallInv
<1>5. ASSUME call.f = "start", before.session = "built" PROVE Starting'
  <2>1. Starting
    BY <1>5 DEF CallInv
  <2> QED BY <1>1, <2>1, StartingCaught
<1>6. ~RowCall
  BY RowRaisesNothing DEF CallInv
<1>7. ~(call.f \notin Stops \cup {"construct", "start"} /\ ~RowCall /\ before.session = "started")
  <2> SUFFICES ASSUME call.f \notin Stops \cup {"construct", "start"}, ~RowCall,
                      before.session = "started"
               PROVE  FALSE
    OBVIOUS
  <2>1. /\ QuietSet(QuietDriving \cup Uses(tgt.nvm), tgt.nvm)
        /\ todo \in Seq(QuietDriving \cup Uses(tgt.nvm))
    BY DEF CallInv, QuietSet
  <2> QED BY <1>2, <2>1
<1>8. RowCall' = RowCall
  BY DEF RowCall, Options
<1> QED BY <1>1, <1>3, <1>4, <1>5, <1>6, <1>7, <1>8 DEF CallInv

\* A call that returns leaves keys and modes as its session wants them.
LEMMA CallReturns ==
    ASSUME ModeInv, Finishes, setup' = setup
    PROVE  CallInv' /\ RestInv'
<1>1. /\ Working /\ todo = <<>> /\ exc' = "none" /\ session' = NextSession
      /\ tgt' = tgt /\ call' = call /\ before' = before /\ luck' = luck
  BY DEF Finishes, Return
<1>2. CallInv'
  BY <1>1 DEF CallInv, Working
<1>3. RowCall' = RowCall
  BY <1>1 DEF RowCall, Options
<1>4. CASE luck # "calm"
  <2>1. session' = "doubtful" /\ luck' # "calm"
    BY <1>1, <1>4 DEF NextSession
  <2> QED BY <1>2, <2>1 DEF RestInv
<1>5. CASE luck = "calm"
  <2>1. session = before.session /\ CallInv
    BY <1>1, <1>5 DEF ModeInv, CallInv
  <2>2. call.f \in Stops => ~tgt.on /\ (before.session \in {"built", "started"} => Running(tgt))
    BY <1>1, <1>5, <2>1, LeavingEnds DEF CallInv
  <2>3. RowCall => tgt.mode = "run" /\ tgt.keys = {} /\ ~tgt.rst
    <3>1. RowCall => RowAt(12)
      BY <1>1, <1>5, <2>1, RowEnds DEF CallInv
    <3> QED BY <3>1 DEF RowAt
  <2>4. call.f = "construct" /\ session = "closed" => Clean
    BY <1>1, <1>5, <2>1, FirstBreak DEF CallInv, Clean
  <2>5. call.f = "start" /\ session = "built" => Clean
    BY <1>1, <1>5, <2>1, StartingEnds DEF CallInv
  <2>6. call.f \notin Stops \cup {"construct", "start"} /\ session = "started" /\ ~RowCall => Clean
    BY <1>1, <1>5, <2>1 DEF CallInv
  <2>7. /\ session' = "closed" => call.f \in Stops
        /\ session' \in {"built", "started"} =>
              \/ call.f = "construct" /\ session = "closed"
              \/ call.f = "start" /\ session = "built"
              \/ /\ call.f \notin Stops \cup {"construct", "start"}
                 /\ session = "started" /\ tgt.mode = "prog"
    BY <1>1, <1>5 DEF NextSession, Stops
  <2>8. session' = "closed" => ~tgt'.on
    BY <1>1, <2>2, <2>7
  <2>9. session' \in {"built", "started"} => Clean'
    <3>1. session' \in {"built", "started"} => Clean
      BY <2>3, <2>4, <2>5, <2>6, <2>7
    <3> QED BY <1>1, <3>1 DEF Clean
  <2>10. /\ call'.f \in Stops /\ before'.session \in {"built", "started"} => Running(tgt')
         /\ RowCall' => tgt'.mode # "urow" /\ tgt'.keys = {} /\ ~tgt'.rst
    BY <1>1, <1>3, <2>2, <2>3
  <2> QED BY <1>2, <2>8, <2>9, <2>10 DEF RestInv
<1> QED BY <1>4, <1>5

\* A step of a call does not end it but by returning or by raising.
LEMMA HostEnds ==
    ASSUME HostStep PROVE exc' = exc \/ session' = "doubtful" \/ Finishes
<1>1. \A e : Throw(e) => exc' = exc \/ session' = "doubtful"
  BY DEF Throw
<1>2. \A s : GoOn(s) => exc' = exc
  BY DEF GoOn
<1>3. CASE Perform
  <2>1. PICK ms \in Takes(Top.f, Top.x) :
           \E o \in Access(Top.f, Top.x, ms) : Ends(o, LAMBDA val : GoOn(<<>>))
    BY <1>3 DEF Perform
  <2> QED BY <1>1, <1>2, <2>1 DEF Ends
<1>4. CASE Test
  BY <1>1, <1>2, <1>4 DEF Test, Ends
<1>5. CASE Wait
  BY <1>1, <1>2, <1>5 DEF Wait, Ends
<1>6. CASE TimedOut \/ Stalled
  BY <1>2, <1>6 DEF TimedOut, Stalled
<1>7. CASE ReadSib
  BY <1>1, <1>2, <1>7 DEF ReadSib, Ends
<1>8. CASE Select \/ Use \/ Short \/ Skip
  BY <1>2, <1>8 DEF Select, Use, Short, Skip, Local
<1>9. CASE RaiseIt
  BY <1>1, <1>9 DEF RaiseIt
<1>10. CASE Return
  BY <1>10 DEF Return, Finishes
<1> QED BY <1>3, <1>4, <1>5, <1>6, <1>7, <1>8, <1>9, <1>10 DEF HostStep

\* Every step of a call keeps keys and modes.
LEMMA HostKeeps ==
    ASSUME TypeInv, TodoInv, ModeInv, HostStep, setup' = setup
    PROVE  ModeInv'
<1>1. /\ PoweredInv' /\ Working /\ call' = call /\ before' = before
      /\ luck' = "calm" => luck = "calm" /\ (Advance \/ Breaks \/ LocksUp \/ Finishes)
  BY CalmStep DEF ModeInv
<1>2. WorkInv'
  BY <1>1 DEF ModeInv, WorkInv
<1>3. CASE Finishes
  BY <1>1, <1>2, <1>3, CallReturns DEF ModeInv
<1>4. CASE ~Finishes /\ luck' # "calm"
  <2>1. CallInv'
    BY <1>4 DEF CallInv
  <2>2. exc' = exc \/ session' = "doubtful"
    BY <1>4, HostEnds
  <2>3. RestInv'
    BY <1>1, <1>4, <2>2 DEF RestInv, Working
  <2> QED BY <1>1, <1>2, <2>1, <2>3 DEF ModeInv
<1>5. CASE ~Finishes /\ luck' = "calm"
  <2>1. luck = "calm" /\ CallInv
    BY <1>1, <1>5 DEF ModeInv
  <2>2. CASE Advance
    <3>1. Working' /\ CallInv'
      BY <1>1, <2>1, <2>2, CallGoesOn DEF Working, Advance
    <3> QED BY <1>1, <1>2, <3>1 DEF ModeInv, RestInv
  <2>3. CASE LocksUp
    <3>1. Working' /\ CallInv'
      BY <1>1, <2>1, <2>3, CallCatches DEF Working, LocksUp
    <3> QED BY <1>1, <1>2, <3>1 DEF ModeInv, RestInv
  <2>4. CASE Breaks
    <3>1. CallInv' /\ RestInv'
      BY <2>4 DEF Breaks, CallInv, RestInv, Working
    <3> QED BY <1>1, <1>2, <3>1 DEF ModeInv
  <2> QED BY <1>1, <1>5, <2>2, <2>3, <2>4
<1> QED BY <1>3, <1>4, <1>5

\* So does the beginning of one.
LEMMA BeginKeeps ==
    ASSUME TypeInv, ModeInv, Begin, setup' = setup
    PROVE  ModeInv'
<1>1. PICK c \in Calls : call' = c /\ todo' = Body(c)
  BY DEF Begin
<1>2. /\ Idle /\ exc' = "running" /\ luck' = "calm" /\ before'.session = session
      /\ tgt' = tgt /\ session' = session
  BY DEF Begin
<1>3. ~Working
  BY <1>2 DEF Idle, Working, ModeInv, WorkInv
<1>4. c \in Requests
  BY SetupsAssumption DEF Calls, TypeInv
<1>5. /\ session = "closed" => ~tgt.on /\ tgt.keys = {}
      /\ session \in {"built", "started"} => Clean
  BY <1>3 DEF ModeInv, RestInv, PoweredInv
<1>6. RowCall' = (c.f = "write" /\ c.m = "user_row" /\ "user-row-locked-device" \in Options)
  BY <1>1 DEF RowCall, Options
<1>7. ASSUME c.f = "construct"
      PROVE  /\ todo' \in Seq(Quiet3 \cup Uses(tgt'.nvm))
             /\ session = "closed" => tgt'.keys = {} /\ todo' = UpdiApplication
  <2>1. todo' = UpdiApplication
    BY <1>1, <1>7 DEF Body
  <2>2. UpdiApplication \in Seq(Quiet3 \cup Uses(tgt'.nvm))
    BY QuietOthers, SeqGrows
  <2> QED BY <1>2, <1>5, <2>1, <2>2
<1>8. ASSUME c.f \in Stops PROVE Leaving'
  <2>1. todo' = leave_progmode
    BY <1>1, <1>8 DEF Body, Stops
  <2>2. leave_progmode = Rest(leave_progmode, 1)
    BY LeavePlaces, RestEnds
  <2>3. before'.session \in {"built", "started"} => LeavingAt(1)'
    BY <1>2, <1>5 DEF LeavingAt, Clean
  <2>4. 1 \in 1..4
    OBVIOUS
  <2> QED BY <2>1, <2>2, <2>3, <2>4 DEF Leaving, LeavingAt
<1>9. ASSUME c.f = "start", session = "built" PROVE Starting'
  <2>1. todo' = start
    BY <1>1, <1>9 DEF Body
  <2>2. start' = start
    BY DEF start, Options
  <2>3. Clean'
    BY <1>2, <1>5, <1>9 DEF Clean
  <2> QED BY <2>1, <2>2, <2>3 DEF Starting
<1>10. ASSUME RowCall' PROVE WritingRow'
  <2>1. todo' = write_user_row_locked_device
    BY <1>1, <1>6, <1>10 DEF Body, write
  <2>2. write_user_row_locked_device = Rest(write_user_row_locked_device, 1)
    BY RowPlaces, RestEnds
  <2>3. RowAt(1)' /\ 1 \in 1..12
    BY DEF RowAt
  <2> QED BY <2>1, <2>2, <2>3 DEF WritingRow, RowAt
<1>11. ASSUME c.f \notin Stops \cup {"construct", "start"}, ~RowCall', session = "started"
       PROVE  Clean' /\ todo' \in Seq(QuietDriving \cup Uses(tgt'.nvm))
  <2>1. todo' \in Seq(QuietDriving)
    BY <1>1, <1>4, <1>6, <1>11, QuietBody
  <2>2. Seq(QuietDriving) \subseteq Seq(QuietDriving \cup Uses(tgt'.nvm))
    BY SeqGrows
  <2>3. Clean'
    BY <1>2, <1>5, <1>11 DEF Clean
  <2> QED BY <2>1, <2>2, <2>3
<1>12. CallInv'
  BY <1>1, <1>2, <1>7, <1>8, <1>9, <1>10, <1>11 DEF CallInv
<1>13. PoweredInv' /\ RestInv' /\ WorkInv'
  <2>1. c.f # "none"
    BY <1>4 DEF Requests
  <2> QED BY <1>1, <1>2, <2>1 DEF ModeInv, PoweredInv, RestInv, WorkInv, Working
<1> QED BY <1>12, <1>13 DEF ModeInv

\* And time between two calls.
LEMMA PauseKeeps ==
    ASSUME TypeInv, ModeInv, Pause, setup' = setup
    PROVE  ModeInv'
<1>1. /\ Idle /\ tgt' = Settle(tgt) /\ call' = call /\ exc' = exc /\ before' = before
      /\ luck' = luck /\ session' = session
  BY DEF Pause
<1>2. ~Working
  BY <1>1 DEF Idle, Working, ModeInv, WorkInv
<1>3. Same(tgt, tgt')
  BY <1>1, TimeSame, 0 \in Nat, TRUE \in BOOLEAN DEF TypeInv
<1>4. ~Working'
  BY <1>1, <1>2 DEF Working
<1>5. CallInv' /\ WorkInv'
  BY <1>4 DEF CallInv, WorkInv
<1>6. PoweredInv'
  BY <1>3 DEF ModeInv, PoweredInv, Same
<1>7. RowCall' = RowCall
  BY <1>1 DEF RowCall, Options
<1>8. RestInv'
  BY <1>1, <1>2, <1>3, <1>7 DEF ModeInv, RestInv, Same, Clean, Running
<1> QED BY <1>5, <1>6, <1>8 DEF ModeInv

\* And a step that changes nothing.
LEMMA StillKeeps ==
    ASSUME ModeInv, UNCHANGED vars PROVE ModeInv'
<1>1. /\ tgt' = tgt /\ todo' = todo /\ call' = call /\ exc' = exc /\ before' = before
      /\ luck' = luck /\ session' = session /\ setup' = setup
  BY DEF vars
<1>2. Clean' = Clean /\ RowCall' = RowCall /\ Working' = Working /\ Top' = Top
  BY <1>1 DEF Clean, RowCall, Options, Working, Top
<1>3. Leaving' = Leaving
  BY <1>1 DEF Leaving, LeavingAt, Clean
<1>4. Starting' = Starting
  <2>1. Handling' = Handling /\ start' = start
    BY <1>1 DEF Handling, LockedHandler, Options, start
  <2> QED BY <1>1, <1>2, <2>1 DEF Starting, ArmedUntil, Raising
<1>5. WritingRow' = WritingRow
  BY <1>1 DEF WritingRow, RowAt, Doomed
<1>6. CallInv' = CallInv
  BY <1>1, <1>2, <1>3, <1>4, <1>5 DEF CallInv
<1>7. PoweredInv' /\ RestInv' /\ WorkInv'
  BY <1>1, <1>2 DEF ModeInv, PoweredInv, RestInv, WorkInv
<1> QED BY <1>6, <1>7 DEF ModeInv

\* At first there are no keys.
LEMMA ModeStarts == Init => ModeInv
<1> SUFFICES ASSUME Init PROVE ModeInv
  OBVIOUS
<1>1. PICK t \in Setups[setup].targets : tgt = Fresh(t.nvm, t.lockbits, t.expected)
  BY DEF Init
<1>2. tgt.on = FALSE /\ tgt.keys = {}
  BY <1>1 DEF Fresh
<1>3. exc = "none" /\ call.f = "none" /\ session = "closed"
  BY DEF Init
<1> QED BY <1>2, <1>3 DEF ModeInv, PoweredInv, CallInv, RestInv, WorkInv, Working, RowCall, Stops

\* Always: keys and modes are as the sessions want them.
LEMMA ModeInvHolds == Spec => []ModeInv
<1>1. IndInv /\ ModeInv /\ [Next]_vars => ModeInv'
  <2> SUFFICES ASSUME IndInv, ModeInv, [Next]_vars PROVE ModeInv'
    OBVIOUS
  <2>1. TypeInv /\ TodoInv
    BY DEF IndInv
  <2>2. CASE Begin /\ UNCHANGED setup
    BY <2>1, <2>2, BeginKeeps
  <2>3. CASE HostStep /\ UNCHANGED setup
    BY <2>1, <2>3, HostKeeps
  <2>4. CASE Pause /\ UNCHANGED setup
    BY <2>1, <2>4, PauseKeeps
  <2>5. CASE UNCHANGED vars
    BY <2>5, StillKeeps
  <2> QED BY <2>2, <2>3, <2>4, <2>5 DEF Next
<1> QED BY <1>1, ModeStarts, IndInvHolds, PTL DEF Spec

\* After a stop that nothing disturbed, in a session that nothing disturbed, the
\* target runs its own program, whatever happened before that session.
THEOREM StopRuns == Spec => []StopMeansRunning
<1>1. ModeInv => StopMeansRunning
  <2> SUFFICES ASSUME ModeInv, Returned, call.f \in {"stop", "release_from_reset"},
                      luck = "calm", before.session \in {"built", "started"}
               PROVE  Running(tgt)
    BY DEF StopMeansRunning
  <2>1. ~Working /\ exc = "none" /\ call.f \in Stops
    BY DEF Returned, Working, Stops
  <2> QED BY <2>1 DEF ModeInv, RestInv
<1> QED BY <1>1, ModeInvHolds, PTL

\* Writing the user row with its key, if nothing disturbs it and it returns, leaves
\* the mode for it and no key, whatever keys and modes it found.
THEOREM RowModeLeft == Spec => []UserRowModeLeft
<1>1. ModeInv => UserRowModeLeft
  BY DEF ModeInv, RestInv, UserRowModeLeft, RowCall, Returned, Working
<1> QED BY <1>1, ModeInvHolds, PTL
=============================================================================
