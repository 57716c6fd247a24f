------------------------------ MODULE UpdiLink ------------------------------
(***************************************************************************)
(* The data-link layer (updi/updi_link.c).  Its functions are synchronous: *)
(* each sends frames, waits for the echo and for the answer, and returns.  *)
(* An operator below is the set of ways one call can end.  An outcome      *)
(* holds                                                                   *)
(*     tgt     the target afterwards                                       *)
(*     st      the UpdiStatus the call returns                             *)
(*     fault   1 if the wire misbehaved, 0 if it did not                   *)
(*                                                                         *)
(* Faults: a frame or its answer is lost (the target then did or did not   *)
(* execute the instruction), or the echo of the frame does not come back,  *)
(* which transport_furi.c reports as a failed send.  A target that is off  *)
(* the wire or disabled is not a fault: the echo comes from the bridge, so *)
(* sends succeed and answers time out.                                     *)
(***************************************************************************)
EXTENDS UpdiTarget

CONSTANT PollMs         \* how long an answered status poll takes

ASSUME PollAssumption == PollMs \in Nat \ {0}

Statuses ==
    {"Ok", "ErrTimeout", "ErrNack", "ErrProtocol", "ErrParam", "ErrVerify",
     "ErrNvm", "ErrLocked", "ErrUnsupported", "ErrTransport"}

RespTimeoutMs == 300    \* UPDI_DEFAULT_TIMEOUT_MS
EchoTimeoutMs == 120    \* UPDI_ECHO_TIMEOUT_MS

Out(t, st, fault) == [tgt |-> t, st |-> st, fault |-> fault]

\* How long the call that ended with st took.
CostOf(st) ==
    CASE st = "Ok"           -> PollMs
      [] st = "ErrTransport" -> EchoTimeoutMs
      [] OTHER               -> RespTimeoutMs

-----------------------------------------------------------------------------
(* A frame without an answer: BREAK, STCS, KEY.  u is the target if the    *)
(* frame arrives.  The caller learns nothing unless the echo is missing.   *)
Send(t, u) ==
    {Out(u, "Ok", 0), Out(t, "Ok", 1),
     Out(t, "ErrTransport", 1), Out(u, "ErrTransport", 1)}

(* A frame with an answer and no effect: LDCS, LDS, SIB.                   *)
Load(t, answers) ==
    {Out(t, IF answers THEN "Ok" ELSE "ErrTimeout", 0),
     Out(t, "ErrTimeout", 1), Out(t, "ErrTransport", 1)}

Stcs(t, u) == Send(t, u)
Key(t, key) == Send(t, TakeKey(t, key))
Ldcs(t) == Load(t, Responds(t))
LdByte(t) == Load(t, Accessible(t))

\* The SIB can also arrive cut short; fewer than 11 bytes are of no use.
ReadSib(t) ==
    Load(t, Responds(t)) \cup
    {Out(t, st, 1) : st \in IF Responds(t) THEN {"ErrProtocol"} ELSE {}}

(* STS: address, ACK, data, ACK.  u is the target if the data arrives.     *)
StByte(t, u) ==
    IF Acknowledges(t)
    THEN {Out(u, "Ok", 0)} \cup
         {Out(v, st, 1) : v \in {t, u}, st \in {"ErrNack", "ErrTransport"}}
    ELSE {Out(t, "ErrNack", 0), Out(t, "ErrTransport", 1)}

(* ST PTR with ACK, REPEAT, LD PTR++.                                      *)
ReadData(t) ==
    {Out(t, IF Acknowledges(t) THEN "Ok" ELSE "ErrNack", 0)} \cup
    {Out(t, st, 1) : st \in {"ErrNack", "ErrTimeout", "ErrTransport"}}

(***************************************************************************)
(* ST PTR with ACK, REPEAT, then the block with acknowledgements off:      *)
(* CTRLA.RSD set, opcode, data, CTRLA.RSD cleared.  A missing echo returns *)
(* early, which leaves RSD set; a lost REPEAT or data frame leaves the     *)
(* page buffer partly filled, or untouched and the page of the last store  *)
(* selected, and nobody notices; a lost CTRLA frame leaves RSD as it was.  *)
(***************************************************************************)
WriteDataWords(t, p, c) ==
    IF Acknowledges(t)
    THEN {Out(LoadBuffer(t, p, c), "Ok", 0)} \cup
         {Out(SetRsd(u, rsd), st, 1) : rsd \in BOOLEAN,
             u \in {t, LoadBuffer(t, p, c), LoadBuffer(t, p, "torn")},
             st \in {"Ok", "ErrTransport"}} \cup
         {Out(t, "ErrNack", 1)}
    ELSE {Out(t, "ErrNack", 0), Out(t, "ErrTransport", 1)}
=============================================================================
