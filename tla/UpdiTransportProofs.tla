------------------------- MODULE UpdiTransportProofs -------------------------
(***************************************************************************)
(* What is proved about the byte stream of UpdiTransport, for every size   *)
(* of its stream, its buffers and its counters, and for any number of      *)
(* faults.                                                                 *)
(*                                                                         *)
(* The argument is about the bytes that are due to the call under way: as  *)
(* long as nothing was lost, late or given up, those it has taken, those   *)
(* in the stream and those on the wire are, in that order, the rest of its *)
(* echo and then its answer, no more and no less.                          *)
(***************************************************************************)
EXTENDS UpdiTransport, TLAPS

Kinds == {"echo", "answer", "stale"}

\* Every variable has its type.
TypeOK ==
    /\ tick \in 0..(Ticks - 1) /\ deadline \in Nat /\ left \in Nat
    /\ wire \in Seq(Kinds) /\ rx \in Seq(Kinds) /\ got \in Seq(Kinds)
    /\ pc \in {"idle", "head", "blocked", "received"} /\ for \in {"echo", "answer"}
    /\ call \in DOMAIN Calls
    /\ status \in {"none", "running", "Ok", "ErrTransport", "ErrTimeout"}
    /\ discarded \in Nat /\ want \in Nat /\ faults \in Nat /\ elapsed \in Nat
    /\ acks \in BOOLEAN /\ late \in BOOLEAN /\ clean \in BOOLEAN /\ overrun \in BOOLEAN

\* The arguments of the receive under way, which never takes more than it asked for.
WantInv ==
    /\ pc = "idle" <=> status # "running"
    /\ pc # "idle" =>
        /\ Len(got) <= want
        /\ for = "echo" => discarded < Calls[call].send /\ want = EchoWant(discarded)
        /\ for = "answer" => 0 < want /\ want = Calls[call].answer

\* The echo the call has not dropped yet.
EchoLeft == IF for = "echo" THEN Calls[call].send - discarded ELSE 0

\* The bytes s, after from others, of an echo of that many bytes and its answer.
Belongs(s, from, echo) ==
    \A i \in 1..Len(s) : s[i] = IF from + i <= echo THEN "echo" ELSE "answer"

\* What the call has, and what the stream and the wire hold, is what is due to it.
StreamInv ==
    clean /\ pc # "idle" =>
        /\ Len(got) + Len(rx) + Len(wire) = EchoLeft + Calls[call].answer
        /\ Belongs(got, 0, EchoLeft)
        /\ Belongs(rx, Len(got), EchoLeft)
        /\ Belongs(wire, Len(got) + Len(rx), EchoLeft)

\* Between two calls nothing is due.
IdleInv ==
    clean => /\ ~late
             /\ pc = "idle" => /\ wire = <<>> /\ rx = <<>> /\ status \in {"Ok", "none"}
                               /\ status = "Ok" /\ Calls[call].answer > 0 =>
                                      got = Bytes("answer", Calls[call].answer)

\* The acknowledgements are off from acks_off to acks_on, and nothing comes between.
AcksInv ==
    clean => /\ ~acks => /\ call \in {"acks_off", "block"} /\ status \in {"Ok", "running"}
                         /\ start = <<>>
             /\ call = "acks_off" /\ status \in {"Ok", "running"} => ~acks

\* A receive that blocks has time left, and one whose deadline has not wrapped
\* does not run into it while a byte is on the wire.
PromptInv ==
    clean => /\ pc = "blocked" => left > 0 /\ Len(got) < want
             /\ ~overrun => /\ pc \in {"head", "blocked"} /\ wire # <<>> => tick < deadline
                            /\ pc = "received" => Len(got) = want

CleanInv == StreamInv /\ IdleInv /\ AcksInv /\ PromptInv
TransportInv == TypeOK /\ WantInv /\ CleanInv

\* Of a poll loop that began at the tick t, less than a round of the counter ago.
ClockInv ==
    start # <<>> =>
        \E t \in 0..(Ticks - 1) :
            /\ start = <<furi_millis_impl(t)>>
            /\ elapsed < Ticks =>
                   tick = IF t + elapsed < Ticks THEN t + elapsed ELSE t + elapsed - Ticks
-----------------------------------------------------------------------------
(* Sequences of bytes.                                                     *)

LEMMA MinOf ==
    ASSUME NEW a \in Nat, NEW b \in Nat
    PROVE  Min({a, b}) = IF a <= b THEN a ELSE b
<1> DEFINE m == IF a <= b THEN a ELSE b
<1>1. m \in {a, b} /\ \A y \in {a, b} : m =< y
    OBVIOUS
<1>2. \A x \in {a, b} : (\A y \in {a, b} : x =< y) => x = m
    OBVIOUS
<1>3. QED
    BY <1>1, <1>2 DEF Min

LEMMA BytesAre ==
    ASSUME NEW kind \in Kinds, NEW n \in Nat
    PROVE  /\ Bytes(kind, n) \in Seq(Kinds)
           /\ Len(Bytes(kind, n)) = n
           /\ \A i \in 1..n : Bytes(kind, n)[i] = kind
BY DEF Bytes

LEMMA SameSeq ==
    ASSUME NEW s \in Seq(Kinds), NEW t \in Seq(Kinds), Len(s) = Len(t),
           \A i \in 1..Len(s) : s[i] = t[i]
    PROVE  s = t
OBVIOUS

LEMMA StaleAre ==
    ASSUME NEW s \in Seq(Kinds)
    PROVE  Stale(s) \in Seq(Kinds) /\ Len(Stale(s)) = Len(s)
BY BytesAre DEF Stale, Kinds

LEMMA ConcatIn ==
    ASSUME NEW s \in Seq(Kinds), NEW t \in Seq(Kinds)
    PROVE  /\ s \o t \in Seq(Kinds)
           /\ Len(s \o t) = Len(s) + Len(t)
           /\ \A i \in 1..(Len(s) + Len(t)) :
                  (s \o t)[i] = IF i <= Len(s) THEN s[i] ELSE t[i - Len(s)]
OBVIOUS

\* What is taken out of the stream, and what is left in it.
LEMMA Parts ==
    ASSUME NEW r \in Seq(Kinds), NEW n \in 0..Len(r)
    PROVE  /\ SubSeq(r, 1, n) \in Seq(Kinds) /\ Len(SubSeq(r, 1, n)) = n
           /\ \A i \in 1..n : SubSeq(r, 1, n)[i] = r[i]
           /\ SubSeq(r, n + 1, Len(r)) \in Seq(Kinds)
           /\ Len(SubSeq(r, n + 1, Len(r))) = Len(r) - n
           /\ \A i \in 1..(Len(r) - n) : SubSeq(r, n + 1, Len(r))[i] = r[n + i]
<1>1. /\ SubSeq(r, 1, n) \in Seq(Kinds) /\ Len(SubSeq(r, 1, n)) = n
      /\ \A i \in 1..n : SubSeq(r, 1, n)[i] = r[i]
    OBVIOUS
<1>2. /\ SubSeq(r, n + 1, Len(r)) \in Seq(Kinds)
      /\ Len(SubSeq(r, n + 1, Len(r))) = Len(r) - n
      /\ \A i \in 1..(Len(r) - n) : SubSeq(r, n + 1, Len(r))[i] = r[n + i]
    OBVIOUS
<1>3. QED
    BY <1>1, <1>2

\* A byte moves from the wire into the stream.
LEMMA BelongsArrive ==
    ASSUME NEW r \in Seq(Kinds), NEW w \in Seq(Kinds), w # <<>>,
           NEW from \in Nat, NEW echo \in Nat,
           Belongs(r, from, echo), Belongs(w, from + Len(r), echo)
    PROVE  /\ Append(r, Head(w)) \in Seq(Kinds) /\ Len(Append(r, Head(w))) = Len(r) + 1
           /\ Tail(w) \in Seq(Kinds) /\ Len(Tail(w)) = Len(w) - 1
           /\ Belongs(Append(r, Head(w)), from, echo)
           /\ Belongs(Tail(w), from + Len(r) + 1, echo)
<1>1. /\ Head(w) \in Kinds /\ Len(w) > 0 /\ Head(w) = w[1]
      /\ Tail(w) \in Seq(Kinds) /\ Len(Tail(w)) = Len(w) - 1
      /\ \A i \in 1..(Len(w) - 1) : Tail(w)[i] = w[i + 1]
    OBVIOUS
<1>2. /\ Append(r, Head(w)) \in Seq(Kinds) /\ Len(Append(r, Head(w))) = Len(r) + 1
      /\ \A i \in 1..Len(r) : Append(r, Head(w))[i] = r[i]
      /\ Append(r, Head(w))[Len(r) + 1] = w[1]
    BY <1>1
<1>3. w[1] = IF from + Len(r) + 1 <= echo THEN "echo" ELSE "answer"
    BY <1>1 DEF Belongs
<1>4. Belongs(Append(r, Head(w)), from, echo)
    <2>1. ASSUME NEW i \in 1..(Len(r) + 1)
          PROVE  Append(r, Head(w))[i] = IF from + i <= echo THEN "echo" ELSE "answer"
        <3>1. CASE i \in 1..Len(r)
            BY <3>1, <1>2 DEF Belongs
        <3>2. CASE i = Len(r) + 1
            BY <3>2, <1>2, <1>3
        <3>3. QED
            BY <3>1, <3>2
    <2>2. QED
        BY <2>1, <1>2 DEF Belongs
<1>5. Belongs(Tail(w), from + Len(r) + 1, echo)
    <2>1. ASSUME NEW i \in 1..(Len(w) - 1)
          PROVE  w[i + 1] = IF from + Len(r) + 1 + i <= echo THEN "echo" ELSE "answer"
        <3>1. i + 1 \in 1..Len(w) /\ from + Len(r) + (i + 1) = from + Len(r) + 1 + i
            OBVIOUS
        <3>2. QED
            BY <3>1 DEF Belongs
    <2>2. QED
        BY <2>1, <1>1 DEF Belongs
<1>6. QED
    BY <1>1, <1>2, <1>4, <1>5

\* The thread takes n bytes out of the stream.
LEMMA BelongsTaken ==
    ASSUME NEW g \in Seq(Kinds), NEW r \in Seq(Kinds), NEW n \in 0..Len(r), NEW echo \in Nat,
           Belongs(g, 0, echo), Belongs(r, Len(g), echo)
    PROVE  /\ Belongs(g \o SubSeq(r, 1, n), 0, echo)
           /\ Belongs(SubSeq(r, n + 1, Len(r)), Len(g) + n, echo)
<1>1. /\ SubSeq(r, 1, n) \in Seq(Kinds) /\ Len(SubSeq(r, 1, n)) = n
      /\ \A i \in 1..n : SubSeq(r, 1, n)[i] = r[i]
      /\ SubSeq(r, n + 1, Len(r)) \in Seq(Kinds)
      /\ Len(SubSeq(r, n + 1, Len(r))) = Len(r) - n
      /\ \A i \in 1..(Len(r) - n) : SubSeq(r, n + 1, Len(r))[i] = r[n + i]
    BY Parts
<1>2. /\ Len(g \o SubSeq(r, 1, n)) = Len(g) + n
      /\ \A i \in 1..(Len(g) + n) : (g \o SubSeq(r, 1, n))[i]
             = IF i <= Len(g) THEN g[i] ELSE SubSeq(r, 1, n)[i - Len(g)]
    BY <1>1, ConcatIn
<1>3. ASSUME NEW i \in 1..(Len(g) + n)
      PROVE  (g \o SubSeq(r, 1, n))[i] = IF i <= echo THEN "echo" ELSE "answer"
    <2>1. CASE i <= Len(g)
        <3>1. i \in 1..Len(g) /\ 0 + i = i
            BY <2>1
        <3>2. QED
            BY <3>1, <1>2 DEF Belongs
    <2>2. CASE i > Len(g)
        <3>1. i - Len(g) \in 1..n /\ i - Len(g) \in 1..Len(r) /\ Len(g) + (i - Len(g)) = i
            BY <2>2
        <3>2. (g \o SubSeq(r, 1, n))[i] = r[i - Len(g)]
            BY <2>2, <3>1, <1>1, <1>2
        <3>3. QED
            BY <3>1, <3>2 DEF Belongs
    <2>3. QED
        BY <2>1, <2>2
<1>4. ASSUME NEW i \in 1..(Len(r) - n)
      PROVE  r[n + i] = IF Len(g) + n + i <= echo THEN "echo" ELSE "answer"
    <2>1. n + i \in 1..Len(r) /\ Len(g) + (n + i) = Len(g) + n + i
        OBVIOUS
    <2>2. QED
        BY <2>1 DEF Belongs
<1>5. Belongs(g \o SubSeq(r, 1, n), 0, echo)
    <2>1. \A i \in 1..(Len(g) + n) : 0 + i = i
        OBVIOUS
    <2>2. QED
        BY <1>2, <1>3, <2>1 DEF Belongs
<1>6. Belongs(SubSeq(r, n + 1, Len(r)), Len(g) + n, echo)
    BY <1>1, <1>4 DEF Belongs
<1>7. QED
    BY <1>5, <1>6

\* The first n bytes of the echo are dropped.
LEMMA BelongsDropped ==
    ASSUME NEW s \in Seq(Kinds), NEW from \in Nat, NEW echo \in Nat, NEW n \in Nat,
           n <= from, n <= echo, Belongs(s, from, echo)
    PROVE  Belongs(s, from - n, echo - n)
<1>1. \A i \in 1..Len(s) : (from - n) + i <= echo - n <=> from + i <= echo
    OBVIOUS
<1>2. QED
    BY <1>1 DEF Belongs

LEMMA BelongsJoined ==
    ASSUME NEW s \in Seq(Kinds), Len(s) = 0, NEW e \in Seq(Kinds), NEW a \in Seq(Kinds),
           \A i \in 1..Len(e) : e[i] = "echo", \A i \in 1..Len(a) : a[i] = "answer"
    PROVE  /\ s \o e \o a \in Seq(Kinds)
           /\ Len(s \o e \o a) = Len(e) + Len(a) /\ Belongs(s \o e \o a, 0, Len(e))
<1>1. s \o e \in Seq(Kinds) /\ Len(s \o e) = Len(e) /\ \A i \in 1..Len(e) : (s \o e)[i] = e[i]
    BY ConcatIn
<1>2. /\ s \o e \o a \in Seq(Kinds)
      /\ Len(s \o e \o a) = Len(e) + Len(a)
      /\ \A i \in 1..(Len(e) + Len(a)) : (s \o e \o a)[i]
             = IF i <= Len(e) THEN (s \o e)[i] ELSE a[i - Len(e)]
    BY <1>1, ConcatIn
<1>3. ASSUME NEW i \in 1..(Len(e) + Len(a))
      PROVE  (s \o e \o a)[i] = IF 0 + i <= Len(e) THEN "echo" ELSE "answer"
    <2>1. CASE i <= Len(e)
        BY <2>1, <1>1, <1>2
    <2>2. CASE i > Len(e)
        <3>1. i - Len(e) \in 1..Len(a)
            BY <2>2
        <3>2. QED
            BY <2>2, <3>1, <1>2
    <2>3. QED
        BY <2>1, <2>2
<1>4. QED
    BY <1>2, <1>3 DEF Belongs

\* A frame goes out on an empty wire: its echo comes back, and then its answer.
LEMMA BelongsSent ==
    ASSUME NEW w \in Seq(Kinds), Len(w) = 0, NEW n \in Nat, NEW a \in Nat
    PROVE  /\ Stale(w) \o Bytes("echo", n) \o Bytes("answer", a) \in Seq(Kinds)
           /\ Len(Stale(w) \o Bytes("echo", n) \o Bytes("answer", a)) = n + a
           /\ Belongs(Stale(w) \o Bytes("echo", n) \o Bytes("answer", a), 0, n)
<1>1. /\ Stale(w) \in Seq(Kinds) /\ Len(Stale(w)) = 0
      /\ Bytes("echo", n) \in Seq(Kinds) /\ Len(Bytes("echo", n)) = n
      /\ \A i \in 1..Len(Bytes("echo", n)) : Bytes("echo", n)[i] = "echo"
      /\ Bytes("answer", a) \in Seq(Kinds) /\ Len(Bytes("answer", a)) = a
      /\ \A i \in 1..Len(Bytes("answer", a)) : Bytes("answer", a)[i] = "answer"
    BY StaleAre, BytesAre DEF Kinds
<1>2. /\ Stale(w) \o Bytes("echo", n) \o Bytes("answer", a) \in Seq(Kinds)
      /\ Len(Stale(w) \o Bytes("echo", n) \o Bytes("answer", a))
             = Len(Bytes("echo", n)) + Len(Bytes("answer", a))
      /\ Belongs(Stale(w) \o Bytes("echo", n) \o Bytes("answer", a), 0, Len(Bytes("echo", n)))
    BY <1>1, BelongsJoined
<1>3. QED
    BY <1>1, <1>2

-----------------------------------------------------------------------------
(* Calls and times.                                                        *)

\* A frame is not empty, and it and its answer fit into the stream.
LEMMA CallsAre ==
    ASSUME NEW c \in DOMAIN Calls
    PROVE  /\ Calls[c].send \in Nat \ {0} /\ Calls[c].answer \in Nat
           /\ Calls[c].send + Calls[c].answer <= RxSize
           /\ Answer(c) \in Nat
<1>1. BlockSize \in Nat \ {0} /\ RxSize \in Nat \ {0} /\ BlockSize + 2 <= RxSize
    BY TransportAssumption, StreamAssumption
<1>2. c \in {"ldcs", "st", "read", "acks_off", "acks_on", "block"}
    BY DEF Calls
<1>3. BlockSize \div 2 \in Nat
    BY <1>1
<1>4. QED
    BY <1>1, <1>2, <1>3 DEF Calls, Answer

\* The parts of the echo that are asked for one after the other.
LEMMA EchoWantIs ==
    ASSUME NEW c \in DOMAIN Calls, c = call, NEW d \in Nat, d < Calls[c].send
    PROVE  /\ EchoWant(d) \in Nat \ {0} /\ EchoWant(d) <= Calls[c].send - d
           /\ Min({Scratch, Calls[c].send - d}) = EchoWant(d)
<1>1. Calls[c].send \in Nat /\ Scratch \in Nat \ {0}
    BY CallsAre, TransportAssumption
<1>2. Calls[c].send - d \in Nat \ {0}
    BY <1>1
<1>3. Min({Scratch, Calls[c].send - d})
          = IF Scratch <= Calls[c].send - d THEN Scratch ELSE Calls[c].send - d
    BY <1>1, <1>2, MinOf
<1>4. QED
    BY <1>1, <1>2, <1>3 DEF EchoWant

LEMMA ModIs ==
    ASSUME NEW n \in Nat
    PROVE  Mod(n) \in 0..(Ticks - 1) /\ (n < Ticks => Mod(n) = n)
BY TimeoutAssumption DEF Mod

\* A deadline that does not wrap is in the future.
LEMMA DeadlineIs ==
    ASSUME NEW ms \in {EchoMs, AnswerMs}, tick \in 0..(Ticks - 1)
    PROVE  /\ Mod(tick + ms_to_ticks(ms)) \in Nat
           /\ (tick + ms_to_ticks(ms) >= Ticks) \in BOOLEAN
           /\ ~(tick + ms_to_ticks(ms) >= Ticks) => tick < Mod(tick + ms_to_ticks(ms))
<1>1. ms_to_ticks(ms) \in Nat \ {0} /\ Ticks \in Nat \ {0}
    BY TimeoutAssumption
<1>2. tick + ms_to_ticks(ms) \in Nat
    BY <1>1
<1>3. QED
    BY <1>1, <1>2, ModIs

\* What can be taken never exceeds what is asked for.
LEMMA AvailableIs ==
    ASSUME TypeOK, Len(got) <= want
    PROVE  /\ Available \in 0..Len(rx) /\ Len(got) + Available <= want
           /\ Available < Len(rx) => Len(got) + Available = want
<1>1. Len(rx) \in Nat /\ Len(got) \in Nat /\ want \in Nat /\ want - Len(got) \in Nat
    BY DEF TypeOK
<1>2. Available = IF Len(rx) <= want - Len(got) THEN Len(rx) ELSE want - Len(got)
    BY <1>1, MinOf DEF Available
<1>3. QED
    BY <1>1, <1>2

\* The effect of taking what is available, whoever does it.
LEMMA TakenIs ==
    ASSUME TypeOK, Len(got) <= want, Taken(Available)
    PROVE  /\ got' \in Seq(Kinds) /\ rx' \in Seq(Kinds)
           /\ Len(got') = Len(got) + Available /\ Len(rx') = Len(rx) - Available
           /\ Len(got') <= want
           /\ rx' # <<>> => Len(got') = want
           /\ \A echo \in Nat : Belongs(got, 0, echo) /\ Belongs(rx, Len(got), echo) =>
                  Belongs(got', 0, echo) /\ Belongs(rx', Len(got'), echo)
<1>1. /\ Available \in 0..Len(rx) /\ Len(got) + Available <= want
      /\ Available < Len(rx) => Len(got) + Available = want
    BY AvailableIs
<1>2. got \in Seq(Kinds) /\ rx \in Seq(Kinds)
    BY DEF TypeOK
<1>3. /\ got' = got \o SubSeq(rx, 1, Available)
      /\ rx' = SubSeq(rx, Available + 1, Len(rx))
    BY DEF Taken
<1>4. /\ SubSeq(rx, 1, Available) \in Seq(Kinds) /\ Len(SubSeq(rx, 1, Available)) = Available
      /\ SubSeq(rx, Available + 1, Len(rx)) \in Seq(Kinds)
      /\ Len(SubSeq(rx, Available + 1, Len(rx))) = Len(rx) - Available
    BY <1>1, <1>2, Parts
<1>5. /\ got' \in Seq(Kinds) /\ rx' \in Seq(Kinds)
      /\ Len(got') = Len(got) + Available /\ Len(rx') = Len(rx) - Available
    BY <1>2, <1>3, <1>4, ConcatIn
<1>6. rx' # <<>> => Len(rx') > 0
    BY <1>5
<1>7. ASSUME NEW echo \in Nat, Belongs(got, 0, echo), Belongs(rx, Len(got), echo)
      PROVE  Belongs(got', 0, echo) /\ Belongs(rx', Len(got'), echo)
    BY <1>1, <1>2, <1>3, <1>5, <1>7, BelongsTaken
<1>8. QED
    BY <1>1, <1>2, <1>5, <1>6, <1>7

-----------------------------------------------------------------------------
(* Types, and the arguments of the receive under way.                      *)

LEMMA InitTypes == Init => TypeOK /\ WantInv
<1>1. Ticks \in Nat \ {0}
    BY TimeoutAssumption
<1>2. <<>> \in Seq(Kinds)
    OBVIOUS
<1>3. ASSUME Init  PROVE TypeOK
    BY <1>1, <1>2, <1>3 DEF Init, TypeOK, Calls
<1>4. ASSUME Init  PROVE WantInv
    BY <1>4 DEF Init, WantInv
<1>5. QED
    BY <1>3, <1>4

\* A receive that is called has the arguments it was called with.
LEMMA ReceiveIs ==
    ASSUME tick \in 0..(Ticks - 1), NEW what \in {"echo", "answer"}, NEW len \in Nat,
           NEW ms \in {EchoMs, AnswerMs}, Receive(what, len, ms)
    PROVE  /\ pc' = "head" /\ for' = what /\ want' = len /\ got' = <<>>
           /\ got' \in Seq(Kinds) /\ Len(got') = 0
           /\ deadline' \in Nat /\ overrun' \in BOOLEAN
           /\ ~overrun' => tick < deadline'
<1>1. pc' = "head" /\ for' = what /\ want' = len /\ got' = <<>>
    BY DEF Receive
<1>2. got' \in Seq(Kinds) /\ Len(got') = 0
    BY <1>1
<1>3. /\ deadline' = Mod(tick + ms_to_ticks(ms))
      /\ overrun' = (tick + ms_to_ticks(ms) >= Ticks)
    BY DEF Receive
<1>4. /\ deadline' \in Nat
      /\ ~(tick + ms_to_ticks(ms) >= Ticks) => tick < deadline'
    BY <1>3, DeadlineIs
<1> DEFINE wraps == tick + ms_to_ticks(ms) >= Ticks
<1>5. wraps \in BOOLEAN /\ overrun' = wraps /\ (~wraps => tick < deadline')
    BY <1>3, <1>4
<1> HIDE DEF wraps
<1>6. overrun' \in BOOLEAN /\ (~overrun' => tick < deadline')
    BY <1>5
<1>7. QED
    BY <1>1, <1>2, <1>4, <1>6

LEMMA TickTypes == TypeOK /\ WantInv /\ Tick => (TypeOK /\ WantInv)'
<1> SUFFICES ASSUME TypeOK, WantInv, Tick  PROVE (TypeOK /\ WantInv)'
    OBVIOUS
<1>1. tick' \in 0..(Ticks - 1)
    BY ModIs DEF Tick, TypeOK
<1>2. left' \in Nat /\ faults' \in Nat
    BY DEF Tick, TypeOK
<1>3. elapsed' \in Nat
    <2>1. elapsed + 1 \in Nat /\ Ticks \in Nat
        BY TimeoutAssumption DEF TypeOK
    <2>2. Min({elapsed + 1, Ticks}) \in Nat
        BY <2>1, MinOf
    <2>3. QED
        BY <2>2 DEF Tick
<1>4. TypeOK'
    BY <1>1, <1>2, <1>3 DEF Tick, TypeOK
<1>5. WantInv'
    BY DEF Tick, WantInv, EchoWant
<1>6. QED
    BY <1>4, <1>5

LEMMA WireTypes == TypeOK /\ WantInv /\ (rx_callback \/ Disturb) => (TypeOK /\ WantInv)'
<1> SUFFICES ASSUME TypeOK, WantInv, rx_callback \/ Disturb  PROVE (TypeOK /\ WantInv)'
    OBVIOUS
<1>1. wire # <<>> => Tail(wire) \in Seq(Kinds) /\ Append(rx, Head(wire)) \in Seq(Kinds)
    BY DEF TypeOK
<1>2. wire' \in Seq(Kinds) /\ rx' \in Seq(Kinds)
    BY <1>1 DEF rx_callback, Disturb, TypeOK
<1>3. UNCHANGED <<tick, acks, thread, start, elapsed>>
    BY DEF rx_callback, Disturb
<1>a. faults' \in Nat
    BY DEF rx_callback, Disturb, TypeOK
<1>b. late' \in BOOLEAN
    BY DEF rx_callback, Disturb, TypeOK
<1>c. clean' \in BOOLEAN
    BY DEF rx_callback, Disturb, TypeOK
<1>4. TypeOK'
    BY <1>2, <1>3, <1>a, <1>b, <1>c DEF TypeOK, thread
<1>5. WantInv'
    BY <1>3 DEF WantInv, thread, EchoWant
<1>6. QED
    BY <1>4, <1>5

LEMMA SendTypes == TypeOK /\ WantInv /\ Send => (TypeOK /\ WantInv)'
<1> SUFFICES ASSUME TypeOK, WantInv, Send  PROVE (TypeOK /\ WantInv)'
    OBVIOUS
<1>1. PICK c \in NextCalls :
        /\ call' = c /\ discarded' = 0 /\ rx' = Stale(rx)
        /\ \/ /\ wire' = Stale(wire) \o Bytes("echo", Calls[c].send) \o Bytes("answer", Answer(c))
              /\ acks' = AcksAfter(c)
              /\ UNCHANGED <<faults, clean>>
           \/ /\ faults < MaxFaults
              /\ wire' = Stale(wire) \o Bytes("echo", Calls[c].send)
              /\ faults' = faults + 1 /\ clean' = FALSE
              /\ UNCHANGED acks
        /\ Receive("echo", Min({Scratch, Calls[c].send}), EchoMs)
    BY DEF Send
<1>2. c \in DOMAIN Calls
    BY <1>1 DEF NextCalls, Calls
<1>3. Calls[c].send \in Nat \ {0} /\ Answer(c) \in Nat
    BY <1>2, CallsAre
<1>4. /\ Stale(wire) \in Seq(Kinds) /\ Bytes("echo", Calls[c].send) \in Seq(Kinds)
      /\ Bytes("answer", Answer(c)) \in Seq(Kinds) /\ Stale(rx) \in Seq(Kinds)
    BY <1>3, BytesAre, StaleAre DEF TypeOK, Kinds
<1>5. /\ Stale(wire) \o Bytes("echo", Calls[c].send) \in Seq(Kinds)
      /\ Stale(wire) \o Bytes("echo", Calls[c].send) \o Bytes("answer", Answer(c)) \in Seq(Kinds)
    BY <1>4, ConcatIn
<1>6. Calls[c].send - 0 = Calls[c].send
    BY <1>3
<1>7. Min({Scratch, Calls[c].send}) = EchoWant(0)' /\ EchoWant(0)' \in Nat
    <2>1. Scratch \in Nat
        BY TransportAssumption
    <2>2. Min({Scratch, Calls[c].send}) \in Nat
        BY <2>1, <1>3, MinOf
    <2>3. QED
        BY <2>2, <1>1, <1>6 DEF EchoWant
<1>8. /\ pc' = "head" /\ for' = "echo" /\ want' = Min({Scratch, Calls[c].send}) /\ got' = <<>>
      /\ got' \in Seq(Kinds) /\ Len(got') = 0
      /\ deadline' \in Nat /\ overrun' \in BOOLEAN
    BY <1>1, <1>7, ReceiveIs DEF TypeOK
<1>9. acks' \in BOOLEAN /\ clean' \in BOOLEAN /\ faults' \in Nat
    <2>1. AcksAfter(c) \in BOOLEAN
        BY DEF TypeOK, AcksAfter
    <2>2. faults + 1 \in Nat
        BY DEF TypeOK
    <2>3. QED
        BY <1>1, <2>1, <2>2 DEF TypeOK
<1>10. status' = "running" /\ UNCHANGED <<tick, left, start, late, elapsed>>
    BY DEF Send
<1>11. TypeOK'
    BY <1>1, <1>2, <1>4, <1>5, <1>7, <1>8, <1>9, <1>10 DEF TypeOK
<1>12. WantInv'
    BY <1>1, <1>3, <1>7, <1>8, <1>10 DEF WantInv
<1>13. QED
    BY <1>11, <1>12

LEMMA RecvTypes == TypeOK /\ WantInv /\ (RecvHead \/ RecvBlocked) => (TypeOK /\ WantInv)'
<1> SUFFICES ASSUME TypeOK, WantInv, RecvHead \/ RecvBlocked  PROVE (TypeOK /\ WantInv)'
    OBVIOUS
<1>1. pc # "idle" /\ Len(got) <= want
    BY DEF RecvHead, RecvBlocked, WantInv
<1>2. got' \in Seq(Kinds) /\ rx' \in Seq(Kinds) /\ Len(got') <= want
    BY <1>1, TakenIs DEF RecvHead, RecvBlocked, TypeOK
<1>3. left' \in Nat /\ pc' \in {"head", "blocked", "received"}
    BY DEF RecvHead, RecvBlocked, TypeOK
<1>4. UNCHANGED <<tick, wire, acks, for, call, discarded, want, deadline, status, overrun,
                  start, faults, late, clean, elapsed>>
    BY DEF RecvHead, RecvBlocked
<1>5. TypeOK'
    BY <1>2, <1>3, <1>4 DEF TypeOK
<1>6. WantInv'
    BY <1>1, <1>2, <1>3, <1>4 DEF WantInv, EchoWant
<1>7. QED
    BY <1>5, <1>6

\* A call that returns leaves no receive under way.
LEMMA ReturnIs ==
    ASSUME TypeOK, NEW s \in {"Ok", "ErrTransport", "ErrTimeout"}, Return(s)
    PROVE  /\ pc' = "idle" /\ status' = s /\ for' = "echo" /\ want' = 0 /\ deadline' = 0
           /\ discarded' = 0 /\ overrun' = overrun
           /\ got' \in Seq(Kinds)
           /\ s = "Ok" => got' = got
           /\ clean' \in BOOLEAN
           /\ clean' <=> (clean /\ s = "Ok")
<1> DEFINE stays == clean /\ s = "Ok"
<1>1. clean' = stays /\ stays \in BOOLEAN
    BY DEF Return
<1> HIDE DEF stays
<1>2. clean' \in BOOLEAN /\ (clean' <=> stays)
    BY <1>1
<1>3. /\ pc' = "idle" /\ status' = s /\ for' = "echo" /\ want' = 0 /\ deadline' = 0
      /\ discarded' = 0 /\ overrun' = overrun
      /\ got' \in Seq(Kinds)
      /\ s = "Ok" => got' = got
    BY DEF Return, TypeOK
<1>4. QED
    BY <1>2, <1>3 DEF stays

LEMMA EchoTypes == TypeOK /\ WantInv /\ EchoReceived => (TypeOK /\ WantInv)'
<1> SUFFICES ASSUME TypeOK, WantInv, EchoReceived  PROVE (TypeOK /\ WantInv)'
    OBVIOUS
<1> DEFINE dropped == discarded + Len(got)
<1>1. UNCHANGED <<tick, wire, rx, acks, call, left, start, faults, late, elapsed>>
    BY DEF EchoReceived
<1>2. dropped \in Nat
    BY DEF TypeOK
<1>3. call \in DOMAIN Calls /\ Calls[call].answer \in Nat
    BY CallsAre DEF TypeOK
<1>4. CASE \E s \in {"Ok", "ErrTransport"} : Return(s)
    <2>1. PICK s \in {"Ok", "ErrTransport"} : Return(s)
        BY <1>4
    <2>2. /\ pc' = "idle" /\ status' = s /\ for' = "echo" /\ want' = 0 /\ deadline' = 0
          /\ discarded' = 0 /\ overrun' = overrun /\ got' \in Seq(Kinds) /\ clean' \in BOOLEAN
        BY <2>1, ReturnIs
    <2>3. QED
        BY <1>1, <2>2 DEF TypeOK, WantInv
<1>5. CASE /\ dropped < Calls[call].send /\ Receive("echo", EchoWant(dropped), EchoMs)
           /\ discarded' = dropped /\ UNCHANGED <<status, clean>>
    <2>1. EchoWant(dropped) \in Nat
        BY <1>2, <1>3, <1>5, EchoWantIs
    <2>2. /\ pc' = "head" /\ for' = "echo" /\ want' = EchoWant(dropped)
          /\ got' \in Seq(Kinds) /\ Len(got') = 0 /\ deadline' \in Nat /\ overrun' \in BOOLEAN
        BY <2>1, <1>5, ReceiveIs DEF TypeOK
    <2>3. TypeOK'
        BY <1>1, <1>2, <1>5, <2>1, <2>2 DEF TypeOK
    <2>4. EchoWant(dropped)' = EchoWant(dropped') /\ EchoWant(discarded)' = EchoWant(dropped)
        BY <1>1, <1>5 DEF EchoWant
    <2>5. WantInv'
        BY <1>1, <1>5, <2>1, <2>2, <2>4 DEF WantInv, EchoReceived
    <2>6. QED
        BY <2>3, <2>5
<1>6. CASE /\ Calls[call].answer > 0 /\ Receive("answer", Calls[call].answer, AnswerMs)
           /\ discarded' = dropped /\ UNCHANGED <<status, clean>>
    <2>1. /\ pc' = "head" /\ for' = "answer" /\ want' = Calls[call].answer
          /\ got' \in Seq(Kinds) /\ Len(got') = 0 /\ deadline' \in Nat /\ overrun' \in BOOLEAN
        BY <1>3, <1>6, ReceiveIs DEF TypeOK
    <2>2. TypeOK'
        BY <1>1, <1>2, <1>3, <1>6, <2>1 DEF TypeOK
    <2>3. WantInv'
        BY <1>1, <1>3, <1>6, <2>1 DEF WantInv, EchoReceived
    <2>4. QED
        BY <2>2, <2>3
<1>7. QED
    BY <1>4, <1>5, <1>6 DEF EchoReceived

LEMMA AnswerTypes == TypeOK /\ WantInv /\ AnswerReceived => (TypeOK /\ WantInv)'
<1> SUFFICES ASSUME TypeOK, WantInv, AnswerReceived  PROVE (TypeOK /\ WantInv)'
    OBVIOUS
<1>1. PICK s \in {"Ok", "ErrTimeout"} : Return(s)
    BY DEF AnswerReceived
<1>2. /\ pc' = "idle" /\ status' = s /\ for' = "echo" /\ want' = 0 /\ deadline' = 0
      /\ discarded' = 0 /\ overrun' = overrun /\ got' \in Seq(Kinds) /\ clean' \in BOOLEAN
    BY <1>1, ReturnIs
<1>3. QED
    BY <1>2 DEF AnswerReceived, TypeOK, WantInv

LEMMA OtherTypes ==
    TypeOK /\ WantInv /\ (furi_double_break_impl \/ StartWait \/ EndWait) => (TypeOK /\ WantInv)'
<1> SUFFICES ASSUME TypeOK, WantInv, furi_double_break_impl \/ StartWait \/ EndWait
             PROVE  (TypeOK /\ WantInv)'
    OBVIOUS
<1>1. <<>> \in Seq(Kinds)
    OBVIOUS
<1>2. CASE furi_double_break_impl
    BY <1>1, <1>2 DEF furi_double_break_impl, TypeOK, WantInv, StreamReset
<1>3. CASE StartWait
    BY <1>3 DEF StartWait, TypeOK, WantInv
<1>4. CASE EndWait
    BY <1>4 DEF EndWait, TypeOK, WantInv, thread, EchoWant
<1>5. QED
    BY <1>2, <1>3, <1>4

LEMMA TypesStep == TypeOK /\ WantInv /\ [Next]_vars => (TypeOK /\ WantInv)'
<1> SUFFICES ASSUME TypeOK, WantInv, [Next]_vars  PROVE (TypeOK /\ WantInv)'
    OBVIOUS
<1>1. CASE UNCHANGED vars
    BY <1>1 DEF vars, thread, TypeOK, WantInv, EchoWant
<1>2. CASE Next
    BY <1>2, TickTypes, WireTypes, SendTypes, RecvTypes, EchoTypes, AnswerTypes, OtherTypes
    DEF Next
<1>3. QED
    BY <1>1, <1>2

-----------------------------------------------------------------------------
(* The bytes that are due.                                                 *)

\* What a receive asks for is due.
LEMMA WantIsDue ==
    ASSUME TypeOK, WantInv, pc # "idle"
    PROVE  /\ EchoLeft \in Nat /\ Calls[call].answer \in Nat /\ want \in Nat \ {0}
           /\ EchoLeft + Calls[call].answer <= RxSize
           /\ want <= EchoLeft + Calls[call].answer
           /\ for = "echo" => want <= EchoLeft
<1>1. /\ Calls[call].answer \in Nat /\ Calls[call].send \in Nat /\ discarded \in Nat
      /\ Calls[call].send + Calls[call].answer <= RxSize /\ RxSize \in Nat
    BY CallsAre, TransportAssumption DEF TypeOK
<1>2. CASE for = "echo"
    <2>1. /\ want <= Calls[call].send - discarded /\ want \in Nat \ {0}
          /\ discarded < Calls[call].send
        BY <1>2, EchoWantIs DEF WantInv, TypeOK
    <2>2. EchoLeft = Calls[call].send - discarded
        BY <1>2 DEF EchoLeft
    <2>3. QED
        BY <1>1, <1>2, <2>1, <2>2
<1>3. CASE for = "answer"
    BY <1>1, <1>3 DEF EchoLeft, WantInv, TypeOK
<1>4. QED
    BY <1>2, <1>3 DEF TypeOK

LEMMA InitClean == Init => CleanInv
BY DEF Init, CleanInv, StreamInv, IdleInv, AcksInv, PromptInv

\* A disturbance, a failure or a frame that is not heard ends what CleanInv speaks of.
LEMMA UncleanStep == ~clean' => CleanInv'
BY DEF CleanInv, StreamInv, IdleInv, AcksInv, PromptInv

LEMMA TickClean == TypeOK /\ WantInv /\ CleanInv /\ Tick => CleanInv'
<1> SUFFICES ASSUME TypeOK, WantInv, CleanInv, Tick, clean  PROVE CleanInv'
    BY DEF Tick, CleanInv, StreamInv, IdleInv, AcksInv, PromptInv
<1>1. /\ UNCHANGED <<wire, rx, acks, pc, for, call, discarded, want, got, deadline, status,
                     overrun, start, late, clean>>
    BY DEF Tick
<1>2. wire = <<>>
    BY DEF Tick, CleanInv, IdleInv
<1>3. pc # "blocked"
    <2>1. SUFFICES ASSUME pc = "blocked"  PROVE FALSE
        OBVIOUS
    <2>2. rx = <<>> /\ Len(got) < want
        BY <2>1 DEF Tick, CleanInv, PromptInv
    <2>3. Len(got) + Len(rx) + Len(wire) = EchoLeft + Calls[call].answer
        BY <2>1 DEF CleanInv, StreamInv
    <2>4. want <= EchoLeft + Calls[call].answer
        BY <2>1, WantIsDue
    <2>5. Len(rx) = 0 /\ Len(wire) = 0 /\ Len(got) \in Nat /\ want \in Nat
        BY <1>2, <2>2 DEF TypeOK
    <2>6. EchoLeft + Calls[call].answer = Len(got)
        BY <2>3, <2>5
    <2>7. QED
        BY <2>2, <2>4, <2>5, <2>6
<1>4. EchoLeft' = EchoLeft
    BY <1>1 DEF EchoLeft
<1>5. StreamInv'
    BY <1>1, <1>4 DEF StreamInv, CleanInv, Belongs
<1>6. IdleInv' /\ AcksInv'
    BY <1>1 DEF IdleInv, AcksInv, CleanInv
<1>7. PromptInv'
    BY <1>1, <1>2, <1>3 DEF PromptInv, CleanInv
<1>8. QED
    BY <1>5, <1>6, <1>7 DEF CleanInv

LEMMA CallbackClean == TypeOK /\ WantInv /\ CleanInv /\ rx_callback => CleanInv'
<1> SUFFICES ASSUME TypeOK, WantInv, CleanInv, rx_callback, clean'  PROVE CleanInv'
    BY UncleanStep
<1>1. /\ wire # <<>> /\ wire' = Tail(wire) /\ late' = FALSE
      /\ UNCHANGED <<tick, acks, start, faults, clean, elapsed>>
      /\ UNCHANGED <<pc, for, call, discarded, want, got, deadline, left, status, overrun>>
      /\ rx' = IF Len(rx) < RxSize THEN Append(rx, Head(wire)) ELSE rx
    BY DEF rx_callback, thread
<1>2. clean /\ pc # "idle"
    BY <1>1 DEF CleanInv, IdleInv
<1>3. /\ EchoLeft \in Nat /\ Calls[call].answer \in Nat
      /\ EchoLeft + Calls[call].answer <= RxSize
    BY <1>2, WantIsDue
<1>4. /\ Len(got) + Len(rx) + Len(wire) = EchoLeft + Calls[call].answer
      /\ Belongs(got, 0, EchoLeft) /\ Belongs(rx, Len(got), EchoLeft)
      /\ Belongs(wire, Len(got) + Len(rx), EchoLeft)
    BY <1>2 DEF CleanInv, StreamInv
<1>5. Len(got) \in Nat /\ Len(rx) \in Nat /\ Len(wire) \in Nat \ {0}
    BY <1>1 DEF TypeOK
<1>6. Len(rx) < RxSize
    <2>1. RxSize \in Nat
        BY TransportAssumption
    <2>2. QED
        BY <1>3, <1>4, <1>5, <2>1
<1>7. rx' = Append(rx, Head(wire))
    BY <1>1, <1>6
<1>8. /\ Len(rx') = Len(rx) + 1 /\ Len(wire') = Len(wire) - 1
      /\ Belongs(rx', Len(got), EchoLeft)
      /\ Belongs(wire', Len(got) + Len(rx) + 1, EchoLeft)
    BY <1>1, <1>3, <1>4, <1>5, <1>7, BelongsArrive DEF TypeOK
<1>9. EchoLeft' = EchoLeft
    BY <1>1 DEF EchoLeft
<1>10. Len(got) + (Len(rx) + 1) = Len(got) + Len(rx) + 1
    BY <1>5
<1>11. StreamInv'
    BY <1>1, <1>4, <1>5, <1>8, <1>9, <1>10 DEF StreamInv
<1>12. IdleInv' /\ AcksInv'
    BY <1>1, <1>2 DEF IdleInv, AcksInv, CleanInv
<1>13. PromptInv'
    BY <1>1 DEF PromptInv, CleanInv
<1>14. QED
    BY <1>11, <1>12, <1>13 DEF CleanInv

\* What the acknowledgements are when a call is sent, the target answers as the
\* call expects.
LEMMA SendAnswer ==
    ASSUME TypeOK, WantInv, CleanInv, clean, pc = "idle", NEW c \in NextCalls
    PROVE  /\ Answer(c) = Calls[c].answer
           /\ ~AcksAfter(c) => c \in {"acks_off", "block"} /\ start = <<>>
           /\ c = "acks_off" => ~AcksAfter(c)
<1>1. status \in {"Ok", "none"}
    BY DEF CleanInv, IdleInv
<1>2. ~acks => start = <<>> /\ status = "Ok" /\ call \in {"acks_off", "block"}
    BY <1>1 DEF CleanInv, AcksInv
<1>3. ~acks => c \in {"block", "acks_on"}
    BY <1>2 DEF NextCalls
<1>4. c = "block" => ~acks
    BY <1>1 DEF NextCalls, CleanInv, AcksInv, Calls
<1>5. c \in {"ldcs", "st", "read", "acks_off", "acks_on", "block"}
    BY DEF NextCalls, Calls
<1>6. Answer(c) = Calls[c].answer
    BY <1>3, <1>4, <1>5 DEF Answer, Calls
<1>7. ~AcksAfter(c) => c \in {"acks_off", "block"} /\ start = <<>>
    <2>1. c = "acks_off" => start = <<>>
        BY DEF NextCalls
    <2>2. QED
        BY <2>1, <1>2, <1>3 DEF AcksAfter
<1>8. QED
    BY <1>6, <1>7 DEF AcksAfter

LEMMA SendClean == TypeOK /\ WantInv /\ CleanInv /\ Send => CleanInv'
<1> SUFFICES ASSUME TypeOK, WantInv, CleanInv, Send, clean'  PROVE CleanInv'
    BY UncleanStep
<1>1. PICK c \in NextCalls :
        /\ call' = c /\ discarded' = 0 /\ rx' = Stale(rx)
        /\ wire' = Stale(wire) \o Bytes("echo", Calls[c].send) \o Bytes("answer", Answer(c))
        /\ acks' = AcksAfter(c) /\ UNCHANGED <<faults, clean>>
        /\ Receive("echo", Min({Scratch, Calls[c].send}), EchoMs)
    BY DEF Send
<1>2. /\ pc = "idle" /\ status' = "running" /\ UNCHANGED <<tick, left, start, late, elapsed>>
    BY DEF Send
<1>3. clean /\ wire = <<>> /\ rx = <<>> /\ ~late
    BY <1>1, <1>2 DEF CleanInv, IdleInv
<1>4. c \in DOMAIN Calls /\ Calls[c].send \in Nat \ {0} /\ Calls[c].answer \in Nat
    <2>1. c \in DOMAIN Calls
        BY DEF NextCalls, Calls
    <2>2. QED
        BY <2>1, CallsAre
<1>5. /\ Answer(c) = Calls[c].answer
      /\ ~AcksAfter(c) => c \in {"acks_off", "block"} /\ start = <<>>
      /\ c = "acks_off" => ~AcksAfter(c)
    BY <1>2, <1>3, SendAnswer
<1>6. Min({Scratch, Calls[c].send}) \in Nat
    <2>1. Scratch \in Nat
        BY TransportAssumption
    <2>2. QED
        BY <2>1, <1>4, MinOf
<1>7. /\ pc' = "head" /\ for' = "echo" /\ got' = <<>> /\ got' \in Seq(Kinds) /\ Len(got') = 0
      /\ ~overrun' => tick < deadline'
    BY <1>1, <1>6, ReceiveIs DEF TypeOK
<1>8. Len(wire) = 0 /\ Len(rx) = 0
    BY <1>3
<1>9. /\ Len(wire') = Calls[c].send + Calls[c].answer
      /\ Belongs(wire', 0, Calls[c].send)
    <2>1. wire' = Stale(wire) \o Bytes("echo", Calls[c].send) \o Bytes("answer", Calls[c].answer)
        BY <1>1, <1>5
    <2>2. wire \in Seq(Kinds) /\ Calls[c].send \in Nat /\ Calls[c].answer \in Nat
        BY <1>4 DEF TypeOK
    <2>3. QED
        BY <1>8, <2>1, <2>2, BelongsSent
<1>10. Len(rx') = 0
    BY <1>1, <1>8, StaleAre DEF TypeOK
<1>11. EchoLeft' = Calls[c].send
    BY <1>1, <1>4, <1>7 DEF EchoLeft
<1>12. Belongs(got', 0, Calls[c].send) /\ Belongs(rx', 0, Calls[c].send)
    BY <1>7, <1>10 DEF Belongs
<1>13. StreamInv'
    BY <1>1, <1>4, <1>7, <1>9, <1>10, <1>11, <1>12 DEF StreamInv
<1>14. IdleInv'
    BY <1>2, <1>3, <1>7 DEF IdleInv
<1>15. AcksInv'
    BY <1>1, <1>2, <1>5 DEF AcksInv
<1>16. PromptInv'
    BY <1>2, <1>7 DEF PromptInv
<1>17. QED
    BY <1>13, <1>14, <1>15, <1>16 DEF CleanInv

LEMMA RecvClean == TypeOK /\ WantInv /\ CleanInv /\ (RecvHead \/ RecvBlocked) => CleanInv'
<1> SUFFICES ASSUME TypeOK, WantInv, CleanInv, RecvHead \/ RecvBlocked, clean'
             PROVE  CleanInv'
    BY UncleanStep
<1>1. /\ UNCHANGED <<tick, wire, acks, for, call, discarded, want, deadline, status, overrun,
                     start, faults, late, clean, elapsed>>
      /\ clean /\ pc # "idle" /\ pc' # "idle"
    BY DEF RecvHead, RecvBlocked
<1>2. /\ Len(got) + Len(rx) + Len(wire) = EchoLeft + Calls[call].answer
      /\ Belongs(got, 0, EchoLeft) /\ Belongs(rx, Len(got), EchoLeft)
      /\ Belongs(wire, Len(got) + Len(rx), EchoLeft)
      /\ Len(got) <= want
    BY <1>1 DEF CleanInv, StreamInv, WantInv
<1>3. /\ EchoLeft \in Nat /\ Calls[call].answer \in Nat /\ want \in Nat
      /\ want <= EchoLeft + Calls[call].answer
    BY <1>1, WantIsDue
<1>4. /\ Available \in 0..Len(rx) /\ Len(got) \in Nat /\ Len(rx) \in Nat /\ Len(wire) \in Nat
      /\ wire = <<>> <=> Len(wire) = 0
      /\ rx = <<>> <=> Len(rx) = 0
    BY <1>2, AvailableIs DEF TypeOK
<1>5. EchoLeft' = EchoLeft
    BY <1>1 DEF EchoLeft
<1>6. IdleInv' /\ AcksInv'
    BY <1>1 DEF IdleInv, AcksInv, CleanInv
<1>7. ASSUME Taken(Available)
      PROVE  /\ StreamInv' /\ got' \in Seq(Kinds) /\ rx' \in Seq(Kinds)
             /\ Len(got') + Len(rx') = Len(got) + Len(rx)
             /\ Len(got') <= want
             /\ rx' # <<>> => Len(got') = want
    <2>1. /\ got' \in Seq(Kinds) /\ rx' \in Seq(Kinds)
          /\ Len(got') = Len(got) + Available /\ Len(rx') = Len(rx) - Available
          /\ Len(got') <= want
          /\ rx' # <<>> => Len(got') = want
          /\ Belongs(got', 0, EchoLeft) /\ Belongs(rx', Len(got'), EchoLeft)
        BY <1>2, <1>3, <1>7, TakenIs
    <2>2. Len(got') + Len(rx') = Len(got) + Len(rx)
        BY <1>4, <2>1
    <2>3. StreamInv'
        BY <1>1, <1>2, <1>5, <2>1, <2>2 DEF StreamInv
    <2>4. QED
        BY <2>1, <2>2, <2>3
<1>8. UNCHANGED <<rx, got>> => StreamInv'
    BY <1>1, <1>2, <1>5 DEF StreamInv
<1>9. CASE /\ pc = "head" /\ Len(got) = want /\ pc' = "received" /\ UNCHANGED <<rx, got>>
    BY <1>1, <1>6, <1>8, <1>9 DEF PromptInv, CleanInv
<1>10. CASE /\ pc = "head" /\ Len(got) < want /\ tick >= deadline
            /\ Taken(Available) /\ pc' = "received"
    <2>1. ASSUME ~overrun  PROVE Len(got') = want
        <3>1. wire = <<>>
            <4>1. ~(tick < deadline)
                BY <1>10 DEF TypeOK
            <4>2. QED
                BY <1>1, <1>10, <2>1, <4>1 DEF CleanInv, PromptInv
        <3>2. CASE rx' = <<>>
            <4>1. Len(rx') = 0 /\ Len(wire) = 0
                BY <1>4, <3>1, <3>2
            <4>2. Len(got') = EchoLeft + Calls[call].answer /\ Len(got') \in Nat
                BY <1>2, <1>3, <1>4, <1>7, <1>10, <4>1
            <4>3. QED
                BY <1>3, <1>7, <1>10, <4>2
        <3>3. QED
            BY <1>7, <1>10, <3>2
    <2>2. PromptInv'
        BY <1>1, <1>10, <2>1 DEF PromptInv
    <2>3. QED
        BY <1>6, <1>7, <1>10, <2>2 DEF CleanInv
<1>11. CASE /\ pc = "head" /\ Len(got) < want /\ tick < deadline
            /\ left' = deadline - tick /\ pc' = "blocked" /\ UNCHANGED <<rx, got>>
    <2>1. left' > 0 /\ Len(got') < want'
        BY <1>1, <1>11 DEF TypeOK
    <2>2. PromptInv'
        BY <1>1, <1>11, <2>1 DEF PromptInv
    <2>3. QED
        BY <1>6, <1>8, <1>11, <2>2 DEF CleanInv
<1>12. CASE pc = "blocked" /\ Taken(Available) /\ pc' = "head"
    <2>1. PromptInv'
        BY <1>1, <1>12 DEF PromptInv, CleanInv
    <2>2. QED
        BY <1>6, <1>7, <1>12, <2>1 DEF CleanInv
<1>13. ~(pc = "blocked" /\ left = 0)
    BY <1>1 DEF CleanInv, PromptInv
<1>14. QED
    BY <1>9, <1>10, <1>11, <1>12, <1>13 DEF RecvHead, RecvBlocked

\* The next receive of a call asks for what is left after what it got of the echo.
LEMMA NextReceiveClean ==
    ASSUME TypeOK, WantInv, CleanInv, clean, pc # "idle",
           NEW what \in {"echo", "answer"}, NEW len \in Nat, NEW ms \in {EchoMs, AnswerMs},
           Receive(what, len, ms), EchoLeft' = EchoLeft - Len(got), Len(got) <= EchoLeft,
           status' = status, clean' = clean,
           UNCHANGED <<tick, wire, rx, acks, call, left, start, faults, late, elapsed>>
    PROVE  CleanInv'
<1>1. /\ pc' = "head" /\ got' \in Seq(Kinds) /\ Len(got') = 0
      /\ ~overrun' => tick < deadline'
    BY ReceiveIs DEF TypeOK
<1>2. /\ EchoLeft \in Nat /\ Calls[call].answer \in Nat
      /\ Len(got) \in Nat /\ Len(rx) \in Nat /\ Len(wire) \in Nat
      /\ rx \in Seq(Kinds) /\ wire \in Seq(Kinds)
    BY WantIsDue DEF TypeOK
<1>3. /\ Len(got) + Len(rx) + Len(wire) = EchoLeft + Calls[call].answer
      /\ Belongs(rx, Len(got), EchoLeft)
      /\ Belongs(wire, Len(got) + Len(rx), EchoLeft)
    BY DEF CleanInv, StreamInv
<1>4. /\ Belongs(rx, Len(got) - Len(got), EchoLeft - Len(got))
      /\ Belongs(wire, (Len(got) + Len(rx)) - Len(got), EchoLeft - Len(got))
    <2>1. Len(got) <= Len(got) /\ Len(got) <= Len(got) + Len(rx) /\ Len(got) + Len(rx) \in Nat
        BY <1>2
    <2>2. QED
        BY <1>2, <1>3, <2>1, BelongsDropped
<1>5. /\ Len(got) - Len(got) = 0 /\ (Len(got) + Len(rx)) - Len(got) = 0 + Len(rx)
      /\ 0 + Len(rx) + Len(wire) = (EchoLeft - Len(got)) + Calls[call].answer
    <2>1. \A g, r \in Nat : g - g = 0 /\ (g + r) - g = 0 + r
        OBVIOUS
    <2>2. \A g, r, w, e, a \in Nat : g + r + w = e + a => 0 + r + w = (e - g) + a
        OBVIOUS
    <2>3. Len(got) - Len(got) = 0 /\ (Len(got) + Len(rx)) - Len(got) = 0 + Len(rx)
        BY <1>2, <2>1
    <2>4. 0 + Len(rx) + Len(wire) = (EchoLeft - Len(got)) + Calls[call].answer
        <3> DEFINE g == Len(got)
                   r == Len(rx)
                   w == Len(wire)
                   a == Calls[call].answer
        <3>1. /\ EchoLeft \in Nat /\ a \in Nat /\ g \in Nat /\ r \in Nat /\ w \in Nat
              /\ g + r + w = EchoLeft + a
            BY <1>2, <1>3
        <3> HIDE DEF g, r, w, a
        <3>2. 0 + r + w = (EchoLeft - g) + a
            BY <2>2, <3>1
        <3>3. QED
            BY <3>2 DEF g, r, w, a
    <2>5. QED
        BY <2>3, <2>4
<1>6. Belongs(got', 0, EchoLeft')
    BY <1>1 DEF Belongs
<1>7. StreamInv'
    BY <1>1, <1>4, <1>5, <1>6 DEF StreamInv
<1>8. IdleInv' /\ AcksInv'
    BY <1>1 DEF IdleInv, AcksInv, CleanInv
<1>9. PromptInv'
    BY <1>1 DEF PromptInv
<1>10. QED
    BY <1>7, <1>8, <1>9 DEF CleanInv

LEMMA EchoClean == TypeOK /\ WantInv /\ CleanInv /\ EchoReceived => CleanInv'
<1> SUFFICES ASSUME TypeOK, WantInv, CleanInv, EchoReceived, clean'  PROVE CleanInv'
    BY UncleanStep
<1> DEFINE dropped == discarded + Len(got)
<1>1. /\ pc # "idle" /\ for = "echo"
      /\ UNCHANGED <<tick, wire, rx, acks, call, left, start, faults, late, elapsed>>
    BY DEF EchoReceived
<1>2. Calls[call].send \in Nat /\ Calls[call].answer \in Nat
    BY CallsAre DEF TypeOK
<1>3. /\ discarded \in Nat /\ Len(got) \in Nat /\ Len(rx) \in Nat /\ Len(wire) \in Nat
      /\ dropped \in Nat /\ discarded < Calls[call].send
      /\ EchoLeft = Calls[call].send - discarded
    BY <1>1 DEF EchoLeft, WantInv, TypeOK
<1>4. Len(got) <= EchoLeft
    <2>1. Len(got) <= want /\ want \in Nat /\ want <= EchoLeft /\ EchoLeft \in Nat
        BY <1>1, WantIsDue DEF WantInv
    <2>2. QED
        BY <2>1, <1>3
<1>5. CASE Return("ErrTransport")
    <2>1. ~clean'
        BY <1>5, ReturnIs
    <2>2. QED
        BY <2>1
<1>6. CASE /\ dropped < Calls[call].send /\ Receive("echo", EchoWant(dropped), EchoMs)
           /\ discarded' = dropped /\ UNCHANGED <<status, clean>>
    <2>1. EchoWant(dropped) \in Nat
        BY <1>3, <1>6, EchoWantIs DEF TypeOK
    <2>2. for' = "echo"
        BY <1>6 DEF Receive
    <2>3. EchoLeft' = EchoLeft - Len(got)
        BY <1>1, <1>2, <1>3, <1>6, <2>2 DEF EchoLeft
    <2>4. QED
        BY <1>1, <1>4, <1>6, <2>1, <2>3, NextReceiveClean
<1>7. CASE /\ dropped >= Calls[call].send /\ Receive("answer", Calls[call].answer, AnswerMs)
           /\ UNCHANGED <<status, clean>>
    <2>1. for' = "answer"
        BY <1>7 DEF Receive
    <2>2. EchoLeft' = EchoLeft - Len(got)
        BY <1>2, <1>3, <1>4, <1>7, <2>1 DEF EchoLeft
    <2>3. QED
        BY <1>1, <1>2, <1>4, <1>7, <2>2, NextReceiveClean
<1>8. CASE dropped >= Calls[call].send /\ Calls[call].answer = 0 /\ Return("Ok")
    <2>1. pc' = "idle" /\ status' = "Ok" /\ clean
        BY <1>8, ReturnIs
    <2>2. Len(got) = EchoLeft
        BY <1>2, <1>3, <1>4, <1>8
    <2>3. Len(got) + Len(rx) + Len(wire) = EchoLeft + Calls[call].answer
        BY <1>1, <2>1 DEF CleanInv, StreamInv
    <2>4. Len(rx) = 0 /\ Len(wire) = 0
        <3>1. Len(got) + Len(rx) + Len(wire) = Len(got) + 0
            BY <1>8, <2>2, <2>3
        <3>2. QED
            BY <1>3, <3>1
    <2>5. rx = <<>> /\ wire = <<>>
        BY <2>4 DEF TypeOK
    <2>6. IdleInv'
        BY <1>1, <1>8, <2>1, <2>5 DEF IdleInv, CleanInv
    <2>7. status = "running"
        BY <1>1 DEF WantInv
    <2>8. AcksInv'
        BY <1>1, <2>1, <2>7 DEF AcksInv, CleanInv
    <2>9. QED
        BY <2>1, <2>6, <2>8 DEF CleanInv, StreamInv, PromptInv
<1>9. QED
    BY <1>5, <1>6, <1>7, <1>8 DEF EchoReceived

LEMMA AnswerClean == TypeOK /\ WantInv /\ CleanInv /\ AnswerReceived => CleanInv'
<1> SUFFICES ASSUME TypeOK, WantInv, CleanInv, AnswerReceived, clean'  PROVE CleanInv'
    BY UncleanStep
<1>1. /\ pc = "received" /\ for = "answer"
      /\ UNCHANGED <<tick, wire, rx, acks, call, left, start, faults, late, elapsed>>
    BY DEF AnswerReceived
<1>2. Len(got) = want /\ Return("Ok")
    <2>1. Len(got) # want => Return("ErrTimeout")
        BY DEF AnswerReceived
    <2>2. Return("ErrTimeout") => ~clean'
        BY ReturnIs
    <2>3. QED
        BY <2>1, <2>2 DEF AnswerReceived
<1>3. pc' = "idle" /\ status' = "Ok" /\ got' = got /\ clean
    BY <1>2, ReturnIs
<1>4. /\ Calls[call].answer \in Nat /\ want = Calls[call].answer /\ EchoLeft = 0
      /\ Len(got) \in Nat /\ Len(rx) \in Nat /\ Len(wire) \in Nat /\ got \in Seq(Kinds)
    BY <1>1, CallsAre DEF WantInv, EchoLeft, TypeOK
<1>5. /\ Len(got) + Len(rx) + Len(wire) = EchoLeft + Calls[call].answer
      /\ Belongs(got, 0, EchoLeft)
    BY <1>1, <1>3 DEF CleanInv, StreamInv
<1>6. Len(rx) = 0 /\ Len(wire) = 0
    BY <1>2, <1>4, <1>5
<1>7. rx = <<>> /\ wire = <<>>
    BY <1>6 DEF TypeOK
<1>8. got = Bytes("answer", Calls[call].answer)
    <2>1. /\ Bytes("answer", Calls[call].answer) \in Seq(Kinds)
          /\ Len(Bytes("answer", Calls[call].answer)) = Calls[call].answer
          /\ \A i \in 1..Calls[call].answer : Bytes("answer", Calls[call].answer)[i] = "answer"
        BY <1>4, BytesAre DEF Kinds
    <2>2. \A i \in 1..Len(got) : got[i] = "answer"
        BY <1>4, <1>5 DEF Belongs
    <2>3. QED
        BY <1>2, <1>4, <2>1, <2>2, SameSeq
<1>9. IdleInv'
    BY <1>1, <1>3, <1>7, <1>8 DEF IdleInv, CleanInv
<1>10. status = "running"
    BY <1>1 DEF WantInv
<1>11. AcksInv'
    BY <1>1, <1>3, <1>10 DEF AcksInv, CleanInv
<1>12. QED
    BY <1>3, <1>9, <1>11 DEF CleanInv, StreamInv, PromptInv

LEMMA OtherClean ==
    TypeOK /\ WantInv /\ CleanInv /\ (furi_double_break_impl \/ StartWait \/ EndWait) => CleanInv'
<1> SUFFICES ASSUME TypeOK, WantInv, CleanInv, furi_double_break_impl \/ StartWait \/ EndWait
             PROVE  CleanInv'
    OBVIOUS
<1>1. CASE furi_double_break_impl
    BY <1>1 DEF furi_double_break_impl, StreamReset, CleanInv, StreamInv, IdleInv, AcksInv,
                PromptInv
<1>2. CASE StartWait
    <2>1. /\ pc = "idle" /\ start = <<>> /\ "ldcs" \in NextCalls /\ status' = "none"
          /\ UNCHANGED <<wire, rx, acks, pc, call, got, late, clean>>
        BY <1>2 DEF StartWait
    <2>2. clean => acks
        <3>1. SUFFICES ASSUME clean, ~acks  PROVE FALSE
            OBVIOUS
        <3>2. call \in {"acks_off", "block"} /\ status = "Ok"
            BY <2>1, <3>1 DEF CleanInv, AcksInv, IdleInv
        <3>3. "ldcs" \notin NextCalls
            BY <2>1, <3>2 DEF NextCalls
        <3>4. QED
            BY <2>1, <3>3
    <2>3. QED
        BY <2>1, <2>2 DEF CleanInv, StreamInv, IdleInv, AcksInv, PromptInv
<1>3. CASE EndWait
    <2>1. start' = <<>> /\ pc = "idle" /\ UNCHANGED <<wire, rx, acks, thread, late, clean>>
        BY <1>3 DEF EndWait
    <2>2. QED
        BY <2>1 DEF thread, CleanInv, StreamInv, IdleInv, AcksInv, PromptInv
<1>4. QED
    BY <1>1, <1>2, <1>3

LEMMA CleanStep == TypeOK /\ WantInv /\ CleanInv /\ [Next]_vars => CleanInv'
<1> SUFFICES ASSUME TypeOK, WantInv, CleanInv, [Next]_vars  PROVE CleanInv'
    OBVIOUS
<1>1. CASE UNCHANGED vars
    <2>1. EchoLeft' = EchoLeft
        BY <1>1 DEF vars, thread, EchoLeft
    <2>2. QED
        BY <1>1, <2>1 DEF vars, thread, CleanInv, StreamInv, IdleInv, AcksInv, PromptInv
<1>2. CASE Disturb
    <2>1. ~clean'
        BY <1>2 DEF Disturb
    <2>2. QED
        BY <2>1, UncleanStep
<1>3. QED
    BY <1>1, <1>2, TickClean, CallbackClean, SendClean, RecvClean, EchoClean, AnswerClean,
       OtherClean DEF Next

LEMMA TransportInvAlways == Spec => []TransportInv
<1>1. Init => TransportInv
    BY InitTypes, InitClean DEF TransportInv
<1>2. TransportInv /\ [Next]_vars => TransportInv'
    BY TypesStep, CleanStep DEF TransportInv
<1>3. QED
    BY <1>1, <1>2, PTL DEF Spec

-----------------------------------------------------------------------------
(* Results.                                                                *)

\* Every variable of the byte stream has its type.
THEOREM TransportTypes == Spec => []TypeOK
<1>1. TransportInv => TypeOK
    BY DEF TransportInv
<1>2. QED
    BY <1>1, TransportInvAlways, PTL

\* "leaving only genuine target responses for recv()" (furi_send_impl): while
\* nothing was lost, late or given up since the last double break, a call that
\* succeeds has got its own answer, and the stream is empty for the next.
THEOREM AnswersAreGenuine == Spec => []AnswersBelong
<1>1. TransportInv => AnswersBelong
    BY DEF TransportInv, AnswersBelong, CleanInv, IdleInv
<1>2. QED
    BY <1>1, TransportInvAlways, PTL

\* A call on a clean line fails only if something is lost or late, if the thread
\* is held up, or if the sum of its deadline wraps: furi_recv_impl never gives up
\* on a byte that is on its way.
THEOREM NeverGivesUpEarly == Spec => FailsOnlyIfDisturbed
<1>1. TransportInv /\ [Next]_vars =>
          [clean /\ ~clean' => faults' > faults \/ overrun]_vars
    <2> SUFFICES ASSUME TypeOK, WantInv, CleanInv, Next, clean, ~clean', ~overrun
                 PROVE  faults' > faults
        BY DEF vars, TransportInv
    <2>1. CASE Disturb \/ Send
        <3>1. faults' = faults + 1
            BY <2>1 DEF Disturb, Send
        <3>2. QED
            BY <3>1 DEF TypeOK
    <2>2. pc = "received" => Len(got) = want
        BY DEF CleanInv, PromptInv
    <2>3. CASE EchoReceived
        <3>1. got = <<>> /\ pc = "received"
            BY <2>3, ReturnIs DEF EchoReceived
        <3>2. Len(got) = 0 /\ want \in Nat \ {0}
            BY <3>1, WantIsDue
        <3>3. QED
            BY <2>2, <3>1, <3>2
    <2>4. CASE AnswerReceived
        <3>1. Return("Ok")
            BY <2>2, <2>4 DEF AnswerReceived
        <3>2. QED
            BY <3>1, ReturnIs
    <2>5. CASE Tick \/ rx_callback \/ RecvHead \/ RecvBlocked \/ StartWait \/ EndWait
        BY <2>5 DEF Tick, rx_callback, RecvHead, RecvBlocked, StartWait, EndWait
    <2>6. CASE furi_double_break_impl
        BY <2>6 DEF furi_double_break_impl
    <2>7. QED
        BY <2>1, <2>3, <2>4, <2>5, <2>6 DEF Next
<1>2. QED
    BY <1>1, TransportInvAlways, PTL DEF Spec, FailsOnlyIfDisturbed

-----------------------------------------------------------------------------
(* The clock of the poll loops.                                            *)

LEMMA ModWraps ==
    ASSUME NEW n \in 0..(Ticks - 1)
    PROVE  Mod(n) = n /\ Mod(n + Ticks) = n
<1>1. Ticks \in Nat \ {0}
    BY TimeoutAssumption
<1>2. (n + Ticks) % Ticks = n
    <2>1. n + Ticks = Ticks * 1 + n /\ n < Ticks
        BY <1>1
    <2>2. QED
        BY <1>1, <2>1
<1>3. QED
    BY <1>1, <1>2, ModIs DEF Mod

LEMMA ClockStep == TypeOK /\ ClockInv /\ [Next]_vars => ClockInv'
<1> SUFFICES ASSUME TypeOK, ClockInv, [Next]_vars, start' # <<>>  PROVE ClockInv'
    BY DEF ClockInv
<1>1. Ticks \in Nat \ {0} /\ tick \in 0..(Ticks - 1) /\ elapsed \in Nat
    BY TimeoutAssumption DEF TypeOK
<1>2. CASE Tick
    <2>1. /\ start' = start /\ tick' = Mod(tick + 1) /\ elapsed' = Min({elapsed + 1, Ticks})
        BY <1>2 DEF Tick
    <2>2. PICK t \in 0..(Ticks - 1) :
            /\ start = <<furi_millis_impl(t)>>
            /\ elapsed < Ticks =>
                   tick = IF t + elapsed < Ticks THEN t + elapsed ELSE t + elapsed - Ticks
        BY <2>1 DEF ClockInv
    <2>3. elapsed' = IF elapsed + 1 <= Ticks THEN elapsed + 1 ELSE Ticks
        BY <1>1, <2>1, MinOf
    <2>4. tick' = IF tick + 1 < Ticks THEN tick + 1 ELSE 0
        <3>1. CASE tick + 1 < Ticks
            BY <1>1, <2>1, <3>1, ModIs
        <3>2. CASE tick + 1 = Ticks
            BY <1>1, <2>1, <3>2, ModWraps
        <3>3. QED
            BY <1>1, <3>1, <3>2
    <2>5. elapsed' < Ticks =>
              tick' = IF t + elapsed' < Ticks THEN t + elapsed' ELSE t + elapsed' - Ticks
        BY <1>1, <2>2, <2>3, <2>4
    <2>6. QED
        BY <2>1, <2>2, <2>5 DEF ClockInv
<1>3. CASE StartWait
    <2>1. start' = <<furi_millis_impl(tick)>> /\ elapsed' = 0 /\ tick' = tick
        BY <1>3 DEF StartWait
    <2>2. tick' = IF tick + elapsed' < Ticks THEN tick + elapsed' ELSE tick + elapsed' - Ticks
        BY <1>1, <2>1
    <2>3. QED
        BY <1>1, <2>1, <2>2 DEF ClockInv
<1>4. CASE EndWait
    BY <1>4 DEF EndWait
<1>5. CASE UNCHANGED <<start, tick, elapsed>>
    BY <1>5 DEF ClockInv
<1>6. QED
    BY <1>2, <1>3, <1>4, <1>5
    DEF Next, vars, rx_callback, Disturb, Send, RecvHead, RecvBlocked, EchoReceived,
        AnswerReceived, furi_double_break_impl

LEMMA ClockInvAlways == Spec => []ClockInv
<1>1. Init => ClockInv
    BY DEF Init, ClockInv
<1>2. TransportInv /\ ClockInv /\ [Next]_vars => ClockInv'
    BY ClockStep DEF TransportInv
<1>3. QED
    BY <1>1, <1>2, TransportInvAlways, PTL DEF Spec

\* If the kernel counts milliseconds, the time of a loop is the ticks that have
\* passed, also when the counter has wrapped in between.
LEMMA TimeOfLoop ==
    ASSUME TypeOK, ClockInv, Freq = PerSecond, start # <<>>, elapsed < Ticks
    PROVE  Since(furi_millis_impl(tick), start[1]) = elapsed
<1>1. Ticks \in Nat \ {0} /\ tick \in 0..(Ticks - 1) /\ elapsed \in 0..(Ticks - 1)
    BY TimeoutAssumption DEF TypeOK
<1>2. \A t \in 0..(Ticks - 1) : furi_millis_impl(t) = t
    <2>1. PerSecond \in Nat \ {0}
        BY TransportAssumption
    <2>2. \A t \in 0..(Ticks - 1) : (t * PerSecond) \div PerSecond = t
        BY <1>1, <2>1
    <2>3. QED
        BY <2>2, ModWraps DEF furi_millis_impl
<1>3. PICK t \in 0..(Ticks - 1) :
        /\ start = <<furi_millis_impl(t)>>
        /\ tick = IF t + elapsed < Ticks THEN t + elapsed ELSE t + elapsed - Ticks
    BY DEF ClockInv
<1>4. start[1] = t /\ furi_millis_impl(tick) = tick
    BY <1>1, <1>2, <1>3
<1>5. tick + Ticks - t = elapsed + Ticks \/ tick + Ticks - t = elapsed
    BY <1>1, <1>3
<1>6. QED
    BY <1>1, <1>4, <1>5, ModWraps DEF Since

\* A poll loop gives up after its timeout and not before, whatever the counter
\* did in between, where the kernel's tick is a millisecond, as it is on the
\* device: with another rate the scaled counter of furi_millis_impl does not
\* wrap where the subtraction of the loop expects it.
THEOREM PollsEndInTime ==
    ASSUME Freq = PerSecond
    PROVE  Spec => []GivesUpInTime
<1>1. TransportInv /\ ClockInv => GivesUpInTime
    <2> SUFFICES ASSUME TransportInv, ClockInv, start # <<>>, elapsed < Ticks
                 PROVE  TimeIsUp <=> (elapsed * PerSecond) \div Freq >= WaitMs
        BY DEF GivesUpInTime
    <2>1. Since(furi_millis_impl(tick), start[1]) = elapsed
        BY TimeOfLoop DEF TransportInv
    <2>2. (elapsed * PerSecond) \div Freq = elapsed
        <3>1. PerSecond \in Nat \ {0} /\ elapsed \in Nat
            BY TransportAssumption DEF TransportInv, TypeOK
        <3>2. \A n \in Nat, k \in Nat \ {0} : (n * k) \div k = n
            OBVIOUS
        <3>3. QED
            BY <3>1, <3>2
    <2>3. QED
        BY <2>1, <2>2 DEF TimeIsUp
<1>2. QED
    BY <1>1, TransportInvAlways, ClockInvAlways, PTL
=============================================================================
