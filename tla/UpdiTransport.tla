---------------------------- MODULE UpdiTransport ----------------------------
(***************************************************************************)
(* The byte stream of transport/transport_furi.c under the calls of        *)
(* updi/updi_link.c.  On the bridge every byte that is sent comes back; an *)
(* interrupt puts what comes back into a bounded stream, and the thread    *)
(* takes out of it as many bytes as it sent, and then as many as it        *)
(* expects for an answer.  Nothing marks a byte as the one or the other:   *)
(* here it is tagged with what it is, which the program cannot see.        *)
(*                                                                         *)
(* Time is the tick counter of the kernel, which wraps.  The receiver and  *)
(* the poll loops of updi_nvm.c do arithmetic on it.                       *)
(***************************************************************************)
EXTENDS Naturals, Sequences, SequencesExt, FiniteSetsExt

CONSTANTS
    TickBits,       \* of the tick counter, 32 in the code
    Freq,           \* ticks per PerSecond milliseconds
    PerSecond,      \* 1000
    EchoMs,         \* UPDI_ECHO_TIMEOUT_MS
    AnswerMs,       \* UpdiLink.timeout_ms
    WaitMs,         \* of a poll loop
    Scratch,        \* bytes of echo dropped at once, 64
    RxSize,         \* UPDI_RX_STREAM_SIZE
    BlockSize,      \* bytes of the largest read or write
    MaxFaults       \* bytes and frames lost or late, and times the thread is held up

ASSUME TransportAssumption ==
    /\ {TickBits, Freq, PerSecond, EchoMs, AnswerMs, WaitMs, Scratch, RxSize, BlockSize}
           \subseteq Nat \ {0}
    /\ MaxFaults \in Nat

Ticks == 2 ^ TickBits
Mod(n) == n % Ticks

\* furi_ms_to_ticks
ms_to_ticks(ms) == (ms * Freq) \div PerSecond

\* The tick is finer than the shortest timeout, and the stream takes the frame and
\* the answer of the largest read or write (512 bytes for 256).
ASSUME TimeoutAssumption ==
    Ticks \in Nat \ {0} /\ {ms_to_ticks(EchoMs), ms_to_ticks(AnswerMs)} \subseteq Nat \ {0}
ASSUME StreamAssumption == BlockSize + 2 <= RxSize

\* What a call of the link sends, and how many bytes of answer it waits for.
Calls ==
    [ldcs     |-> [send |-> 2, answer |-> 1],
     st       |-> [send |-> 2, answer |-> 1],
     read     |-> [send |-> 2, answer |-> BlockSize],
     acks_off |-> [send |-> 3, answer |-> 0],
     acks_on  |-> [send |-> 3, answer |-> 0],
     block    |-> [send |-> BlockSize, answer |-> 0]]

VARIABLES
    tick,       \* furi_get_tick()
    wire,       \* bytes on their way back
    rx,         \* rx_stream
    acks,       \* the target acknowledges stores
    pc,         \* of the thread: idle, or where it is in furi_recv_impl
    for,        \* what it receives: "echo" or "answer"
    call,       \* of the link
    discarded,  \* of the echo
    want, got,  \* the arguments of furi_recv_impl and what it has
    deadline,   \* of furi_recv_impl
    left,       \* ticks the blocking receive still waits
    status,     \* how the last call ended
    start,      \* millis when the poll loop began, <<>> outside of one
    faults, late,
    \* Ghosts:
    clean,      \* since the last double break nothing was lost or given up
    elapsed,    \* ticks since start
    overrun     \* the deadline of this receive wrapped

thread == <<pc, for, call, discarded, want, got, deadline, left, status, overrun>>
vars == <<tick, wire, rx, acks, thread, start, faults, late, clean, elapsed>>

\* A byte is what it is to the call under way: its "echo", its "answer", or
\* "stale", of a call before it.
Bytes(kind, n) == [i \in 1..n |-> kind]
Stale(bytes) == Bytes("stale", Len(bytes))

-----------------------------------------------------------------------------
(* The kernel's clock.                                                     *)

\* A bug: the counter is scaled as if it ran at half the rate.
MillisDoubled(t) == Mod((2 * t * PerSecond) \div Freq)
furi_millis_impl(t) == Mod((t * PerSecond) \div Freq)

\* The unsigned difference of two times.
Since(now, then) == Mod(now + Ticks - then)

\* The test of the poll loops.
TimeIsUp == start # <<>> /\ Since(furi_millis_impl(tick), start[1]) >= WaitMs

\* Bytes are faster than ticks, unless they are late, and so is the thread
\* unless it is held up: it spends time in blocking receives and, outside of
\* the poll loops, between two calls.
Held == IF start = <<>> THEN pc \notin {"idle", "blocked"} ELSE pc # "blocked"
Tick ==
    /\ wire = <<>> \/ late
    /\ Held => faults < MaxFaults
    /\ pc = "blocked" => left > 0 /\ rx = <<>>
    /\ tick' = Mod(tick + 1)
    /\ left' = IF pc = "blocked" THEN left - 1 ELSE left
    /\ faults' = IF Held THEN faults + 1 ELSE faults
    /\ elapsed' = IF start = <<>> THEN 0 ELSE Min({elapsed + 1, Ticks})
    /\ UNCHANGED <<wire, rx, acks, pc, for, call, discarded, want, got, deadline, status,
                   overrun, start, late, clean>>

-----------------------------------------------------------------------------
(* The wire and the interrupt.                                             *)

\* rx_callback; what does not fit is dropped.
rx_callback ==
    /\ wire # <<>>
    /\ wire' = Tail(wire)
    /\ rx' = IF Len(rx) < RxSize THEN Append(rx, Head(wire)) ELSE rx
    /\ late' = FALSE
    /\ UNCHANGED <<tick, acks, thread, start, faults, clean, elapsed>>

Disturb ==
    /\ wire # <<>> /\ faults < MaxFaults
    /\ \/ wire' = Tail(wire) /\ UNCHANGED late          \* a byte is lost
       \/ ~late /\ late' = TRUE /\ UNCHANGED wire       \* or late
    /\ faults' = faults + 1 /\ clean' = FALSE
    /\ UNCHANGED <<tick, rx, acks, thread, start, elapsed>>

\* What the target makes of a frame: it answers, and acknowledges stores, also
\* the words of a block, unless it was told not to.
Answer(c) ==
    CASE c = "block" -> IF acks THEN BlockSize \div 2 ELSE 0
      [] c = "st" -> IF acks THEN 1 ELSE 0
      [] OTHER -> Calls[c].answer
AcksAfter(c) == CASE c = "acks_off" -> FALSE [] c = "acks_on" -> TRUE [] OTHER -> acks

-----------------------------------------------------------------------------
(* The thread.                                                             *)

\* furi_recv_impl(ctx, data, len, timeout_ms) is called.
Receive(what, len, ms) ==
    LET end == tick + ms_to_ticks(ms)
    IN  /\ pc' = "head" /\ for' = what /\ want' = len /\ got' = <<>>
        /\ deadline' = Mod(end) /\ overrun' = (end >= Ticks)

\* A bug: all of the echo is asked for at once, into a buffer that is smaller.
ScratchOverrun(dropped) == Min({Scratch, Calls[call].send})
EchoWant(dropped) == Min({Scratch, Calls[call].send - dropped})

\* updi_link_st_ptr_inc16_block is three calls, unless one of them fails; a loop
\* polls one byte; all others come in any order.
NextCalls ==
    CASE start # <<>> -> {"ldcs"}
      [] start = <<>> /\ call = "acks_off" /\ status = "Ok" -> {"block"}
      [] start = <<>> /\ call = "block" /\ status = "Ok" -> {"acks_on"}
      [] OTHER -> DOMAIN Calls \ {"block"}

\* What is late comes before the call after next; a loop polls before it looks
\* at the time.
Send ==
    /\ pc = "idle" /\ Len(wire) <= BlockSize /\ (TimeIsUp => status = "none")
    /\ \E c \in NextCalls :
        /\ call' = c /\ discarded' = 0
        /\ rx' = Stale(rx)
        /\ \/ /\ wire' = Stale(wire) \o Bytes("echo", Calls[c].send) \o Bytes("answer", Answer(c))
              /\ acks' = AcksAfter(c)
              /\ UNCHANGED <<faults, clean>>
           \/ /\ faults < MaxFaults                     \* the target does not get it
              /\ wire' = Stale(wire) \o Bytes("echo", Calls[c].send)
              /\ faults' = faults + 1 /\ clean' = FALSE
              /\ UNCHANGED acks
        /\ Receive("echo", Min({Scratch, Calls[c].send}), EchoMs)
    /\ status' = "running"
    /\ UNCHANGED <<tick, left, start, late, elapsed>>

Taken(n) == /\ got' = got \o SubSeq(rx, 1, n)
            /\ rx' = SubSeq(rx, n + 1, Len(rx))
Available == Min({Len(rx), want - Len(got)})

\* The head of the loop: enough, too late, or wait for what is missing.
RecvHead ==
    /\ pc = "head"
    /\ \/ /\ Len(got) = want
          /\ pc' = "received" /\ UNCHANGED <<rx, got, left>>
       \/ /\ Len(got) < want /\ tick >= deadline
          /\ Taken(Available)
          /\ pc' = "received" /\ UNCHANGED left
       \/ /\ Len(got) < want /\ tick < deadline
          /\ left' = deadline - tick
          /\ pc' = "blocked" /\ UNCHANGED <<rx, got>>
    /\ UNCHANGED <<tick, wire, acks, for, call, discarded, want, deadline, status, overrun,
                   start, faults, late, clean, elapsed>>

\* furi_stream_buffer_receive with a trigger level of one byte.
RecvBlocked ==
    /\ pc = "blocked"
    /\ \/ rx # <<>> /\ Taken(Available) /\ pc' = "head"
       \/ rx = <<>> /\ left = 0 /\ pc' = "received" /\ UNCHANGED <<rx, got>>
    /\ left' = 0
    /\ UNCHANGED <<tick, wire, acks, for, call, discarded, want, deadline, status, overrun,
                   start, faults, late, clean, elapsed>>

\* A call that fails is over; what it did not get may still come.
Return(s) ==
    /\ pc' = "idle" /\ status' = s /\ for' = "echo"
    /\ clean' = (clean /\ s = "Ok")
    /\ got' = IF s = "Ok" THEN got ELSE <<>>
    /\ want' = 0 /\ deadline' = 0 /\ discarded' = 0 /\ UNCHANGED overrun

\* furi_send_impl goes on with the rest of the echo, or with the answer.
EchoReceived ==
    /\ pc = "received" /\ for = "echo"
    /\ LET dropped == discarded + Len(got)
       IN  \/ got = <<>> /\ Return("ErrTransport")
           \/ /\ got # <<>> /\ dropped < Calls[call].send
              /\ Receive("echo", EchoWant(dropped), EchoMs)
              /\ discarded' = dropped /\ UNCHANGED <<status, clean>>
           \/ /\ got # <<>> /\ dropped >= Calls[call].send /\ Calls[call].answer > 0
              /\ Receive("answer", Calls[call].answer, AnswerMs)
              /\ discarded' = dropped /\ UNCHANGED <<status, clean>>
           \/ /\ got # <<>> /\ dropped >= Calls[call].send /\ Calls[call].answer = 0
              /\ Return("Ok")
    /\ UNCHANGED <<tick, wire, rx, acks, call, left, start, faults, late, elapsed>>

AnswerReceived ==
    /\ pc = "received" /\ for = "answer"
    /\ Return(IF Len(got) = want THEN "Ok" ELSE "ErrTimeout")
    /\ UNCHANGED <<tick, wire, rx, acks, call, left, start, faults, late, elapsed>>

\* A bug: what has arrived is kept.
StreamKept == rx
StreamReset == <<>>

\* 40 ms of BREAKs, in which everything arrives; then the stream is emptied.
\* The target starts anew, with acknowledgements.
furi_double_break_impl ==
    /\ pc = "idle" /\ start = <<>> /\ "ldcs" \in NextCalls
    /\ rx' = StreamReset /\ wire' = <<>> /\ late' = FALSE
    /\ acks' = TRUE /\ clean' = TRUE /\ status' = "none"
    /\ UNCHANGED <<tick, pc, for, call, discarded, want, got, deadline, left, overrun, start,
                   faults, elapsed>>

-----------------------------------------------------------------------------
(* A poll loop: wait_unlocked, wait_nvm_ready.  Its polls are calls.       *)

StartWait ==
    /\ pc = "idle" /\ start = <<>> /\ "ldcs" \in NextCalls
    /\ start' = <<furi_millis_impl(tick)>> /\ elapsed' = 0 /\ status' = "none"
    /\ UNCHANGED <<tick, wire, rx, acks, pc, for, call, discarded, want, got, deadline, left,
                   overrun, faults, late, clean>>

EndWait ==
    /\ pc = "idle" /\ start # <<>>
    /\ status = "Ok" \/ (status # "none" /\ TimeIsUp)
    /\ start' = <<>> /\ elapsed' = 0
    /\ UNCHANGED <<tick, wire, rx, acks, thread, faults, late, clean>>

Init ==
    /\ tick \in 0..(Ticks - 1) /\ wire = <<>> /\ rx = <<>> /\ acks = TRUE
    /\ pc = "idle" /\ for = "echo" /\ call = "ldcs" /\ discarded = 0
    /\ want = 0 /\ got = <<>> /\ deadline = 0 /\ left = 0 /\ status = "none" /\ overrun = FALSE
    /\ start = <<>> /\ faults = 0 /\ late = FALSE /\ clean = TRUE /\ elapsed = 0

Next ==
    \/ Tick \/ rx_callback \/ Disturb
    \/ Send \/ RecvHead \/ RecvBlocked \/ EchoReceived \/ AnswerReceived
    \/ furi_double_break_impl \/ StartWait \/ EndWait

Spec == Init /\ [][Next]_vars
-----------------------------------------------------------------------------

\* "leaving only genuine target responses for recv()": as long as nothing was
\* lost, late or given up since the last double break, a call that succeeds
\* has got its own answer, all of it, and leaves nothing behind for the next.
AnswersBelong ==
    clean /\ pc = "idle" =>
        /\ wire = <<>> /\ rx = <<>>
        /\ status = "Ok" /\ Calls[call].answer > 0 =>
               got = Bytes("answer", Calls[call].answer)

\* A call that starts clean fails only if something is lost or late, if the
\* thread is held up, or if the sum of its deadline wraps.
FailsOnlyIfDisturbed ==
    [][clean /\ ~clean' => faults' > faults \/ overrun]_vars

\* After a poll a loop gives up if its time has passed, and only then, whatever
\* the counter did in between; one receive that takes a whole round of the
\* counter, which FailsOnlyIfDisturbed speaks of, is the exception.
GivesUpInTime ==
    start # <<>> /\ pc = "idle" /\ elapsed < Ticks =>
        (TimeIsUp <=> (elapsed * PerSecond) \div Freq >= WaitMs)
=============================================================================
