--------------------------- MODULE SerialUpdiLink ---------------------------
(***************************************************************************)
(* serialupdi/link.py over physical.py, and readwrite.py over both.  An    *)
(* operator is the set of ways one call can end:                           *)
(*     tgt     the target afterwards                                       *)
(*     val     what a status bit says; whether data came complete          *)
(*     exc     the exception raised, or "none"                             *)
(*     fault   1 if the wire or the adapter misbehaved                     *)
(*     silent  data were lost and nobody was told                          *)
(*                                                                         *)
(* send() discards as many echo bytes as arrive and looks at none of them: *)
(* only the adapter itself, unplugged or taken away, makes it raise        *)
(* (SerialException).  receive() gives up after one timeout and returns    *)
(* what it has.  A lost frame shows only where an answer is checked.       *)
(***************************************************************************)
EXTENDS SerialUpdiTarget

Out(t, val, exc, fault, silent) ==
    [tgt |-> t, val |-> val, exc |-> exc, fault |-> fault, silent |-> silent]

Done(t) == Out(t, TRUE, "none", 0, FALSE)
Raised(t, exc, fault) == Out(t, FALSE, exc, fault, FALSE)

\* After the serial timeout of a second the target has finished anything.
Late(t) == Settle(t)

\* No answer where one was needed; or the adapter fails, before or after.
Trouble(t, u, exc) ==
    {Raised(Late(v), exc, 1) : v \in {t, u}}
    \cup {Raised(Late(v), "SerialException", 1) : v \in {t, u}}

-----------------------------------------------------------------------------

\* BREAK, STCS, KEY: no answer.
send(t, u) == {Done(u), Out(t, TRUE, "none", 1, FALSE)} \cup
              {Raised(v, "SerialException", 1) : v \in {t, u}}

ldcs(t, val) ==
    {IF t.on THEN Out(t, val, "none", 0, FALSE) ELSE Raised(Late(t), "ProtocolError", 0)}
    \cup Trouble(t, t, "ProtocolError")

\* receive(1)[0]: no answer is an IndexError.
ld(t, width, val) ==
    {IF Accessible(t) /\ width = AddressWidth(t) THEN Out(t, val, "none", 0, FALSE)
     ELSE Raised(Late(t), "IndexError", 0)}
    \cup Trouble(t, t, "IndexError")

Acknowledges(t, width) == Accessible(t) /\ width = AddressWidth(t) /\ ~t.rsd

\* Address, ACK, data, ACK.  u is the target if the data arrive.
st(t, u, width) ==
    IF Acknowledges(t, width) THEN {Done(u)} \cup Trouble(t, u, "ProtocolError")
    ELSE {Raised(Late(t), "ProtocolError", 0)} \cup Trouble(t, t, "ProtocolError")

\* In user row mode the target takes stores although it is locked.
UrowAccess(t) == t.on /\ t.mode = "urow" /\ ~t.rst /\ t.boot = 0

\* write_data: every byte acknowledged.  A block that stops half way leaves
\* its beginning: torn is the target in that case.
write_data(t, u, torn, width) ==
    IF Acknowledges(t, width) \/ (UrowAccess(t) /\ ~t.rsd)
    THEN {Done(u)} \cup Trouble(t, u, "ProtocolError") \cup Trouble(torn, torn, "ProtocolError")
    ELSE {Raised(Late(t), "ProtocolError", 0)} \cup Trouble(t, t, "ProtocolError")

\* write_data_words: ST PTR acknowledged, REPEAT, then with acknowledgements
\* off the block.  What is lost then is not noticed; an adapter that fails in
\* the block leaves them off.
write_data_words(t, u, torn, width) ==
    IF Acknowledges(t, width)
    THEN {Done(u), Raised(Late(t), "ProtocolError", 1)} \cup
         {Out(v, TRUE, "none", 1, TRUE) : v \in {t, torn}} \cup
         {Out(SetRsd(u, TRUE), TRUE, "none", 1, FALSE)} \cup
         UNION {{Raised(Late(SetRsd(v, rsd)), "SerialException", 1) : v \in {t, u, torn}} :
                    rsd \in BOOLEAN}
    ELSE {Raised(Late(t), "ProtocolError", 0)} \cup Trouble(t, t, "ProtocolError")

\* read_data: ST PTR acknowledged, then as many bytes as come.
read_data(t, width) ==
    IF Acknowledges(t, width)
    THEN {Out(t, TRUE, "none", 0, FALSE), Out(Late(t), FALSE, "none", 1, FALSE)}
         \cup Trouble(t, t, "ProtocolError")
    ELSE {Raised(Late(t), "ProtocolError", 0)} \cup Trouble(t, t, "ProtocolError")

\* The SIB: without an answer or with bytes that are not ASCII decode_sib
\* returns None, a line without its colons makes it fail.
decode_sib(t) ==
    (IF t.on THEN {Done(t), Raised(t, "IndexError", 1)}
     ELSE {Out(Late(t), FALSE, "none", 0, FALSE)})
    \cup {Out(Late(t), FALSE, "none", 1, FALSE)} \cup Trouble(t, t, "SerialException")
=============================================================================
