----------------------------- MODULE MCHexFile -----------------------------
(* Dumps, images and lines for the runs of HexFile.                        *)
EXTENDS HexFile

Content(n) == [i \in 1..n |-> i]

\* op_dump dumps all of the flash from address 0.
DeviceDumps == {[start |-> 0, bytes |-> Content(n)] : n \in {1, 4, 7, 12}}
DeviceImages == {[capacity |-> 12, base |-> 0], [capacity |-> 3, base |-> 0]}
ApiImages == DeviceImages \cup {[capacity |-> 10, base |-> 2]}

\* Every address with records of none to two bytes, every upper half and
\* segment, and one line of each other kind.
ForeignLines ==
    {Record("data", a, d, 0) : a \in 0..(Segment - 1), d \in {<<>>, <<1>>, <<2, 3>>}}
    \cup {Record(t, 0, <<>>, v) : t \in {"linear", "segment"}, v \in Uppers}
    \cup {Record("linear", 0, <<1>>, -1), Record("segment", 0, <<>>, -1)}
    \cup {EOF} \cup {Record(t, 0, <<>>, 0) : t \in {"start", "other", "blank", "text"}}
    \cup {[Record("data", 0, <<1>>, 0) EXCEPT !.sum = FALSE],
          Record("data", 0, [i \in 1..(MaxCount + 1) |-> 1], 0)}
=============================================================================
