------------------------------- MODULE HexFile -------------------------------
(***************************************************************************)
(* The HEX files of ui/updi_worker.c: op_dump writes one, record by record *)
(* through a sink that may fail; op_flash and op_verify read one, line by  *)
(* line, that was dumped before or that another tool wrote.                *)
(***************************************************************************)
EXTENDS IntelHex

CONSTANTS
    Dumps,          \* what is dumped: flash contents, with their first address
    Bpls,           \* bytes per line asked for
    Images,         \* capacity and base offset of the image read into
    Foreign,        \* the lines another tool may write
    MaxLines        \* of such a file

Types == {"data", "eof", "linear", "segment", "start", "other", "blank", "text"}
Lines == [type : Types, addr : 0..(Segment - 1), data : Seq(Nat), val : Int, sum : BOOLEAN]

\* A dump is not empty and ends before the last segment, which the writer takes
\* for the one it is in when it begins; the flash of a device ends far below.
ASSUME HexFileAssumption ==
    /\ \A d \in Dumps :
        /\ d.start \in Nat /\ d.bytes \in Seq(Nat) \ {<<>>}
        /\ d.start + Len(d.bytes) <= NoUpper * Segment
    /\ Bpls \subseteq Nat /\ MaxLines \in Nat
    /\ \A i \in Images : i.capacity \in 0..(Space - 1) /\ i.base \in 0..(Space - 1)
    /\ Foreign \subseteq Lines
    /\ \A r \in Foreign : r.type \in {"linear", "segment"} => r.val <= NoUpper

VARIABLES
    phase,      \* what is being done: "dumping", "dumped", "reading", "done"
    w,          \* the writer
    file,       \* the lines written; for a foreign file those read so far
    next,       \* the line that is read next
    img,        \* the image read into
    result      \* of the last operation

vars == <<phase, w, file, next, img, result>>

NoImage == intel_hex_image_init(0, 0)

Init ==
    /\ \/ /\ phase = "dumping"
          /\ \E d \in Dumps, b \in Bpls : w = Writer(d.start, d.bytes, b)
          /\ img = NoImage
       \/ /\ phase = "reading"
          /\ w = Writer(0, <<>>, 1)
          /\ \E i \in Images : img = intel_hex_image_init(i.capacity, i.base)
    /\ file = <<>> /\ next = 1 /\ result = "running"

-----------------------------------------------------------------------------
(* op_dump: intel_hex_write with hex_file_sink                             *)

\* A bug: what the sink says is not looked at.
SinkIgnored(ok) == TRUE
SinkOk(ok) == ok

Emit ==
    /\ phase = "dumping"
    /\ \E ok \in BOOLEAN :
        /\ file' = IF ok THEN Append(file, Emitted(w)) ELSE file
        /\ w' = IF AllOut(w) THEN w ELSE Advanced(w)
        /\ \/ /\ ~SinkOk(ok)
              /\ phase' = "dumped" /\ result' = "ErrParam"
           \/ /\ SinkOk(ok) /\ AllOut(w)
              /\ phase' = "dumped" /\ result' = "Ok"
           \/ /\ SinkOk(ok) /\ ~AllOut(w)
              /\ UNCHANGED <<phase, result>>
    /\ UNCHANGED <<next, img>>

\* The dump is flashed again, or another file.
Open ==
    /\ phase = "dumped"
    /\ phase' = "reading" /\ result' = "running"
    /\ \E i \in Images : img' = intel_hex_image_init(i.capacity, i.base)
    /\ UNCHANGED <<w, file, next>>

-----------------------------------------------------------------------------
(* parse_hex_file                                                          *)

Dumped == w.bytes # <<>>

\* The line read now: of the dump, or whatever the other tool wrote.
Line(rec) ==
    IF Dumped THEN next <= Len(file) /\ rec = file[next]
    ELSE next <= MaxLines /\ rec \in Foreign

ReadLine ==
    /\ phase = "reading"
    /\ \E rec \in (IF Dumped THEN {file[i] : i \in DOMAIN file} ELSE Foreign) :
        /\ Line(rec)
        /\ file' = IF Dumped THEN file ELSE Append(file, rec)
        /\ LET out == intel_hex_parse_line(img, rec)
           IN  /\ img' = out.img
               /\ IF out.status = "Ok" THEN UNCHANGED <<phase, result>>
                  ELSE phase' = "done" /\ result' = "ErrParam"
    /\ next' = next + 1
    /\ UNCHANGED w

EndOfFile ==
    /\ phase = "reading"
    /\ Dumped => next > Len(file)
    /\ phase' = "done"
    /\ result' = IF img.any THEN "Ok" ELSE "ErrParam"
    /\ UNCHANGED <<w, file, next, img>>

Next == Emit \/ Open \/ ReadLine \/ EndOfFile

Spec == Init /\ [][Next]_vars
-----------------------------------------------------------------------------
(* What a file means, byte by byte and without a parser.                   *)

\* The last address record before line i decides.
BaseAt(i) ==
    LET before == {j \in 1..(i - 1) : file[j].type \in {"linear", "segment"}}
        last == CHOOSE j \in before : \A k \in before : k <= j
    IN  IF before = {} THEN 0
        ELSE file[last].val * (IF file[last].type = "linear" THEN Segment ELSE 2 ^ SegShift)

DataLines == {i \in DOMAIN file : file[i].type = "data"}
AddressOf(i, j) == BaseAt(i) + file[i].addr + j - 1
Writes(a) == {c \in DataLines \X (1..MaxCount) : c[2] <= Len(file[c[1]].data) /\ AddressOf(c[1], c[2]) = a}

Meant(a) ==
    IF Writes(a) = {} THEN Fill
    ELSE LET c == CHOOSE c \in Writes(a) : \A d \in Writes(a) : d[1] < c[1] \/ d = c
         IN  file[c[1]].data[c[2]]

Offsets == {BaseAt(i) + file[i].addr - img.base : i \in DataLines}
Ends == {BaseAt(i) + file[i].addr + Len(file[i].data) - img.base : i \in DataLines}

ReadOk == phase = "done" /\ result = "Ok"

\* A file that is accepted gives exactly the image that its data records add
\* up to, later ones over earlier ones and 0xFF between them.
ImageMatchesFile ==
    ReadOk /\ ~img.outside => \A o \in DOMAIN img.data : img.data[o] = Meant(o + img.base)

\* max_offset, up to which op_flash writes and verifies, covers every data
\* record; min_offset is where the first begins.
RangeCoversFile ==
    ReadOk /\ ~img.outside =>
        /\ \A x \in Ends : x <= img.max
        /\ img.max \in Ends
        /\ \A x \in Offsets : img.min <= x

\* A dump that ended well holds the flash, with its end record, and reads back
\* as it was.
RoundTrip ==
    ReadOk /\ Dumped /\ file[Len(file)].type = "eof" =>
        \A o \in DOMAIN img.data :
            img.data[o] = IF o + img.base < Len(w.bytes) THEN w.bytes[o + img.base + 1] ELSE Fill

\* A dump is called good only if all of it is in the file.
GoodDumpIsWhole ==
    phase = "dumped" /\ result = "Ok" =>
        /\ file # <<>> /\ file[Len(file)] = EOF
        /\ \A o \in DOMAIN w.bytes : Meant((w.start + o - 1) % Space) = w.bytes[o]

\* Other tools wrap the address within a segment: no record may cross its end.
RecordsWithinSegment ==
    Dumped => \A i \in DataLines : file[i].addr + Len(file[i].data) <= Segment
=============================================================================
