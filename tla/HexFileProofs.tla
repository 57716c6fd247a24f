---------------------------- MODULE HexFileProofs ----------------------------
(***************************************************************************)
(* Theorems about HexFile, for dumps, images and files of any length, any  *)
(* lines of another tool and any width of addresses and segments.          *)
(*                                                                         *)
(* The argument has two halves that meet in the meaning of a file, given   *)
(* here for any sequence of lines: the writer keeps to it that the lines   *)
(* written so far mean the bytes dumped so far, and the parser that the    *)
(* image is what the lines read so far mean.                               *)
(***************************************************************************)
EXTENDS HexFile, WellFoundedInduction, TLAPS

IsBase(r) == r.type \in {"linear", "segment"}
Scaled(r) == r.val * (IF r.type = "linear" THEN Segment ELSE 2 ^ SegShift)

\* BaseAt, of the lines f.
BaseIn(f, i) ==
    LET before == {j \in 1..(i - 1) : IsBase(f[j])}
        last == CHOOSE j \in before : \A k \in before : k <= j
    IN  IF before = {} THEN 0 ELSE Scaled(f[last])

First(f, i) == BaseIn(f, i) + f[i].addr
After(f, i) == First(f, i) + Len(f[i].data)

\* Line i of f says that the byte at address a is Byte(f, i, a).
Covers(f, i, a) == f[i].type = "data" /\ a \in First(f, i)..(After(f, i) - 1)
Byte(f, i, a) == f[i].data[a - First(f, i) + 1]

\* The first k lines of f say that the byte at a is v.
Holds(f, k, a, v) ==
    \/ v = Fill /\ \A i \in 1..k : ~Covers(f, i, a)
    \/ \E i \in 1..k : /\ Covers(f, i, a) /\ v = Byte(f, i, a)
                       /\ \A l \in (i + 1)..k : ~Covers(f, l, a)

-----------------------------------------------------------------------------
(* The reader.                                                             *)

ImageType ==
    [data : UNION {[0..(c - 1) -> Nat] : c \in Nat}, capacity : 0..(Space - 1),
     base : 0..(Space - 1), ext_base : 0..(NoUpper * Segment), min : Nat, max : Nat,
     any : BOOLEAN, eof_seen : BOOLEAN, outside : BOOLEAN]

\* The line i of f is in the image and in its range.
InImage(f, i, m) ==
    /\ Len(f[i].data) <= MaxCount
    /\ First(f, i) >= m.base /\ m.min <= First(f, i) - m.base
    /\ After(f, i) - m.base <= m.max
    
\* m is the image after the first k lines of f, as long as nothing was stored outside.
ReadSoFar(f, k, m) ==
    /\ m.ext_base = BaseIn(f, k + 1)
    /\ ~m.outside =>
        /\ \A i \in 1..k : f[i].type = "data" => m.any /\ InImage(f, i, m)
        /\ m.any => \E i \in 1..k : f[i].type = "data" /\ m.max = After(f, i) - m.base
        /\ \A o \in DOMAIN m.data : Holds(f, k, o + m.base, m.data[o])

-----------------------------------------------------------------------------
(* The writer.                                                             *)

\* Every line of f is one that the dump of these bytes may hold.
OfDump(f, start, bytes) ==
    \A i \in DOMAIN f :
        /\ f[i].type \in {"data", "linear", "eof"}
        /\ f[i].type = "eof" => f[i] = EOF
        /\ f[i].type = "linear" => f[i].val \in 0..NoUpper
        /\ f[i].type = "data" =>
            /\ f[i].addr + Len(f[i].data) <= Segment /\ Len(f[i].data) <= MaxCount
            /\ start <= First(f, i) /\ After(f, i) <= start + Len(bytes)
            /\ \A a \in First(f, i)..(After(f, i) - 1) : Byte(f, i, a) = bytes[a - start + 1]

\* The first n bytes are in the lines f.
Complete(f, start, n) == \A o \in 0..(n - 1) : \E i \in DOMAIN f : Covers(f, i, start + o)

WriterInv ==
    /\ phase \in {"dumping", "dumped"} => Dumped
    /\ Dumped => OfDump(file, w.start, w.bytes)
    /\ phase = "dumping" =>
        /\ Complete(file, w.start, w.off) /\ w.off <= Len(w.bytes)
        /\ BaseIn(file, Len(file) + 1) = IF w.cur_upper = NoUpper THEN 0 ELSE w.cur_upper * Segment
        /\ \A i \in DOMAIN file : file[i].type # "eof"
        /\ next = 1
    /\ phase = "dumped" =>
        /\ next = 1
        /\ result = "Ok" => file # <<>> /\ file[Len(file)] = EOF
    /\ Dumped /\ file # <<>> /\ file[Len(file)].type = "eof" =>
           Complete(file, w.start, Len(w.bytes))

ReaderInv ==
    /\ phase \in {"reading", "done"} => (~Dumped => next = Len(file) + 1)
    /\ phase = "reading" => next - 1 \in 0..Len(file) /\ ReadSoFar(file, next - 1, img)
    /\ ReadOk => img.any /\ ReadSoFar(file, Len(file), img)
    /\ phase = "reading" \/ ReadOk => (Dumped => ~img.outside)

WriterType ==
    [start : Nat, bytes : Seq(Nat), off : Nat, cur_upper : 0..NoUpper, bpl : 1..MaxCount]

\* Every variable has its type, and the writer its bounds.
TypeOK ==
    /\ phase \in {"dumping", "dumped", "reading", "done"}
    /\ file \in Seq(Lines) /\ \A i \in DOMAIN file : IsBase(file[i]) => file[i].val <= NoUpper
    /\ next \in Nat \ {0}
    /\ img \in ImageType /\ DOMAIN img.data = 0..(img.capacity - 1)
    /\ result \in {"running", "Ok", "ErrParam"}
    /\ w \in WriterType
    /\ w.bytes # <<>> => w.start + Len(w.bytes) <= NoUpper * Segment

HexInv == TypeOK /\ WriterInv /\ ReaderInv

-----------------------------------------------------------------------------
(* Numbers: the last line of a kind, and what the powers of two are.       *)

\* A set of lines that is not empty has a last one.
LEMMA LastOf ==
    ASSUME NEW n \in Nat, NEW S \in SUBSET (1..n), S # {}
    PROVE  \E i \in S : \A k \in S : k <= i
<1> DEFINE D == {n - k : k \in S}
           R == OpToRel(<, Nat)
<1>0. \A k \in S : n - k \in Nat
  OBVIOUS
<1>1. D \subseteq Nat /\ D # {}
  <2>1. PICK k \in S : TRUE
    OBVIOUS
  <2>2. n - k \in D
    BY <2>1
  <2> QED
    BY <1>0, <2>2
<1>2. PICK x \in D : \A y \in D : ~ (<<y, x>> \in R)
  <2> HIDE DEF D, R
  <2>1. IsWellFoundedOn(R, Nat)
    BY NatLessThanWellFounded DEF R
  <2> QED
    BY <1>1, <2>1, WFMin
<1>3. \A y \in D : x <= y
  <2> SUFFICES ASSUME NEW y \in D
               PROVE  x <= y
    OBVIOUS
  <2>1. x \in Nat /\ y \in Nat
    BY <1>1
  <2>2. ~ (<<y, x>> \in {ss \in Nat \X Nat : ss[1] < ss[2]})
    BY <1>2 DEF OpToRel
  <2> HIDE DEF D
  <2>3. ~ (y < x)
    BY <2>1, <2>2
  <2> QED
    BY <2>1, <2>3
<1>4. PICK i \in S : x = n - i
  OBVIOUS
<1>5. \A k \in S : n - i <= n - k
  BY <1>3, <1>4
<1> QED
  BY <1>5

LEMMA Products ==
    ASSUME NEW a \in Nat, NEW b \in Nat, NEW c \in Nat, a <= b
    PROVE  a * c \in Nat /\ a * c <= b * c
OBVIOUS

LEMMA SegmentProducts ==
    ASSUME NEW v \in Nat, v <= NoUpper
    PROVE  /\ v * Segment \in 0..(NoUpper * Segment)
           /\ v * 2 ^ SegShift \in 0..(NoUpper * Segment)
<1> DEFINE h == 2 ^ SegShift
<1>1. h \in Nat /\ h <= Segment /\ Segment \in Nat /\ NoUpper \in Nat
  BY PowersAssumption
<1> HIDE DEF h
<1>2. v * Segment \in Nat /\ v * Segment <= NoUpper * Segment
  BY <1>1, Products
<1>3. v * h \in Nat /\ v * h <= NoUpper * h
  BY <1>1, Products
<1>4. NoUpper * h <= NoUpper * Segment
  <2>1. h * NoUpper <= Segment * NoUpper
    BY <1>1, Products
  <2> QED
    BY <1>1, <2>1
<1>5. NoUpper * h \in Nat /\ NoUpper * Segment \in Nat
  BY <1>1
<1> QED
  BY <1>2, <1>3, <1>4, <1>5 DEF h

\* There is room for one segment more above the last base.
LEMMA SmallModulo ==
    ASSUME NEW n \in Nat, NEW s \in Nat, n < s
    PROVE  n % s = n
OBVIOUS

LEMMA SpaceIs ==
    /\ Segment \in Nat \ {0} /\ NoUpper \in Nat /\ Space \in Nat \ {0}
    /\ NoUpper * Segment \in Nat
    /\ Space = NoUpper * Segment + Segment
<1>1. Segment \in Nat \ {0} /\ NoUpper \in Nat /\ Space = (NoUpper + 1) * Segment
  BY PowersAssumption
<1>2. \A n \in Nat, s \in Nat \ {0} :
          n * s \in Nat /\ (n + 1) * s = n * s + s /\ (n + 1) * s \in Nat \ {0}
  OBVIOUS
<1> QED
  BY <1>1, <1>2

LEMMA ScaledType ==
    ASSUME NEW r \in Lines
    PROVE  /\ Scaled(r) \in Int
           /\ r.val \in 0..NoUpper => Scaled(r) \in 0..(NoUpper * Segment)
<1> DEFINE h == 2 ^ SegShift
<1>1. h \in Nat /\ Segment \in Nat /\ r.val \in Int /\ NoUpper \in Nat
  BY PowersAssumption DEF Lines
<1>2. r.val \in 0..NoUpper =>
          r.val * Segment \in 0..(NoUpper * Segment) /\ r.val * h \in 0..(NoUpper * Segment)
  BY <1>1, SegmentProducts
<1> HIDE DEF h
<1>3. r.val * Segment \in Int /\ r.val * h \in Int
  BY <1>1
<1> QED
  BY <1>2, <1>3 DEF Scaled, h

-----------------------------------------------------------------------------
(* The base address of a line.                                             *)

LEMMA BaseFirst == ASSUME NEW f PROVE BaseIn(f, 1) = 0
BY DEF BaseIn

LEMMA BaseStep ==
    ASSUME NEW f, NEW i \in Nat \ {0}
    PROVE  BaseIn(f, i + 1) = IF IsBase(f[i]) THEN Scaled(f[i]) ELSE BaseIn(f, i)
<1> DEFINE B(n) == {j \in 1..(n - 1) : IsBase(f[j])}
           last(n) == CHOOSE j \in B(n) : \A k \in B(n) : k <= j
<1>1. \A n : BaseIn(f, n) = IF B(n) = {} THEN 0 ELSE Scaled(f[last(n)])
  BY DEF BaseIn
<1>2. CASE IsBase(f[i])
  <2>1. i \in B(i + 1) /\ \A k \in B(i + 1) : k <= i
    BY <1>2
  <2>2. \A j \in B(i + 1) : (\A k \in B(i + 1) : k <= j) => j = i
    BY <2>1
  <2> HIDE DEF B
  <2>3. last(i + 1) = i
    BY <2>1, <2>2
  <2> QED
    BY <1>1, <1>2, <2>1, <2>3
<1>3. CASE ~IsBase(f[i])
  <2>1. B(i + 1) = B(i)
    BY <1>3
  <2> QED
    BY <1>1, <1>3, <2>1
<1> QED
  BY <1>2, <1>3

\* It depends on the lines before only.
LEMMA BaseSame ==
    ASSUME NEW f, NEW g, NEW i \in Nat \ {0}, \A j \in 1..(i - 1) : f[j] = g[j]
    PROVE  BaseIn(f, i) = BaseIn(g, i)
<1> DEFINE B(h) == {j \in 1..(i - 1) : IsBase(h[j])}
           last(h) == CHOOSE j \in B(h) : \A k \in B(h) : k <= j
<1>1. \A h : BaseIn(h, i) = IF B(h) = {} THEN 0 ELSE Scaled(h[last(h)])
  BY DEF BaseIn
<1>2. B(f) = B(g)
  OBVIOUS
<1>3. B(f) \in SUBSET (1..(i - 1))
  OBVIOUS
<1>4. last(f) = last(g)
  BY <1>2
<1>5. B(f) # {} => last(f) \in 1..(i - 1)
  <2> SUFFICES ASSUME B(f) # {}
               PROVE  last(f) \in 1..(i - 1)
    OBVIOUS
  <2>1. \E j \in B(f) : \A k \in B(f) : k <= j
    <3> HIDE DEF B
    <3> QED
      BY <1>3, LastOf, i - 1 \in Nat
  <2>2. last(f) \in B(f)
    <3> HIDE DEF B
    <3> QED
      BY <2>1
  <2> QED
    BY <2>2
<1>6. B(f) # {} => f[last(f)] = g[last(g)]
  BY <1>4, <1>5
<1> HIDE DEF B, last
<1> QED
  BY <1>1, <1>2, <1>6

LEMMA BaseType ==
    ASSUME NEW f \in Seq(Lines), NEW i \in 1..(Len(f) + 1)
    PROVE  /\ BaseIn(f, i) \in Int
           /\ (\A j \in 1..(i - 1) : IsBase(f[j]) => f[j].val \in 0..NoUpper) =>
                  BaseIn(f, i) \in 0..(NoUpper * Segment)
<1> DEFINE B == {j \in 1..(i - 1) : IsBase(f[j])}
           last == CHOOSE j \in B : \A k \in B : k <= j
<1>1. BaseIn(f, i) = IF B = {} THEN 0 ELSE Scaled(f[last])
  BY DEF BaseIn
<1>2. B \in SUBSET (1..(i - 1)) /\ i - 1 \in Nat
  OBVIOUS
<1>3. B # {} => last \in B
  <2> HIDE DEF B
  <2>1. B # {} => \E j \in B : \A k \in B : k <= j
    BY <1>2, LastOf
  <2> QED
    BY <2>1
<1>4. \A j \in B : j \in 1..Len(f) /\ f[j] \in Lines /\ j \in 1..(i - 1) /\ IsBase(f[j])
  OBVIOUS
<1>5. 0 \in 0..(NoUpper * Segment)
  BY SpaceIs
<1> HIDE DEF B, last
<1>6. CASE B = {}
  BY <1>1, <1>5, <1>6
<1>7. CASE B # {}
  BY <1>1, <1>3, <1>4, <1>7, ScaledType
<1> QED
  BY <1>6, <1>7

-----------------------------------------------------------------------------
(* What the lines say does not depend on those that follow.                *)

LEMMA LineSame ==
    ASSUME NEW f, NEW g, NEW k \in Nat, \A j \in 1..k : f[j] = g[j],
           NEW i \in 1..k
    PROVE  /\ First(f, i) = First(g, i) /\ After(f, i) = After(g, i)
           /\ \A a : (Covers(f, i, a) <=> Covers(g, i, a)) /\ Byte(f, i, a) = Byte(g, i, a)
<1>1. \A j \in 1..(i - 1) : f[j] = g[j]
  OBVIOUS
<1>2. BaseIn(f, i) = BaseIn(g, i) /\ f[i] = g[i]
  BY <1>1, BaseSame
<1> QED
  BY <1>2 DEF First, After, Covers, Byte

LEMMA HoldsSame ==
    ASSUME NEW f, NEW g, NEW k \in Nat, \A j \in 1..k : f[j] = g[j],
           NEW a, NEW v, Holds(f, k, a, v)
    PROVE  Holds(g, k, a, v)
<1>1. \A i \in 1..k : (Covers(f, i, a) <=> Covers(g, i, a)) /\ Byte(f, i, a) = Byte(g, i, a)
  BY LineSame
<1>2. \A i \in 1..k : \A l \in (i + 1)..k : l \in 1..k
  OBVIOUS
<1> QED
  BY <1>1, <1>2 DEF Holds

LEMMA ReadSame ==
    ASSUME NEW f, NEW g, NEW k \in Nat, \A j \in 1..k : f[j] = g[j],
           NEW m, ReadSoFar(f, k, m)
    PROVE  ReadSoFar(g, k, m)
<1>1. BaseIn(f, k + 1) = BaseIn(g, k + 1)
  BY BaseSame, k + 1 \in Nat \ {0}, (k + 1) - 1 = k
<1>2. \A i \in 1..k : First(f, i) = First(g, i) /\ After(f, i) = After(g, i) /\ f[i] = g[i]
  BY LineSame
<1>3. \A i \in 1..k : InImage(f, i, m) => InImage(g, i, m)
  BY <1>2 DEF InImage
<1>4. \A a, v : Holds(f, k, a, v) => Holds(g, k, a, v)
  BY HoldsSame
<1> QED
  BY <1>1, <1>2, <1>3, <1>4 DEF ReadSoFar

LEMMA LineType ==
    ASSUME NEW f \in Seq(Lines), NEW i \in 1..Len(f)
    PROVE  /\ f[i] \in Lines /\ f[i].addr \in Nat /\ f[i].addr < Segment
           /\ f[i].val \in Int /\ f[i].data \in Seq(Nat) /\ Len(f[i].data) \in Nat
           /\ BaseIn(f, i) \in Int /\ First(f, i) \in Int /\ After(f, i) \in Int
           /\ First(f, i) <= After(f, i)
<1>1. f[i] \in Lines
  OBVIOUS
<1>2. f[i].addr \in Nat /\ f[i].addr < Segment /\ f[i].val \in Int /\ f[i].data \in Seq(Nat)
  <2>1. f[i].addr \in 0..(Segment - 1) /\ f[i].val \in Int /\ f[i].data \in Seq(Nat)
    BY <1>1 DEF Lines
  <2>2. \A s \in Nat : \A a \in 0..(s - 1) : a \in Nat /\ a < s
    OBVIOUS
  <2>3. Segment \in Nat
    BY SpaceIs
  <2> QED
    BY <2>1, <2>2, <2>3
<1>3. BaseIn(f, i) \in Int
  BY BaseType
<1>4. Len(f[i].data) \in Nat
  BY <1>2
<1> QED
  BY <1>1, <1>2, <1>3, <1>4 DEF First, After

\* A line that covers nothing of a leaves its byte as it was.
LEMMA HoldsOn ==
    ASSUME NEW f, NEW k \in Nat, NEW a, NEW v,
           Holds(f, k, a, v), ~Covers(f, k + 1, a)
    PROVE  Holds(f, k + 1, a, v)
<1>1. CASE v = Fill /\ \A i \in 1..k : ~Covers(f, i, a)
  BY <1>1 DEF Holds
<1>2. CASE \E i \in 1..k : /\ Covers(f, i, a) /\ v = Byte(f, i, a)
                           /\ \A l \in (i + 1)..k : ~Covers(f, l, a)
  <2>1. PICK i \in 1..k : /\ Covers(f, i, a) /\ v = Byte(f, i, a)
                          /\ \A l \in (i + 1)..k : ~Covers(f, l, a)
    BY <1>2
  <2>2. \A l \in (i + 1)..(k + 1) : l \in (i + 1)..k \/ l = k + 1
    OBVIOUS
  <2>3. i \in 1..(k + 1)
    OBVIOUS
  <2>4. \A l \in (i + 1)..(k + 1) : ~Covers(f, l, a)
    BY <2>1, <2>2
  <2> QED
    BY <2>1, <2>3, <2>4 DEF Holds
<1> QED
  BY <1>1, <1>2 DEF Holds

\* One that covers it decides.
LEMMA HoldsNow ==
    ASSUME NEW f, NEW k \in Nat, NEW a, Covers(f, k + 1, a)
    PROVE  Holds(f, k + 1, a, Byte(f, k + 1, a))
<1>1. k + 1 \in 1..(k + 1) /\ ((k + 1) + 1)..(k + 1) = {}
  OBVIOUS
<1> QED
  BY <1>1 DEF Holds

-----------------------------------------------------------------------------
(* The parser of a line.                                                   *)

\* A line that is no data record and is accepted sets the base at most.
LEMMA OtherLines ==
    ASSUME NEW f \in Seq(Lines), NEW k \in Nat, k < Len(f), NEW m \in ImageType,
           ReadSoFar(f, k, m), f[k + 1].type # "data",
           IsBase(f[k + 1]) => f[k + 1].val <= NoUpper,
           intel_hex_parse_line(m, f[k + 1]).status = "Ok"
    PROVE  /\ ReadSoFar(f, k + 1, intel_hex_parse_line(m, f[k + 1]).img)
           /\ intel_hex_parse_line(m, f[k + 1]).img \in ImageType
           /\ intel_hex_parse_line(m, f[k + 1]).img.data = m.data
           /\ intel_hex_parse_line(m, f[k + 1]).img.capacity = m.capacity
           /\ intel_hex_parse_line(m, f[k + 1]).img.base = m.base
           /\ intel_hex_parse_line(m, f[k + 1]).img.outside = m.outside
<1> DEFINE rec == f[k + 1]
           out == intel_hex_parse_line(m, rec)
<1>1. k + 1 \in 1..Len(f) /\ rec \in Lines /\ rec.type # "data"
  OBVIOUS
<1>2. /\ rec.val \in Int /\ rec.data \in Seq(Nat) /\ rec.sum \in BOOLEAN
  BY <1>1 DEF Lines
<1>3. \/ ~IsBase(rec) /\ out.img = m
      \/ ~IsBase(rec) /\ out.img = [m EXCEPT !.eof_seen = TRUE]
      \/ /\ IsBase(rec) /\ rec.val \in Nat /\ rec.val <= NoUpper
         /\ out.img = [m EXCEPT !.ext_base = IF rec.type = "linear" THEN (rec.val * Segment) % Space
                                             ELSE rec.val * 2 ^ SegShift]
  <2> DEFINE h == 2 ^ SegShift
  <2>1. h = 2 ^ SegShift
    OBVIOUS
  <2> HIDE DEF h
  <2>2. out.status = "Ok" /\ (IsBase(rec) => rec.val <= NoUpper) /\ rec.type # "data"
    OBVIOUS
  <2>3. \A v \in Int : v \in Nat \/ v < 0
    OBVIOUS
  <2>4. rec.type \in Types
    BY <1>1 DEF Lines
  <2> HIDE DEF rec
  <2>5. CASE rec.type \in {"blank", "start", "text", "other"}
    BY <2>2, <2>5 DEF intel_hex_parse_line, IsBase, Ok
  <2>6. CASE rec.type \notin {"blank", "start", "text", "other"}
    <3>1. ~BadLine(rec)
      BY <2>2, <2>6 DEF intel_hex_parse_line
    <3>2. CASE rec.type = "eof"
      BY <3>1, <3>2 DEF intel_hex_parse_line, IsBase, Ok
    <3>3. CASE rec.type = "linear"
      <4>1. out = AddressRecord(m, rec, (rec.val * Segment) % Space)
        BY <3>1, <3>3 DEF intel_hex_parse_line
      <4> HIDE DEF out
      <4>2. rec.val >= 0 /\ out.img = [m EXCEPT !.ext_base = (rec.val * Segment) % Space]
        BY <1>2, <2>2, <4>1 DEF AddressRecord, Ok
      <4> QED
        BY <1>2, <2>2, <2>3, <3>3, <4>2 DEF IsBase
    <3>4. CASE rec.type = "segment"
      <4>1. out = AddressRecord(m, rec, rec.val * 2 ^ SegShift)
        BY <3>1, <3>4 DEF intel_hex_parse_line, SegmentBase
      <4> HIDE DEF out
      <4>2. rec.val >= 0 /\ out.img = [m EXCEPT !.ext_base = rec.val * 2 ^ SegShift]
        BY <1>2, <2>2, <4>1 DEF AddressRecord, Ok
      <4> QED
        BY <1>2, <2>2, <2>3, <3>4, <4>2 DEF IsBase
    <3> HIDE DEF out
    <3> QED
      BY <2>2, <2>4, <2>6, <3>2, <3>3, <3>4 DEF Types
  <2> HIDE DEF out
  <2> QED
    BY <2>5, <2>6
<1>4. /\ m.ext_base \in 0..(NoUpper * Segment) /\ m.eof_seen \in BOOLEAN
      /\ out.img = [m EXCEPT !.ext_base = out.img.ext_base, !.eof_seen = out.img.eof_seen]
      /\ out.img.eof_seen \in BOOLEAN
  BY <1>3 DEF ImageType
<1>5. out.img.ext_base = (IF IsBase(rec) THEN Scaled(rec) ELSE m.ext_base)
      /\ out.img.ext_base \in 0..(NoUpper * Segment)
  <2>1. CASE ~IsBase(rec)
    <3>1. out.img.ext_base = m.ext_base
      BY <1>3, <2>1 DEF ImageType
    <3> HIDE DEF out, rec
    <3> QED
      BY <1>4, <2>1, <3>1
  <2>2. CASE IsBase(rec)
    <3>1. rec.val \in 0..NoUpper /\ rec.val \in Nat
      BY <1>3, <2>2, SpaceIs
    <3>2. Scaled(rec) \in 0..(NoUpper * Segment)
      BY <1>1, <3>1, ScaledType
    <3>3. rec.val * Segment \in 0..(NoUpper * Segment)
      BY <3>1, SegmentProducts
    <3>4. \A n, s, t \in Nat : n <= s /\ s < t => n % t = n
      OBVIOUS
    <3>5. (rec.val * Segment) % Space = rec.val * Segment
      <4> DEFINE p == rec.val * Segment
                 q == NoUpper * Segment
      <4>1. p \in Nat /\ q \in Nat /\ p <= q /\ q < Space /\ Space \in Nat
        BY <3>3, SpaceIs
      <4> HIDE DEF p, q
      <4>2. p % Space = p
        BY <4>1, <3>4
      <4> QED
        BY <4>2 DEF p
    <3>6. out.img.ext_base = IF rec.type = "linear" THEN (rec.val * Segment) % Space
                                             ELSE rec.val * 2 ^ SegShift
      BY <1>3, <2>2 DEF ImageType
    <3> QED
      BY <2>2, <3>2, <3>5, <3>6 DEF Scaled
  <2> QED
    BY <2>1, <2>2
<1>6. /\ out.img \in ImageType /\ out.img.data = m.data /\ out.img.base = m.base
      /\ out.img.outside = m.outside /\ out.img.min = m.min /\ out.img.max = m.max
      /\ out.img.any = m.any /\ out.img.capacity = m.capacity
  <2> DEFINE new == out.img
             e == out.img.ext_base
             s == out.img.eof_seen
  <2>1. new = [m EXCEPT !.ext_base = e, !.eof_seen = s] /\ s \in BOOLEAN
        /\ e \in 0..(NoUpper * Segment)
    BY <1>4, <1>5
  <2> HIDE DEF new, e, s
  <2>2. /\ new \in ImageType /\ new.data = m.data /\ new.base = m.base
        /\ new.outside = m.outside /\ new.min = m.min /\ new.max = m.max
        /\ new.any = m.any /\ new.capacity = m.capacity
    BY <2>1 DEF ImageType
  <2> QED
    BY <2>2 DEF new
<1>7. out.img.ext_base = BaseIn(f, k + 2)
  <2>1. m.ext_base = BaseIn(f, k + 1)
    BY DEF ReadSoFar
  <2>2. BaseIn(f, (k + 1) + 1) = IF IsBase(rec) THEN Scaled(rec) ELSE BaseIn(f, k + 1)
    BY BaseStep, k + 1 \in Nat \ {0}
  <2> QED
    BY <1>5, <2>1, <2>2, (k + 1) + 1 = k + 2
<1>8. \A a : ~Covers(f, k + 1, a)
  BY DEF Covers
<1>9. ReadSoFar(f, k + 1, out.img)
  <2> HIDE DEF out
  <2>1. \A i \in 1..(k + 1) : i \in 1..k \/ i = k + 1
    OBVIOUS
  <2>2. \A a, v : Holds(f, k, a, v) => Holds(f, k + 1, a, v)
    BY <1>8, HoldsOn
  <2>3. \A i : InImage(f, i, m) <=> InImage(f, i, out.img)
    BY <1>6 DEF InImage
  <2>4. \A i \in 1..k : i \in 1..(k + 1)
    OBVIOUS
  <2> QED
    BY <1>1, <1>6, <1>7, <2>1, <2>2, <2>3, <2>4, (k + 1) + 1 = k + 2 DEF ReadSoFar
<1> QED
  BY <1>6, <1>9

\* A data record that is accepted.
LEMMA Accepted ==
    ASSUME NEW m \in ImageType, NEW rec \in Lines, rec.type = "data",
           intel_hex_parse_line(m, rec).status = "Ok",
           NEW offset, offset = (m.ext_base + rec.addr) - m.base
    PROVE  /\ Len(rec.data) <= MaxCount
           /\ offset \in Nat /\ offset < Space
           /\ (offset + Len(rec.data)) % Space <= m.capacity
           /\ intel_hex_parse_line(m, rec).img =
                  Covered(Stored(m, offset, rec.data), offset, Len(rec.data))
<1> DEFINE out == intel_hex_parse_line(m, rec)
           abs == m.ext_base + rec.addr
           n == Len(rec.data)
<1>1. /\ rec.addr \in Nat /\ rec.addr < Segment /\ n \in Nat
      /\ m.ext_base \in Nat /\ m.ext_base <= NoUpper * Segment
      /\ m.base \in Nat /\ m.capacity \in Nat
  <2>1. rec.addr \in 0..(Segment - 1) /\ rec.data \in Seq(Nat)
    BY DEF Lines
  <2>2. m.ext_base \in 0..(NoUpper * Segment) /\ m.base \in 0..(Space - 1)
        /\ m.capacity \in 0..(Space - 1)
    BY DEF ImageType
  <2> QED
    BY <2>1, <2>2, SpaceIs
<1>2. abs \in Nat /\ abs < Space
  <2> DEFINE p == NoUpper * Segment
  <2>1. p \in Nat /\ Space = p + Segment /\ Segment \in Nat /\ m.ext_base <= p
    BY <1>1, SpaceIs
  <2> HIDE DEF p
  <2> QED
    BY <1>1, <2>1
<1>3. abs % Space = abs
  <2>1. \A x, s \in Nat : x < s => x % s = x
    OBVIOUS
  <2> HIDE DEF abs
  <2> QED
    BY <1>2, <2>1, SpaceIs
<1>4. ~BadLine(rec) /\ out = DataRecord(m, rec)
  BY DEF intel_hex_parse_line
<1>5. n <= MaxCount
  BY <1>1, <1>4, IntelHexAssumption DEF BadLine, BadFormat
<1>6. offset = abs - m.base /\ offset \in Int /\ offset < Space
  <2> HIDE DEF abs
  <2>1. offset = abs - m.base
    BY DEF abs
  <2> QED
    BY <1>1, <1>2, <2>1, SpaceIs
<1>7. out = IF abs < m.base \/ (offset + n) % Space > m.capacity
            THEN [status |-> "ErrOverflow", img |-> m]
            ELSE [status |-> "Ok", img |-> Covered(Stored(m, offset, rec.data), offset, n)]
  BY <1>3, <1>4, <1>6 DEF DataRecord, Ok
<1>8. out.status = "Ok"
  OBVIOUS
<1> DEFINE new == Covered(Stored(m, offset, rec.data), offset, n)
           x == (offset + n) % Space
<1>9. ~(abs < m.base) /\ ~(x > m.capacity) /\ out.img = new
  <2> DEFINE c == abs < m.base \/ x > m.capacity
  <2>1. out = IF c THEN [status |-> "ErrOverflow", img |-> m] ELSE [status |-> "Ok", img |-> new]
    BY <1>7
  <2> HIDE DEF out, new, c
  <2>2. ~c /\ out.img = new
    BY <1>8, <2>1
  <2> QED
    BY <2>2 DEF c
<1>10. x \in Nat
  <2>1. \A y \in Int, s \in Nat \ {0} : y % s \in Nat
    OBVIOUS
  <2>2. offset + n \in Int /\ Space \in Nat \ {0}
    BY <1>1, <1>6, SpaceIs
  <2> QED
    BY <2>1, <2>2
<1>11. offset \in Nat /\ x <= m.capacity
  <2> HIDE DEF x, abs
  <2> QED
    BY <1>1, <1>2, <1>6, <1>9, <1>10
<1> QED
  BY <1>5, <1>6, <1>9, <1>11, Zenon

\* new is m with these bytes stored, as long as they end in the buffer.
StoredIn(m, offset, bytes, new) ==
    /\ new \in ImageType /\ DOMAIN new.data = 0..(new.capacity - 1)
    /\ new.capacity = m.capacity /\ new.base = m.base /\ new.ext_base = m.ext_base
    /\ new.any /\ (new.outside <=> (m.outside \/ offset + Len(bytes) > m.capacity))
    /\ \A o \in DOMAIN m.data :
           new.data[o] = IF o \in offset..(offset + Len(bytes) - 1) THEN bytes[o - offset + 1]
                         ELSE m.data[o]
    /\ new.min <= offset /\ (m.any => new.min <= m.min)
    /\ ~new.outside =>
           /\ new.max \in {m.max, offset + Len(bytes)}
           /\ ~m.any => new.max = offset + Len(bytes)
           /\ new.max >= offset + Len(bytes)
           /\ m.any => new.max >= m.max

LEMMA StoredAt ==
    ASSUME NEW m \in ImageType, DOMAIN m.data = 0..(m.capacity - 1),
           NEW offset \in Nat, NEW bytes \in Seq(Nat), offset < Space
    PROVE  StoredIn(m, offset, bytes, Covered(Stored(m, offset, bytes), offset, Len(bytes)))
<1> DEFINE n == Len(bytes)
           new == Covered(Stored(m, offset, bytes), offset, n)
           e == (offset + n) % Space
           data == [o \in DOMAIN m.data |->
                        IF o \in offset..(offset + n - 1) THEN bytes[o - offset + 1] ELSE m.data[o]]
           low == IF m.any THEN Smaller(m.min, offset) ELSE offset
           high == IF m.any THEN Larger(m.max, e) ELSE e
           out == (m.outside \/ offset + n > m.capacity)
<1>1. /\ n \in Nat /\ e \in Nat /\ m.min \in Nat /\ m.max \in Nat
      /\ m.capacity \in Nat /\ m.capacity < Space /\ m.any \in BOOLEAN /\ m.outside \in BOOLEAN
  <2>1. \A x \in Int, s \in Nat \ {0} : x % s \in Nat
    OBVIOUS
  <2>2. offset + n \in Int /\ n \in Nat
    OBVIOUS
  <2>3. e \in Nat
    BY <2>1, <2>2, SpaceIs
  <2>4. m.capacity \in 0..(Space - 1) /\ m.min \in Nat /\ m.max \in Nat
        /\ m.any \in BOOLEAN /\ m.outside \in BOOLEAN
    BY DEF ImageType
  <2> QED
    BY <2>2, <2>3, <2>4, SpaceIs
<1>2. out \in BOOLEAN
  OBVIOUS
<1>3. new = [m EXCEPT !.data = data, !.outside = out, !.any = TRUE, !.min = low, !.max = high]
  BY DEF Covered, Stored
<1>4. low \in Nat /\ high \in Nat /\ low <= offset /\ (m.any => low <= m.min)
      /\ high \in {m.max, e} /\ high >= e /\ (m.any => high >= m.max) /\ (~m.any => high = e)
  <2> HIDE DEF e
  <2> QED
    BY <1>1 DEF Smaller, Larger
<1>5. data \in UNION {[0..(c - 1) -> Nat] : c \in Nat} /\ DOMAIN data = 0..(m.capacity - 1)
  <2>1. PICK c \in Nat : m.data \in [0..(c - 1) -> Nat]
    BY DEF ImageType
  <2>2. \A o \in DOMAIN m.data : m.data[o] \in Nat
    BY <2>1
  <2>3. \A o \in DOMAIN m.data : data[o] \in Nat
    <3> SUFFICES ASSUME NEW o \in DOMAIN m.data
                 PROVE  data[o] \in Nat
      OBVIOUS
    <3>1. o \in Int
      BY <2>1
    <3>2. o \in offset..(offset + n - 1) => o - offset + 1 \in 1..Len(bytes)
      BY <1>1, <3>1
    <3> QED
      BY <2>2, <3>2
  <2>4. data \in [DOMAIN m.data -> Nat]
    BY <2>3
  <2>5. DOMAIN m.data = 0..(c - 1)
    BY <2>1
  <2> HIDE DEF data
  <2> QED
    BY <2>4, <2>5
<1>6. /\ new.data = data /\ new.outside = out /\ new.any = TRUE /\ new.min = low /\ new.max = high
      /\ new.capacity = m.capacity /\ new.base = m.base /\ new.ext_base = m.ext_base
      /\ new \in ImageType
  <2> HIDE DEF data, out, low, high, new
  <2> QED
    BY <1>2, <1>3, <1>4, <1>5 DEF ImageType
<1> HIDE DEF new
<1>7. ~new.outside => e = offset + n
  <2>1. \A x, t \in Nat : x < t => x % t = x
    BY SmallModulo
  <2>2. ~new.outside => offset + n <= m.capacity
    <3>1. out <=> (m.outside \/ offset + n > m.capacity)
      OBVIOUS
    <3> HIDE DEF out
    <3> QED
      BY <1>1, <1>6, <3>1
  <2>3. n \in Nat /\ m.capacity \in Nat /\ m.capacity < Space /\ Space \in Nat
    BY <1>1, SpaceIs
  <2> HIDE DEF n
  <2>4. ~new.outside => offset + n < Space /\ offset + n \in Nat
    BY <2>2, <2>3
  <2> QED
    BY <2>1, <2>3, <2>4
<1>8. \A o \in DOMAIN m.data :
          data[o] = IF o \in offset..(offset + Len(bytes) - 1) THEN bytes[o - offset + 1]
                    ELSE m.data[o]
  OBVIOUS
<1>9. out <=> (m.outside \/ offset + Len(bytes) > m.capacity)
  OBVIOUS
<1> HIDE DEF data, out, low, high, e
<1> QED
  BY <1>1, <1>4, <1>5, <1>6, <1>7, <1>8, <1>9 DEF StoredIn, new

\* A data line adds its bytes to the image, and itself to its range.
LEMMA DataLine ==
    ASSUME NEW f \in Seq(Lines), NEW k \in Nat, k < Len(f), NEW m \in ImageType,
           DOMAIN m.data = 0..(m.capacity - 1),
           ReadSoFar(f, k, m), f[k + 1].type = "data",
           NEW out, out = intel_hex_parse_line(m, f[k + 1]), out.status = "Ok"
    PROVE  /\ ReadSoFar(f, k + 1, out.img) /\ out.img \in ImageType
           /\ DOMAIN out.img.data = 0..(out.img.capacity - 1)
           /\ out.img.base = m.base
           /\ After(f, k + 1) < Space /\ ~m.outside => ~out.img.outside
<1> DEFINE rec == f[k + 1]
           new == out.img
           offset == (m.ext_base + rec.addr) - m.base
           n == Len(rec.data)
<1>1. /\ k + 1 \in 1..Len(f) /\ rec \in Lines /\ rec.data \in Seq(Nat) /\ n \in Nat
      /\ BaseIn(f, k + 1) = m.ext_base /\ m.base \in Nat /\ m.ext_base \in Int
      /\ rec.addr \in Int
  <2>1. k + 1 \in 1..Len(f)
    OBVIOUS
  <2>2. m.base \in Nat /\ m.ext_base \in Int
    BY SpaceIs DEF ImageType
  <2> QED
    BY <2>1, <2>2, LineType DEF ReadSoFar
<1>2. First(f, k + 1) = offset + m.base /\ After(f, k + 1) = (offset + n) + m.base
  <2>1. First(f, k + 1) = m.ext_base + rec.addr
    BY <1>1 DEF First
  <2>2. After(f, k + 1) = m.ext_base + rec.addr + n
    BY <2>1 DEF After
  <2>3. \A x, a, b, l \in Int : /\ x + a = ((x + a) - b) + b
                              /\ x + a + l = (((x + a) - b) + l) + b
    OBVIOUS
  <2>4. m.ext_base \in Int /\ rec.addr \in Int /\ m.base \in Int /\ n \in Int
    BY <1>1
  <2> HIDE DEF rec, n
  <2> QED
    BY <2>1, <2>2, <2>3, <2>4
<1>3. /\ n <= MaxCount /\ offset \in Nat /\ offset < Space
      /\ (offset + n) % Space <= m.capacity
      /\ new = Covered(Stored(m, offset, rec.data), offset, n)
  <2> HIDE DEF offset
  <2>1. offset = (m.ext_base + rec.addr) - m.base
    BY DEF offset
  <2> QED
    BY <1>1, <2>1, Accepted
<1>4. /\ new \in ImageType /\ DOMAIN new.data = 0..(new.capacity - 1)
      /\ new.capacity = m.capacity /\ new.base = m.base /\ new.ext_base = m.ext_base
      /\ new.any /\ (new.outside <=> (m.outside \/ offset + n > m.capacity))
      /\ \A o \in DOMAIN m.data :
             new.data[o] = IF o \in offset..(offset + n - 1) THEN rec.data[o - offset + 1]
                           ELSE m.data[o]
      /\ new.min <= offset /\ (m.any => new.min <= m.min)
      /\ ~new.outside =>
             /\ new.max \in {m.max, offset + n}
             /\ ~m.any => new.max = offset + n
             /\ new.max >= offset + n
             /\ m.any => new.max >= m.max
  <2>1. /\ m \in ImageType /\ DOMAIN m.data = 0..(m.capacity - 1)
        /\ offset \in Nat /\ rec.data \in Seq(Nat) /\ offset < Space
        /\ new = Covered(Stored(m, offset, rec.data), offset, Len(rec.data))
    BY <1>1, <1>3
  <2> HIDE DEF new, offset, rec
  <2>2. StoredIn(m, offset, rec.data, new)
    BY <2>1, StoredAt
  <2> QED
    BY <2>2 DEF StoredIn
<1>5. After(f, k + 1) < Space /\ ~m.outside => ~new.outside
  <2>1. \A x, s \in Nat : x < s => x % s = x
    OBVIOUS
  <2> DEFINE e == offset + n
  <2>2. e \in Nat
    BY <1>1, <1>3
  <2>3. After(f, k + 1) = e + m.base
    BY <1>2
  <2>4. m.capacity \in Nat /\ Space \in Nat
    BY SpaceIs DEF ImageType
  <2>5. e % Space <= m.capacity
    BY <1>3
  <2>6. new.outside <=> (m.outside \/ e > m.capacity)
    BY <1>4
  <2> HIDE DEF new, offset, e, n
  <2>7. After(f, k + 1) < Space => e < Space
    BY <1>1, <2>2, <2>3, <2>4
  <2>8. After(f, k + 1) < Space => e <= m.capacity
    BY <2>1, <2>2, <2>4, <2>5, <2>7
  <2> QED
    BY <2>2, <2>4, <2>6, <2>8
<1>6. /\ m.min \in Nat /\ m.max \in Nat /\ new.min \in Nat /\ new.max \in Nat
  <2> HIDE DEF new
  <2> QED
    BY <1>4 DEF ImageType
<1>7. new.ext_base = BaseIn(f, k + 2)
  <2>1. BaseIn(f, (k + 1) + 1) = BaseIn(f, k + 1)
    BY BaseStep, k + 1 \in Nat \ {0} DEF IsBase
  <2> QED
    BY <1>1, <1>4, <2>1, (k + 1) + 1 = k + 2
<1>8. ASSUME ~new.outside
      PROVE  ~m.outside
  BY <1>4, <1>8
<1>9. ASSUME ~new.outside, NEW i \in 1..(k + 1), f[i].type = "data"
      PROVE  InImage(f, i, new)
  <2>1. CASE i = k + 1
    <3> HIDE DEF new, offset
    <3>1. First(f, i) - m.base = offset /\ After(f, i) - m.base = offset + n
          /\ First(f, i) >= m.base
      BY <1>1, <1>2, <1>3, <2>1
    <3> QED
      BY <1>3, <1>4, <1>9, <2>1, <3>1 DEF InImage
  <2>2. CASE i \in 1..k
    <3>1. m.any /\ InImage(f, i, m)
      BY <1>8, <1>9, <2>2 DEF ReadSoFar
    <3>2. First(f, i) \in Int /\ After(f, i) \in Int
      BY LineType, <2>2, i \in 1..Len(f)
    <3>3. new.min <= m.min /\ new.max >= m.max /\ new.base = m.base
      BY <1>4, <1>9, <3>1
    <3> HIDE DEF new
    <3>4. First(f, i) - m.base \in Int /\ After(f, i) - m.base \in Int
      BY <1>1, <3>2
    <3>5. new.min <= First(f, i) - m.base
      <4>1. m.min <= First(f, i) - m.base
        BY <3>1 DEF InImage
      <4> QED
        BY <1>6, <3>3, <3>4, <4>1
    <3>6. After(f, i) - m.base <= new.max
      <4>1. After(f, i) - m.base <= m.max
        BY <3>1 DEF InImage
      <4> QED
        BY <1>6, <3>3, <3>4, <4>1
    <3> QED
      BY <3>1, <3>3, <3>5, <3>6 DEF InImage
  <2> QED
    BY <2>1, <2>2, i \in 1..k \/ i = k + 1
<1>10. ASSUME ~new.outside
       PROVE  \E i \in 1..(k + 1) : f[i].type = "data" /\ new.max = After(f, i) - m.base
  <2>1. CASE new.max = offset + n
    <3>1. After(f, k + 1) - m.base = offset + n
      BY <1>1, <1>2, <1>3
    <3>2. k + 1 \in 1..(k + 1)
      OBVIOUS
    <3> QED
      BY <2>1, <3>1, <3>2
  <2>2. CASE new.max = m.max /\ m.any
    <3>1. PICK i \in 1..k : f[i].type = "data" /\ m.max = After(f, i) - m.base
      BY <1>8, <1>10, <2>2 DEF ReadSoFar
    <3>2. i \in 1..(k + 1)
      OBVIOUS
    <3> QED
      BY <2>2, <3>1, <3>2
  <2> QED
    BY <1>4, <1>10, <2>1, <2>2
<1>11. ASSUME ~new.outside, NEW o \in DOMAIN new.data
       PROVE  Holds(f, k + 1, o + m.base, new.data[o])
  <2> DEFINE a == o + m.base
  <2>1. o \in Nat /\ o \in DOMAIN m.data
    BY <1>4
  <2>2. Holds(f, k, a, m.data[o])
    BY <1>8, <1>11, <2>1 DEF ReadSoFar
  <2>3. CASE o \in offset..(offset + n - 1)
    <3>1. Covers(f, k + 1, a)
      <4> HIDE DEF offset
      <4>1. a \in First(f, k + 1)..(After(f, k + 1) - 1)
        <5>1. \A x, b, l, z \in Nat :
                  z \in x..(x + l - 1) => z + b \in (x + b)..((x + l + b) - 1)
          OBVIOUS
        <5>2. First(f, k + 1) = offset + m.base /\ After(f, k + 1) = offset + n + m.base
          BY <1>2
        <5>3. offset \in Nat /\ n \in Nat /\ m.base \in Nat
          BY <1>1, <1>3
        <5> HIDE DEF n
        <5> QED
          BY <2>1, <2>3, <5>1, <5>2, <5>3
      <4> QED
        BY <4>1 DEF Covers
    <3>2. Byte(f, k + 1, a) = new.data[o]
      <4>1. new.data[o] = rec.data[o - offset + 1]
        BY <1>4, <2>1, <2>3
      <4> HIDE DEF offset, new
      <4>2. a - First(f, k + 1) + 1 = o - offset + 1
        BY <1>1, <1>2, <1>3, <2>1
      <4> QED
        BY <4>1, <4>2 DEF Byte
    <3> QED
      BY <3>1, <3>2, HoldsNow
  <2>4. CASE o \notin offset..(offset + n - 1)
    <3>1. ~Covers(f, k + 1, a)
      <4>1. \A x, l, s, b \in Nat : x \notin l..(l + s - 1) =>
                x + b \notin (l + b)..(((l + s) + b) - 1)
        OBVIOUS
      <4>2. o + m.base \notin (offset + m.base)..(((offset + n) + m.base) - 1)
        <5>1. o \in Nat /\ offset \in Nat /\ n \in Nat /\ m.base \in Nat
          BY <1>1, <1>3, <2>1
        <5> HIDE DEF offset, n
        <5> QED
          BY <2>4, <4>1, <5>1
      <4>3. a \notin First(f, k + 1)..(After(f, k + 1) - 1)
        BY <1>2, <4>2
      <4> QED
        BY <4>3 DEF Covers
    <3>2. new.data[o] = m.data[o]
      BY <1>4, <2>1, <2>4
    <3> QED
      BY <2>2, <3>1, <3>2, HoldsOn
  <2> QED
    BY <2>3, <2>4
<1>12. ReadSoFar(f, k + 1, new)
  <2> HIDE DEF new
  <2> QED
    BY <1>4, <1>7, <1>9, <1>10, <1>11, (k + 1) + 1 = k + 2 DEF ReadSoFar
<1> QED
  BY <1>4, <1>5, <1>12

\* What a line that is accepted does, whatever its kind.
LEMMA ParsedLine ==
    ASSUME NEW f \in Seq(Lines), NEW k \in Nat, k < Len(f), NEW m \in ImageType,
           DOMAIN m.data = 0..(m.capacity - 1),
           ReadSoFar(f, k, m), IsBase(f[k + 1]) => f[k + 1].val <= NoUpper,
           NEW out, out = intel_hex_parse_line(m, f[k + 1]), out.status = "Ok"
    PROVE  /\ ReadSoFar(f, k + 1, out.img) /\ out.img \in ImageType
           /\ DOMAIN out.img.data = 0..(out.img.capacity - 1)
           /\ (f[k + 1].type = "data" => After(f, k + 1) < Space) /\ ~m.outside =>
                  ~out.img.outside
<1>1. CASE f[k + 1].type = "data"
  BY <1>1, DataLine
<1>2. CASE f[k + 1].type # "data"
  BY <1>2, OtherLines
<1> QED
  BY <1>1, <1>2

\* A line that is refused changes nothing.
LEMMA RefusedLine ==
    ASSUME NEW m, NEW rec, NEW out, out = intel_hex_parse_line(m, rec), out.status # "Ok"
    PROVE  out.img = m
<1>1. CASE rec.type = "blank"
  BY <1>1 DEF intel_hex_parse_line, Ok
<1>2. CASE rec.type # "blank" /\ BadLine(rec)
  <2>1. out = [status |-> IF BadFormat(rec) THEN "ErrFormat" ELSE "ErrChecksum", img |-> m]
    BY <1>2 DEF intel_hex_parse_line
  <2> QED
    BY <2>1
<1>3. CASE rec.type # "blank" /\ ~BadLine(rec)
  <2>1. CASE rec.type = "data"
    <3>1. out = DataRecord(m, rec)
      BY <1>3, <2>1 DEF intel_hex_parse_line
    <3> QED
      BY <3>1 DEF DataRecord, Ok
  <2>2. CASE rec.type = "linear"
    <3>1. out = AddressRecord(m, rec, (rec.val * Segment) % Space)
      BY <1>3, <2>2 DEF intel_hex_parse_line
    <3> DEFINE b == (rec.val * Segment) % Space
    <3> HIDE DEF b
    <3>2. out = AddressRecord(m, rec, b)
      BY <3>1 DEF b
    <3> QED
      BY <3>2 DEF AddressRecord, Ok
  <2>3. CASE rec.type = "segment"
    <3>1. out = AddressRecord(m, rec, SegmentBase(rec.val))
      BY <1>3, <2>3 DEF intel_hex_parse_line
    <3> QED
      BY <3>1 DEF AddressRecord, Ok
  <2>4. CASE rec.type \in {"eof", "start"}
    BY <1>3, <2>4 DEF intel_hex_parse_line, Ok
  <2>5. CASE rec.type \notin {"data", "linear", "segment", "eof", "start"}
    <3>1. out = [status |-> "ErrUnsupported", img |-> m]
      BY <1>3, <2>5 DEF intel_hex_parse_line
    <3> QED
      BY <3>1
  <2> QED
    BY <2>1, <2>2, <2>3, <2>4, <2>5
<1> QED
  BY <1>1, <1>2, <1>3

-----------------------------------------------------------------------------
(* The writer of a dump.                                                   *)

LEMMA Division ==
    ASSUME NEW n \in Nat, NEW s \in Nat \ {0}
    PROVE  /\ n \div s \in Nat /\ n % s \in 0..(s - 1)
           /\ n = (n \div s) * s + (n % s)
OBVIOUS

LEMMA Quotient ==
    ASSUME NEW n \in Nat, NEW s \in Nat \ {0}, NEW u \in Nat, n < u * s
    PROVE  n \div s < u
<1> DEFINE q == n \div s
           r == n % s
<1>1. q \in Nat /\ r \in Nat /\ n = q * s + r
  BY Division
<1> HIDE DEF q, r
<1>2. SUFFICES ASSUME u <= q
               PROVE  FALSE
  BY <1>1 DEF q
<1>3. u * s <= q * s /\ u * s \in Nat
  BY <1>1, <1>2, Products
<1>4. q * s \in Nat /\ q * s <= n
  BY <1>1
<1> QED
  BY <1>3, <1>4

\* Where the writer is, while it is not at the end.
LEMMA WriterAt ==
    ASSUME NEW x, x.start \in Nat, x.bytes \in Seq(Nat), x.off \in Nat, x.bpl \in 1..MaxCount,
           x.off < Len(x.bytes), x.start + Len(x.bytes) <= NoUpper * Segment
    PROVE  /\ Upper(x) \in 0..NoUpper /\ Upper(x) # NoUpper
           /\ Low(x) \in 0..(Segment - 1)
           /\ Upper(x) * Segment \in Nat
           /\ x.start + x.off = Upper(x) * Segment + Low(x)
           /\ Chunk(x) \in 1..MaxCount
           /\ x.off + Chunk(x) <= Len(x.bytes) /\ Low(x) + Chunk(x) <= Segment
<1> DEFINE n == x.start + x.off
           top == NoUpper * Segment
           len == Len(x.bytes)
<1>0. len \in Nat
  OBVIOUS
<1>1. /\ n \in Nat /\ n < top /\ top \in Nat /\ top < Space
      /\ Segment \in Nat \ {0} /\ NoUpper \in Nat /\ Space \in Nat
  <2> HIDE DEF len
  <2> QED
    BY <1>0, SpaceIs DEF len
<1>2. AbsAddr(x) = n
  <2>1. n \in Nat /\ Space \in Nat /\ n < Space
    <3> HIDE DEF n
    <3> QED
      BY <1>1
  <2> HIDE DEF n, top
  <2>2. n % Space = n
    BY <2>1, SmallModulo
  <2> QED
    BY <2>2 DEF AbsAddr, n
<1>3. Upper(x) = n \div Segment /\ Low(x) = n % Segment
  BY <1>2 DEF Upper, Low
<1> HIDE DEF n
<1>4. /\ Upper(x) \in Nat /\ Low(x) \in 0..(Segment - 1)
      /\ n = Upper(x) * Segment + Low(x)
  BY <1>1, <1>3, Division
<1>5. Upper(x) < NoUpper
  BY <1>1, <1>3, Quotient
<1>6. Upper(x) * Segment \in Nat
  <2>1. \A a, b \in Nat : a * b \in Nat
    OBVIOUS
  <2> QED
    BY <1>1, <1>4, <2>1
<1>7. /\ Chunk(x) \in 1..MaxCount
      /\ x.off + Chunk(x) <= Len(x.bytes) /\ Low(x) + Chunk(x) <= Segment
  <2> DEFINE a == len - x.off
             b == Segment - Low(x)
             c == Chunk(x)
  <2>1. a \in Nat \ {0} /\ b \in Nat \ {0}
    <3>1. \A s \in Nat \ {0} : \A l \in 0..(s - 1) : s - l \in Nat \ {0}
      OBVIOUS
    <3>2. b \in Nat \ {0}
      BY <1>1, <1>4, <3>1
    <3>3. x.off \in Nat /\ x.off < len
      OBVIOUS
    <3> HIDE DEF len
    <3>4. a \in Nat \ {0}
      BY <1>0, <3>3
    <3> QED
      BY <3>2, <3>4
  <2>2. c = Smaller(Smaller(a, x.bpl), b)
    BY DEF Chunk
  <2>3. x.bpl \in Nat \ {0} /\ x.bpl <= MaxCount /\ MaxCount \in Nat
    BY IntelHexAssumption
  <2>4. c \in 1..MaxCount /\ c <= a /\ c <= b
    <3> HIDE DEF a, b, c
    <3> QED
      BY <2>1, <2>2, <2>3 DEF Smaller
  <2>5. c \in Nat /\ Low(x) \in Nat /\ x.off \in Nat
    BY <1>1, <1>4, <2>3, <2>4
  <2> HIDE DEF c, len
  <2>6. x.off + c <= len /\ Low(x) + c <= Segment
    <3>1. \A o, l, k \in Nat : k <= l - o => o + k <= l
      OBVIOUS
    <3>2. x.off + c <= len
      BY <1>0, <2>4, <2>5, <3>1
    <3>3. Low(x) + c <= Segment
      BY <1>1, <2>4, <2>5, <3>1
    <3> QED
      BY <3>2, <3>3
  <2> QED
    BY <2>4, <2>6 DEF c, len
<1>8. Upper(x) \in 0..NoUpper /\ Upper(x) # NoUpper
  <2>1. \A a, b \in Nat : a < b => a \in 0..b /\ a # b
    OBVIOUS
  <2> QED
    BY <1>1, <1>4, <1>5, <2>1
<1> QED
  BY <1>4, <1>6, <1>7, <1>8 DEF n

\* The lines of a dump stay lines of it when one more is written.
LEMMA OneLineMore ==
    ASSUME NEW f \in Seq(Lines), NEW r \in Lines
    PROVE  /\ Append(f, r) \in Seq(Lines) /\ Len(Append(f, r)) = Len(f) + 1
           /\ DOMAIN Append(f, r) = 1..(Len(f) + 1) /\ DOMAIN f = 1..Len(f)
           /\ Append(f, r)[Len(f) + 1] = r
           /\ \A i \in 1..Len(f) : Append(f, r)[i] = f[i]
           /\ Append(f, r) # <<>>
OBVIOUS

LEMMA FirstOfNew ==
    ASSUME NEW f \in Seq(Lines), NEW r \in Lines
    PROVE  /\ First(Append(f, r), Len(f) + 1) = BaseIn(f, Len(f) + 1) + r.addr
           /\ After(Append(f, r), Len(f) + 1) = BaseIn(f, Len(f) + 1) + r.addr + Len(r.data)
           /\ BaseIn(Append(f, r), Len(f) + 2) =
                  IF IsBase(r) THEN Scaled(r) ELSE BaseIn(f, Len(f) + 1)
<1> DEFINE g == Append(f, r)
           n == Len(f) + 1
<1>1. n \in Nat \ {0} /\ n - 1 = Len(f) /\ n + 1 = Len(f) + 2
  OBVIOUS
<1>2. \A j \in 1..(n - 1) : g[j] = f[j]
  BY <1>1, OneLineMore
<1>3. g[n] = r
  BY OneLineMore
<1> HIDE DEF g, n
<1>4. BaseIn(g, n) = BaseIn(f, n)
  BY <1>1, <1>2, BaseSame
<1>5. BaseIn(g, n + 1) = IF IsBase(r) THEN Scaled(r) ELSE BaseIn(f, n)
  BY <1>1, <1>3, <1>4, BaseStep
<1>6. First(g, n) = BaseIn(f, n) + r.addr
      /\ After(g, n) = BaseIn(f, n) + r.addr + Len(r.data)
  BY <1>3, <1>4 DEF First, After
<1> QED
  BY <1>1, <1>5, <1>6 DEF g, n

\* What OfDump asks of one line.
DumpLine(f, i, start, bytes) ==
    /\ f[i].type \in {"data", "linear", "eof"}
    /\ f[i].type = "eof" => f[i] = EOF
    /\ f[i].type = "linear" => f[i].val \in 0..NoUpper
    /\ f[i].type = "data" =>
        /\ f[i].addr + Len(f[i].data) <= Segment /\ Len(f[i].data) <= MaxCount
        /\ start <= First(f, i) /\ After(f, i) <= start + Len(bytes)
        /\ \A a \in First(f, i)..(After(f, i) - 1) : Byte(f, i, a) = bytes[a - start + 1]

LEMMA OfDumpMore ==
    ASSUME NEW f \in Seq(Lines), NEW r \in Lines, NEW start, NEW bytes,
           OfDump(f, start, bytes), DumpLine(Append(f, r), Len(f) + 1, start, bytes)
    PROVE  OfDump(Append(f, r), start, bytes)
<1> DEFINE g == Append(f, r)
<1>1. \A j \in 1..Len(f) : f[j] = g[j]
  BY OneLineMore
<1>2. SUFFICES ASSUME NEW i \in 1..(Len(f) + 1)
               PROVE  DumpLine(g, i, start, bytes)
  BY OneLineMore DEF OfDump, DumpLine
<1> HIDE DEF g
<1>3. CASE i \in 1..Len(f)
  <2>1. DumpLine(f, i, start, bytes)
    BY <1>3 DEF OfDump, DumpLine
  <2>2. Len(f) \in Nat
    OBVIOUS
  <2>3. /\ f[i] = g[i] /\ First(f, i) = First(g, i) /\ After(f, i) = After(g, i)
        /\ \A a : Byte(f, i, a) = Byte(g, i, a)
    BY <1>1, <1>3, <2>2, LineSame
  <2> QED
    BY <2>1, <2>3 DEF DumpLine
<1>4. CASE i = Len(f) + 1
  BY <1>4 DEF g
<1> QED
  BY <1>3, <1>4, Len(f) \in Nat

LEMMA CompleteMore ==
    ASSUME NEW f \in Seq(Lines), NEW r \in Lines, NEW start \in Nat, NEW n \in Nat, NEW d \in Nat,
           Complete(f, start, n),
           \A o \in n..(n + d - 1) : Covers(Append(f, r), Len(f) + 1, start + o)
    PROVE  Complete(Append(f, r), start, n + d)
<1> DEFINE g == Append(f, r)
<1>1. \A j \in 1..Len(f) : f[j] = g[j]
  BY OneLineMore
<1>2. DOMAIN g = 1..(Len(f) + 1) /\ DOMAIN f = 1..Len(f) /\ Len(f) \in Nat
  BY OneLineMore
<1>3. SUFFICES ASSUME NEW o \in 0..((n + d) - 1)
               PROVE  \E i \in DOMAIN g : Covers(g, i, start + o)
  BY DEF Complete
<1>4. CASE o \in 0..(n - 1)
  <2>1. PICK i \in DOMAIN f : Covers(f, i, start + o)
    BY <1>4 DEF Complete
  <2>2. i \in 1..Len(f) /\ i \in 1..(Len(f) + 1)
    BY <1>2, <2>1
  <2> HIDE DEF g
  <2>3. Covers(g, i, start + o)
    BY <1>1, <1>2, <2>1, <2>2, LineSame
  <2> QED
    BY <1>2, <2>2, <2>3
<1> HIDE DEF g
<1>5. CASE o \in n..(n + d - 1)
  <2>1. Len(f) + 1 \in DOMAIN g
    BY <1>2
  <2>2. Covers(g, Len(f) + 1, start + o)
    BY <1>5 DEF g
  <2> QED
    BY <2>1, <2>2
<1> QED
  BY <1>4, <1>5

-----------------------------------------------------------------------------
(* The inductive invariant.                                                *)

LEMMA EmptyImage ==
    ASSUME NEW c \in 0..(Space - 1), NEW b \in 0..(Space - 1), NEW f
    PROVE  /\ intel_hex_image_init(c, b) \in ImageType
           /\ DOMAIN intel_hex_image_init(c, b).data = 0..(intel_hex_image_init(c, b).capacity - 1)
           /\ ReadSoFar(f, 0, intel_hex_image_init(c, b))
           /\ ~intel_hex_image_init(c, b).outside
<1> DEFINE data == [o \in 0..(c - 1) |-> Fill]
           m == intel_hex_image_init(c, b)
<1>1. m = [data |-> data, capacity |-> c, base |-> b, ext_base |-> 0, min |-> 0, max |-> 0,
           any |-> FALSE, eof_seen |-> FALSE, outside |-> FALSE]
  BY DEF intel_hex_image_init
<1>2. c \in Nat /\ 0 \in 0..(NoUpper * Segment)
  BY SpaceIs
<1>3. data \in [0..(c - 1) -> Nat] /\ DOMAIN data = 0..(c - 1)
  BY DEF Fill
<1>4. data \in UNION {[0..(k - 1) -> Nat] : k \in Nat}
  <2> HIDE DEF data
  <2> QED
    BY <1>2, <1>3
<1>5. \A o \in 0..(c - 1) : data[o] = Fill
  OBVIOUS
<1> HIDE DEF data, m
<1>6. m \in ImageType
  BY <1>1, <1>2, <1>4 DEF ImageType
<1>7. /\ m.data = data /\ m.capacity = c /\ m.ext_base = 0 /\ ~m.any /\ ~m.outside
  BY <1>1
<1>8. BaseIn(f, 0 + 1) = 0
  BY BaseFirst
<1>9. \A o \in DOMAIN m.data : Holds(f, 0, o + m.base, m.data[o])
  BY <1>3, <1>5, <1>7 DEF Holds
<1>10. ReadSoFar(f, 0, m)
  BY <1>7, <1>8, <1>9 DEF ReadSoFar
<1> QED
  BY <1>3, <1>6, <1>7, <1>10 DEF m

LEMMA WriterInit ==
    ASSUME NEW start \in Nat, NEW bytes \in Seq(Nat), NEW bpl \in Nat
    PROVE  Writer(start, bytes, bpl) \in WriterType
BY IntelHexAssumption, SpaceIs DEF Writer, WriterType

LEMMA HexInit == Init => HexInv
<1> SUFFICES ASSUME Init
             PROVE  HexInv
  OBVIOUS
<1>1. file = <<>> /\ file \in Seq(Lines) /\ DOMAIN file = {} /\ Len(file) = 0
      /\ next = 1 /\ result = "running"
  BY DEF Init
<1>2. ~ReadOk
  BY <1>1 DEF ReadOk
<1>3. CASE phase = "dumping" /\ (\E d \in Dumps, b \in Bpls : w = Writer(d.start, d.bytes, b))
           /\ img = NoImage
  <2>1. PICK d \in Dumps, b \in Bpls : w = Writer(d.start, d.bytes, b)
    BY <1>3
  <2>2. /\ d.start \in Nat /\ d.bytes \in Seq(Nat) /\ d.bytes # <<>> /\ b \in Nat
        /\ d.start + Len(d.bytes) <= NoUpper * Segment
    BY HexFileAssumption
  <2>3. w \in WriterType
    BY <2>1, <2>2, WriterInit
  <2>4. w.start = d.start /\ w.bytes = d.bytes /\ w.off = 0 /\ w.cur_upper = NoUpper
    BY <2>1 DEF Writer
  <2>5. img \in ImageType /\ DOMAIN img.data = 0..(img.capacity - 1)
    BY <1>3, EmptyImage, SpaceIs, 0 \in 0..(Space - 1) DEF NoImage
  <2>6. TypeOK
    BY <1>1, <1>3, <2>2, <2>3, <2>4, <2>5 DEF TypeOK
  <2>7. ReaderInv
    BY <1>2, <1>3 DEF ReaderInv
  <2>8. BaseIn(file, Len(file) + 1) = 0
    BY <1>1, BaseFirst
  <2>9. WriterInv
    BY <1>1, <1>3, <2>2, <2>4, <2>8 DEF WriterInv, Dumped, OfDump, Complete
  <2> QED
    BY <2>6, <2>7, <2>9 DEF HexInv
<1>4. CASE phase = "reading" /\ w = Writer(0, <<>>, 1)
           /\ \E i \in Images : img = intel_hex_image_init(i.capacity, i.base)
  <2>1. PICK i \in Images : img = intel_hex_image_init(i.capacity, i.base)
    BY <1>4
  <2>2. i.capacity \in 0..(Space - 1) /\ i.base \in 0..(Space - 1)
    BY HexFileAssumption
  <2>3. w \in WriterType
    BY <1>4, WriterInit, <<>> \in Seq(Nat)
  <2>4. w.bytes = <<>>
    BY <1>4 DEF Writer
  <2>5. /\ img \in ImageType /\ DOMAIN img.data = 0..(img.capacity - 1)
        /\ ReadSoFar(file, 0, img) /\ ~img.outside
    BY <2>1, <2>2, EmptyImage
  <2>6. TypeOK
    BY <1>1, <1>4, <2>3, <2>4, <2>5 DEF TypeOK
  <2>7. ReaderInv
    BY <1>1, <1>2, <1>4, <2>5 DEF ReaderInv
  <2>8. WriterInv
    BY <1>4, <2>4 DEF WriterInv, Dumped
  <2> QED
    BY <2>6, <2>7, <2>8 DEF HexInv
<1> QED
  BY <1>3, <1>4 DEF Init

\* Every line that is emitted is one.
LEMMA EmittedLines ==
    /\ EOF \in Lines
    /\ EOF.type = "eof"
    /\ \A u \in 0..NoUpper : /\ Record("linear", 0, <<>>, u) \in Lines
                             /\ Record("linear", 0, <<>>, u).type = "linear"
                             /\ Record("linear", 0, <<>>, u).val = u
    /\ \A a \in 0..(Segment - 1), d \in Seq(Nat) :
           /\ Record("data", a, d, 0) \in Lines
           /\ Record("data", a, d, 0).type = "data"
           /\ Record("data", a, d, 0).addr = a
           /\ Record("data", a, d, 0).data = d
<1>1. 0 \in 0..(Segment - 1) /\ <<>> \in Seq(Nat) /\ NoUpper \in Nat
  BY SpaceIs
<1> QED
  BY <1>1 DEF EOF, Record, Lines, Types

\* The step of the writer when there is something left to write.
LEMMA WriterGoesOn ==
    ASSUME NEW x \in WriterType, x.off < Len(x.bytes),
           x.start + Len(x.bytes) <= NoUpper * Segment
    PROVE  /\ Advanced(x) \in WriterType
           /\ Advanced(x).start = x.start /\ Advanced(x).bytes = x.bytes
           /\ Advanced(x).off <= Len(x.bytes)
           /\ NeedsUpper(x) => /\ Advanced(x).off = x.off
                               /\ Advanced(x).cur_upper = Upper(x)
           /\ ~NeedsUpper(x) => /\ Advanced(x).off = x.off + Chunk(x)
                                /\ Advanced(x).cur_upper = x.cur_upper
<1>1. /\ x.start \in Nat /\ x.bytes \in Seq(Nat) /\ x.off \in Nat /\ x.bpl \in 1..MaxCount
      /\ x.cur_upper \in 0..NoUpper /\ Len(x.bytes) \in Nat
  BY DEF WriterType
<1>2. /\ Upper(x) \in 0..NoUpper /\ Chunk(x) \in Nat /\ x.off + Chunk(x) <= Len(x.bytes)
  BY <1>1, WriterAt, IntelHexAssumption
<1>3. CASE NeedsUpper(x)
  <2>1. Advanced(x) = [x EXCEPT !.cur_upper = Upper(x)]
    BY <1>3 DEF Advanced
  <2>2. \A u \in 0..NoUpper :
            /\ [x EXCEPT !.cur_upper = u] \in WriterType
            /\ [x EXCEPT !.cur_upper = u].cur_upper = u
            /\ [x EXCEPT !.cur_upper = u].start = x.start
            /\ [x EXCEPT !.cur_upper = u].bytes = x.bytes
            /\ [x EXCEPT !.cur_upper = u].off = x.off
    BY DEF WriterType
  <2>3. /\ Advanced(x) \in WriterType /\ Advanced(x).cur_upper = Upper(x)
        /\ Advanced(x).start = x.start /\ Advanced(x).bytes = x.bytes
        /\ Advanced(x).off = x.off
    BY <1>2, <2>1, <2>2
  <2>4. x.off <= Len(x.bytes)
    BY <1>1
  <2> QED
    BY <1>3, <2>3, <2>4
<1>4. CASE ~NeedsUpper(x)
  <2>1. Advanced(x) = [x EXCEPT !.off = x.off + Chunk(x)]
    BY <1>4 DEF Advanced
  <2>2. x.off + Chunk(x) \in Nat
    BY <1>1, <1>2
  <2> QED
    BY <1>1, <1>2, <1>4, <2>1, <2>2 DEF WriterType
<1> QED
  BY <1>3, <1>4

\* The sink that fails: the lines stay as they are, and the dump is no good.
LEMMA SinkFails ==
    ASSUME HexInv, phase = "dumping", file' = file, phase' = "dumped", result' = "ErrParam",
           w' = IF AllOut(w) THEN w ELSE Advanced(w), UNCHANGED <<next, img>>
    PROVE  HexInv'
<1>1. w' \in WriterType /\ w'.start = w.start /\ w'.bytes = w.bytes
  <2>1. w \in WriterType /\ w.start + Len(w.bytes) <= NoUpper * Segment
    BY DEF HexInv, TypeOK, WriterInv, Dumped
  <2>2. w.off \in Nat /\ Len(w.bytes) \in Nat
    BY <2>1 DEF WriterType
  <2>3. CASE AllOut(w)
    BY <2>1, <2>3
  <2>4. CASE ~AllOut(w)
    <3>1. w.off < Len(w.bytes)
      BY <2>2, <2>4 DEF AllOut
    <3> QED
      BY <2>1, <2>4, <3>1, WriterGoesOn
  <2> QED
    BY <2>3, <2>4
<1>2. TypeOK'
  BY <1>1 DEF HexInv, TypeOK
<1>3. Dumped' /\ Dumped
  BY <1>1 DEF Dumped, HexInv, WriterInv
<1>4. WriterInv'
  <2>1. file' # <<>> => file'[Len(file')].type # "eof"
    <3>1. file \in Seq(Lines) /\ \A i \in DOMAIN file : file[i].type # "eof"
      BY DEF HexInv, TypeOK, WriterInv
    <3>2. file # <<>> => Len(file) \in DOMAIN file
      BY <3>1
    <3> QED
      BY <3>1, <3>2
  <2>2. OfDump(file', w'.start, w'.bytes)
    BY <1>1, <1>3 DEF HexInv, WriterInv
  <2>3. next' = 1
    BY DEF HexInv, WriterInv
  <2> QED
    BY <1>3, <2>1, <2>2, <2>3 DEF WriterInv
<1>5. ReaderInv'
  BY DEF ReaderInv, ReadOk
<1> QED
  BY <1>2, <1>4, <1>5 DEF HexInv

\* The end record is written when all bytes are.
LEMMA EndWritten ==
    ASSUME HexInv, phase = "dumping", AllOut(w), file' = Append(file, EOF), w' = w,
           phase' = "dumped", result' = "Ok", UNCHANGED <<next, img>>
    PROVE  HexInv'
<1> DEFINE r == EOF
           g == Append(file, r)
<1>1. /\ w \in WriterType /\ w.off \in Nat /\ w.off <= Len(w.bytes) /\ Len(w.bytes) \in Nat
      /\ w.start \in Nat
      /\ file \in Seq(Lines) /\ Dumped /\ OfDump(file, w.start, w.bytes)
      /\ Complete(file, w.start, w.off) /\ next = 1
      /\ \A i \in DOMAIN file : IsBase(file[i]) => file[i].val <= NoUpper
  BY DEF HexInv, TypeOK, WriterInv, WriterType
<1>2. w.off = Len(w.bytes)
  BY <1>1 DEF AllOut
<1>3. r \in Lines /\ r.type = "eof" /\ ~IsBase(r)
  BY EmittedLines DEF IsBase
<1>4. /\ g \in Seq(Lines) /\ Len(g) = Len(file) + 1
      /\ DOMAIN g = 1..(Len(file) + 1) /\ DOMAIN file = 1..Len(file)
      /\ g[Len(file) + 1] = r /\ \A i \in 1..Len(file) : g[i] = file[i]
      /\ g # <<>> /\ Len(file) \in Nat
  BY <1>1, <1>3, OneLineMore
<1>5. file' = g
  OBVIOUS
<1> HIDE DEF g
<1>6. TypeOK'
  <2>1. \A i \in DOMAIN g : i \in DOMAIN file \/ i = Len(file) + 1
    BY <1>4
  <2>2. \A i \in DOMAIN g : IsBase(g[i]) => g[i].val <= NoUpper
    BY <1>1, <1>3, <1>4, <2>1
  <2> QED
    BY <1>1, <1>4, <1>5, <2>2 DEF HexInv, TypeOK
<1>7. OfDump(g, w.start, w.bytes)
  <2>1. DumpLine(g, Len(file) + 1, w.start, w.bytes)
    BY <1>3, <1>4 DEF DumpLine
  <2> QED
    BY <1>1, <1>3, <2>1, OfDumpMore DEF g
<1>8. Complete(g, w.start, Len(w.bytes))
  <2>1. Complete(g, w.start, w.off + 0)
    BY <1>1, <1>3, CompleteMore, w.off..(w.off + 0 - 1) = {} DEF g
  <2> QED
    BY <1>2, <2>1, <1>1
<1>9. WriterInv'
  BY <1>1, <1>4, <1>5, <1>7, <1>8 DEF WriterInv, Dumped
<1>10. ReaderInv'
  BY DEF ReaderInv, ReadOk
<1> QED
  BY <1>6, <1>9, <1>10 DEF HexInv

\* An address record, or a record of bytes.
LEMMA LineWritten ==
    ASSUME HexInv, phase = "dumping", ~AllOut(w), file' = Append(file, Emitted(w)),
           w' = Advanced(w), UNCHANGED <<phase, result, next, img>>
    PROVE  HexInv'
<1> DEFINE r == Emitted(w)
           g == Append(file, r)
           n == Len(file) + 1
<1>1. /\ w \in WriterType /\ w.off \in Nat /\ Len(w.bytes) \in Nat
      /\ w.start \in Nat /\ w.bytes \in Seq(Nat) /\ w.bpl \in 1..MaxCount
      /\ w.cur_upper \in 0..NoUpper
      /\ file \in Seq(Lines) /\ Dumped /\ OfDump(file, w.start, w.bytes)
      /\ Complete(file, w.start, w.off) /\ next = 1
      /\ \A i \in DOMAIN file : IsBase(file[i]) => file[i].val <= NoUpper
      /\ \A i \in DOMAIN file : file[i].type # "eof"
      /\ BaseIn(file, n) = IF w.cur_upper = NoUpper THEN 0 ELSE w.cur_upper * Segment
      /\ w.start + Len(w.bytes) <= NoUpper * Segment
  BY DEF HexInv, TypeOK, WriterInv, WriterType, Dumped
<1>2. w.off < Len(w.bytes)
  BY <1>1 DEF AllOut
<1>3. /\ Upper(w) \in 0..NoUpper /\ Upper(w) # NoUpper
      /\ Low(w) \in 0..(Segment - 1)
      /\ Upper(w) * Segment \in Nat
      /\ w.start + w.off = Upper(w) * Segment + Low(w)
      /\ Chunk(w) \in 1..MaxCount
      /\ w.off + Chunk(w) <= Len(w.bytes) /\ Low(w) + Chunk(w) <= Segment
  BY <1>1, <1>2, WriterAt
<1>4. /\ w' \in WriterType
      /\ w'.start = w.start /\ w'.bytes = w.bytes /\ w'.off <= Len(w.bytes)
      /\ NeedsUpper(w) => w'.off = w.off /\ w'.cur_upper = Upper(w)
      /\ ~NeedsUpper(w) => w'.off = w.off + Chunk(w) /\ w'.cur_upper = w.cur_upper
  BY <1>1, <1>2, WriterGoesOn
<1> DEFINE bytes == SubSeq(w.bytes, w.off + 1, w.off + Chunk(w))
<1>5. /\ bytes \in Seq(Nat) /\ Len(bytes) = Chunk(w)
      /\ \A i \in 1..Chunk(w) : bytes[i] = w.bytes[w.off + i]
  <2>1. Chunk(w) \in Nat \ {0}
    BY <1>3, IntelHexAssumption
  <2>2. \A s \in Seq(Nat), o \in Nat, c \in Nat \ {0} : o + c <= Len(s) =>
            /\ SubSeq(s, o + 1, o + c) \in Seq(Nat)
            /\ Len(SubSeq(s, o + 1, o + c)) = c
            /\ \A i \in 1..c : SubSeq(s, o + 1, o + c)[i] = s[o + i]
    OBVIOUS
  <2>3. w.bytes \in Seq(Nat) /\ w.off \in Nat /\ w.off + Chunk(w) <= Len(w.bytes)
    BY <1>1, <1>3
  <2> QED
    BY <2>1, <2>2, <2>3
<1>6. \/ NeedsUpper(w) /\ r = Record("linear", 0, <<>>, Upper(w))
      \/ ~NeedsUpper(w) /\ r = Record("data", Low(w), bytes, 0)
  BY DEF Emitted
<1> HIDE DEF r, bytes
<1>7. /\ r \in Lines
      /\ NeedsUpper(w) => r.type = "linear" /\ r.val = Upper(w)
      /\ ~NeedsUpper(w) => r.type = "data" /\ r.addr = Low(w) /\ r.data = bytes
  BY <1>3, <1>5, <1>6, EmittedLines
<1>8. /\ g \in Seq(Lines) /\ Len(g) = n
      /\ DOMAIN g = 1..n /\ DOMAIN file = 1..Len(file)
      /\ g[n] = r /\ \A i \in 1..Len(file) : g[i] = file[i]
      /\ Len(file) \in Nat
      /\ \A i \in DOMAIN g : i \in DOMAIN file \/ i = n
  BY <1>1, <1>7, OneLineMore
<1>9. /\ First(g, n) = BaseIn(file, n) + r.addr
      /\ After(g, n) = BaseIn(file, n) + r.addr + Len(r.data)
      /\ BaseIn(g, n + 1) = IF IsBase(r) THEN Scaled(r) ELSE BaseIn(file, n)
  <2>1. n + 1 = Len(file) + 2
    BY <1>8
  <2> QED
    BY <1>1, <1>7, <2>1, FirstOfNew
<1>10. file' = g
  BY DEF r
<1> HIDE DEF g
<1>11. TypeOK'
  <2>1. IsBase(r) => r.val <= NoUpper
    BY <1>3, <1>7, SpaceIs DEF IsBase
  <2>2. \A i \in DOMAIN g : IsBase(g[i]) => g[i].val <= NoUpper
    BY <1>1, <1>8, <2>1
  <2> QED
    BY <1>1, <1>4, <1>8, <1>10, <2>2 DEF HexInv, TypeOK
<1>12. ReaderInv'
  BY DEF HexInv, WriterInv, ReaderInv, ReadOk
<1>13. \A i \in DOMAIN g : g[i].type # "eof"
  BY <1>1, <1>7, <1>8
<1>14. SUFFICES /\ OfDump(g, w.start, w.bytes) /\ Complete(g, w.start, w'.off)
                /\ BaseIn(g, n + 1) = IF w'.cur_upper = NoUpper THEN 0 ELSE w'.cur_upper * Segment
  <2> HIDE DEF n
  <2>1. Len(g) \in DOMAIN g
    BY <1>8 DEF n
  <2> QED
    BY <1>1, <1>4, <1>8, <1>10, <1>11, <1>12, <1>13, <2>1 DEF HexInv, WriterInv, Dumped
<1>15. CASE NeedsUpper(w)
  <2>1. IsBase(r) /\ Scaled(r) = Upper(w) * Segment
    BY <1>7, <1>15 DEF IsBase, Scaled
  <2>2. DumpLine(g, n, w.start, w.bytes)
    BY <1>3, <1>7, <1>8, <1>15 DEF DumpLine
  <2>3. Complete(g, w.start, w.off + 0)
    BY <1>1, <1>7, CompleteMore, w.off..(w.off + 0 - 1) = {} DEF g
  <2>4. OfDump(g, w.start, w.bytes)
    BY <1>1, <1>7, <2>2, OfDumpMore DEF g
  <2>5. w.off + 0 = w.off
    BY <1>1
  <2>6. w'.off = w.off /\ w'.cur_upper = Upper(w) /\ Upper(w) # NoUpper
    BY <1>3, <1>4, <1>15
  <2>7. BaseIn(g, n + 1) = Upper(w) * Segment
    BY <1>9, <2>1
  <2> HIDE DEF n
  <2> QED
    BY <2>3, <2>4, <2>5, <2>6, <2>7
<1>16. CASE ~NeedsUpper(w)
  <2>1. w.cur_upper = Upper(w) /\ ~IsBase(r)
    BY <1>7, <1>16 DEF NeedsUpper, IsBase
  <2>2. BaseIn(file, n) = Upper(w) * Segment
    BY <1>1, <1>3, <2>1
  <2>3. First(g, n) = w.start + w.off /\ After(g, n) = w.start + w.off + Chunk(w)
    BY <1>3, <1>5, <1>7, <1>9, <1>16, <2>2
  <2>4. Chunk(w) \in Nat \ {0} /\ Chunk(w) <= MaxCount
    BY <1>3, IntelHexAssumption
  <2>5. ASSUME NEW a \in First(g, n)..(After(g, n) - 1)
        PROVE  Byte(g, n, a) = w.bytes[a - w.start + 1]
    <3>1. a - (w.start + w.off) + 1 \in 1..Chunk(w)
          /\ w.off + (a - (w.start + w.off) + 1) = a - w.start + 1
      <4>1. \A s, o, c \in Nat : \A z \in (s + o)..(s + o + c - 1) :
                /\ z - (s + o) + 1 \in 1..c
                /\ o + (z - (s + o) + 1) = z - s + 1
        OBVIOUS
      <4>2. w.start \in Nat /\ w.off \in Nat /\ Chunk(w) \in Nat
        BY <1>1, <2>4
      <4> QED
        BY <2>3, <4>1, <4>2
    <3>2. Byte(g, n, a) = bytes[a - (w.start + w.off) + 1]
      BY <1>7, <1>8, <1>16, <2>3 DEF Byte
    <3> QED
      BY <1>5, <3>1, <3>2
  <2>6. DumpLine(g, n, w.start, w.bytes)
    <3>1. g[n].addr + Len(g[n].data) <= Segment /\ Len(g[n].data) <= MaxCount
      <4>1. g[n].addr = Low(w) /\ Len(g[n].data) = Chunk(w)
        BY <1>5, <1>7, <1>8, <1>16
      <4>2. Low(w) + Chunk(w) <= Segment
        BY <1>3
      <4> QED
        BY <2>4, <4>1, <4>2
    <3>2. w.start <= First(g, n) /\ After(g, n) <= w.start + Len(w.bytes)
      <4>1. \A s, o, c, l \in Nat : o + c <= l => s <= s + o /\ s + o + c <= s + l
        OBVIOUS
      <4>2. /\ w.start \in Nat /\ w.off \in Nat /\ Len(w.bytes) \in Nat
            /\ w.off + Chunk(w) <= Len(w.bytes)
        BY <1>1, <1>3
      <4> QED
        BY <2>3, <2>4, <4>1, <4>2
    <3> QED
      BY <1>7, <1>8, <1>16, <2>5, <3>1, <3>2 DEF DumpLine
  <2>7. \A o \in w.off..(w.off + Chunk(w) - 1) : Covers(g, n, w.start + o)
    <3>1. \A o \in w.off..(w.off + Chunk(w) - 1) :
              w.start + o \in First(g, n)..(After(g, n) - 1)
      <4>1. \A s, o, c \in Nat : \A z \in o..(o + c - 1) :
                s + z \in (s + o)..(s + o + c - 1)
        OBVIOUS
      <4>2. w.start \in Nat /\ w.off \in Nat /\ Chunk(w) \in Nat
        BY <1>1, <2>4
      <4> QED
        BY <2>3, <4>1, <4>2
    <3> QED
      BY <1>7, <1>8, <1>16, <3>1 DEF Covers
  <2>8. Complete(g, w.start, w.off + Chunk(w))
    BY <1>1, <1>7, <2>4, <2>7, CompleteMore DEF g
  <2>9. OfDump(g, w.start, w.bytes)
    BY <1>1, <1>7, <2>6, OfDumpMore DEF g
  <2>10. BaseIn(g, n + 1) = BaseIn(file, n)
    BY <1>9, <2>1
  <2> QED
    BY <1>1, <1>4, <1>16, <2>8, <2>9, <2>10
<1> QED
  BY <1>15, <1>16

LEMMA EmitKeeps ==
    ASSUME HexInv, Emit
    PROVE  HexInv'
<1>1. PICK ok \in BOOLEAN :
        /\ file' = IF ok THEN Append(file, Emitted(w)) ELSE file
        /\ w' = IF AllOut(w) THEN w ELSE Advanced(w)
        /\ \/ /\ ~SinkOk(ok)
              /\ phase' = "dumped" /\ result' = "ErrParam"
           \/ /\ SinkOk(ok) /\ AllOut(w)
              /\ phase' = "dumped" /\ result' = "Ok"
           \/ /\ SinkOk(ok) /\ ~AllOut(w)
              /\ UNCHANGED <<phase, result>>
  BY DEF Emit
<1>2. phase = "dumping" /\ UNCHANGED <<next, img>>
  BY DEF Emit
<1>3. CASE ~ok
  BY <1>1, <1>2, <1>3, SinkFails DEF SinkOk
<1>4. CASE ok /\ AllOut(w)
  <2>1. Emitted(w) = EOF
    BY <1>4 DEF Emitted
  <2> QED
    BY <1>1, <1>2, <1>4, <2>1, EndWritten DEF SinkOk
<1>5. CASE ok /\ ~AllOut(w)
  <2>1. UNCHANGED <<phase, result>> /\ file' = Append(file, Emitted(w)) /\ w' = Advanced(w)
    BY <1>1, <1>5 DEF SinkOk
  <2> QED
    BY <1>2, <1>5, <2>1, LineWritten
<1> QED
  BY <1>3, <1>4, <1>5

LEMMA OpenKeeps ==
    ASSUME HexInv, Open
    PROVE  HexInv'
<1>1. /\ phase = "dumped" /\ phase' = "reading" /\ result' = "running"
      /\ w' = w /\ file' = file /\ next' = next
  BY DEF Open
<1>2. PICK i \in Images : img' = intel_hex_image_init(i.capacity, i.base)
  BY DEF Open
<1>3. i.capacity \in 0..(Space - 1) /\ i.base \in 0..(Space - 1)
  BY HexFileAssumption
<1>4. /\ img' \in ImageType /\ DOMAIN img'.data = 0..(img'.capacity - 1)
      /\ ReadSoFar(file, 0, img') /\ ~img'.outside
  BY <1>2, <1>3, EmptyImage
<1>5. Dumped /\ Dumped' /\ next = 1 /\ file \in Seq(Lines)
  BY <1>1 DEF HexInv, WriterInv, TypeOK, Dumped
<1>6. TypeOK'
  BY <1>1, <1>4 DEF HexInv, TypeOK
<1>7. WriterInv'
  BY <1>1, <1>5 DEF HexInv, WriterInv
<1>8. next' - 1 = 0 /\ 0 \in 0..Len(file')
  BY <1>1, <1>5
<1>9. ReaderInv'
  BY <1>1, <1>4, <1>5, <1>8 DEF ReaderInv, ReadOk
<1> QED
  BY <1>6, <1>7, <1>9 DEF HexInv

\* The line rec is read: it is the line next of the file f, which is the file
\* when the step is over.
LEMMA LineRead ==
    ASSUME HexInv, phase = "reading", NEW f \in Seq(Lines), file' = f,
           \A i \in DOMAIN f : IsBase(f[i]) => f[i].val <= NoUpper,
           next <= Len(f), ReadSoFar(f, next - 1, img),
           Dumped => f = file, ~Dumped => next = Len(f),
           NEW out, out = intel_hex_parse_line(img, f[next]),
           img' = out.img, next' = next + 1, w' = w,
           IF out.status = "Ok" THEN UNCHANGED <<phase, result>>
           ELSE phase' = "done" /\ result' = "ErrParam"
    PROVE  HexInv'
<1> DEFINE k == next - 1
<1>1. /\ next \in Nat \ {0} /\ k \in Nat /\ k + 1 = next /\ k < Len(f) /\ next \in 1..Len(f)
      /\ next' - 1 = k + 1 /\ next' - 1 \in 0..Len(f) /\ next' \in Nat \ {0} /\ Len(f) \in Nat
      /\ DOMAIN f = 1..Len(f)
  BY DEF HexInv, TypeOK
<1>2. /\ img \in ImageType /\ DOMAIN img.data = 0..(img.capacity - 1)
      /\ Dumped => ~img.outside
      /\ Dumped' = Dumped
      /\ Dumped => OfDump(f, w.start, w.bytes)
      /\ Dumped => w.start + Len(w.bytes) <= NoUpper * Segment
      /\ w \in WriterType
  BY DEF HexInv, TypeOK, ReaderInv, WriterInv, Dumped
<1> HIDE DEF k
<1>3. WriterInv'
  <2>1. phase' \in {"reading", "done"}
    OBVIOUS
  <2> QED
    BY <1>2, <2>1 DEF HexInv, WriterInv
<1>4. ~Dumped' => next' = Len(file') + 1
  BY <1>2
<1>5. CASE out.status = "Ok"
  <2>1. Dumped /\ f[k + 1].type = "data" => After(f, k + 1) < Space
    <3>1. SUFFICES ASSUME Dumped, f[k + 1].type = "data"
                   PROVE  After(f, k + 1) < Space
      OBVIOUS
    <3>2. After(f, k + 1) <= w.start + Len(w.bytes)
      BY <1>1, <1>2, <3>1 DEF OfDump
    <3>3. After(f, k + 1) \in Int
      BY <1>1, LineType
    <3>4. w.start + Len(w.bytes) \in Nat
      BY <1>2 DEF WriterType
    <3> DEFINE x == w.start + Len(w.bytes)
               y == NoUpper * Segment
    <3>5. x \in Nat /\ x <= y /\ y \in Nat /\ y < Space /\ Space \in Nat
      BY <1>2, <3>1, <3>4, SpaceIs
    <3> HIDE DEF x, y
    <3>6. After(f, k + 1) <= x
      BY <3>2 DEF x
    <3> QED
      BY <3>3, <3>5, <3>6
  <2>2. /\ ReadSoFar(f, k + 1, out.img) /\ out.img \in ImageType
        /\ DOMAIN out.img.data = 0..(out.img.capacity - 1)
        /\ (f[k + 1].type = "data" => After(f, k + 1) < Space) /\ ~img.outside =>
               ~out.img.outside
    <3>1. /\ ReadSoFar(f, k, img) /\ out = intel_hex_parse_line(img, f[k + 1])
          /\ IsBase(f[k + 1]) => f[k + 1].val <= NoUpper
      BY <1>1 DEF k
    <3> QED
      BY <1>1, <1>2, <1>5, <3>1, ParsedLine
  <2>3. phase' = "reading" /\ result' = result
    BY <1>5
  <2>4. TypeOK'
    BY <1>1, <2>2, <2>3 DEF HexInv, TypeOK
  <2>5. ReaderInv'
    BY <1>1, <1>2, <1>4, <2>1, <2>2, <2>3 DEF ReaderInv, ReadOk
  <2> QED
    BY <1>3, <2>4, <2>5 DEF HexInv
<1>6. CASE out.status # "Ok"
  <2>1. phase' = "done" /\ result' = "ErrParam"
    BY <1>6
  <2>2. img' = img
    BY <1>6, RefusedLine
  <2>3. TypeOK'
    BY <1>1, <2>1, <2>2 DEF HexInv, TypeOK
  <2>4. ReaderInv'
    BY <1>4, <2>1 DEF ReaderInv, ReadOk
  <2> QED
    BY <1>3, <2>3, <2>4 DEF HexInv
<1> QED
  BY <1>5, <1>6

LEMMA ReadLineKeeps ==
    ASSUME HexInv, ReadLine
    PROVE  HexInv'
<1>1. phase = "reading" /\ next' = next + 1 /\ w' = w
  BY DEF ReadLine
<1>2. PICK rec \in (IF Dumped THEN {file[i] : i \in DOMAIN file} ELSE Foreign) :
        /\ Line(rec)
        /\ file' = IF Dumped THEN file ELSE Append(file, rec)
        /\ LET out == intel_hex_parse_line(img, rec)
           IN  /\ img' = out.img
               /\ IF out.status = "Ok" THEN UNCHANGED <<phase, result>>
                  ELSE phase' = "done" /\ result' = "ErrParam"
  BY DEF ReadLine
<1>3. /\ file \in Seq(Lines) /\ next \in Nat \ {0} /\ next - 1 \in 0..Len(file)
      /\ \A i \in DOMAIN file : IsBase(file[i]) => file[i].val <= NoUpper
      /\ ReadSoFar(file, next - 1, img)
      /\ ~Dumped => next = Len(file) + 1
  BY <1>1 DEF HexInv, TypeOK, ReaderInv
<1> DEFINE out == intel_hex_parse_line(img, rec)
<1>4. /\ img' = out.img
      /\ IF out.status = "Ok" THEN UNCHANGED <<phase, result>>
         ELSE phase' = "done" /\ result' = "ErrParam"
  BY <1>2
<1> HIDE DEF out
<1>5. CASE Dumped
  <2>1. next <= Len(file) /\ rec = file[next] /\ file' = file
    BY <1>2, <1>5 DEF Line
  <2>2. out = intel_hex_parse_line(img, file[next])
    BY <2>1 DEF out
  <2> QED
    BY <1>1, <1>3, <1>4, <1>5, <2>1, <2>2, LineRead
<1>6. CASE ~Dumped
  <2> DEFINE g == Append(file, rec)
  <2>1. rec \in Lines /\ (IsBase(rec) => rec.val <= NoUpper) /\ file' = g
    BY <1>2, <1>6, HexFileAssumption DEF IsBase
  <2>2. next = Len(file) + 1 /\ next - 1 = Len(file) /\ Len(file) \in Nat
    BY <1>3, <1>6
  <2>3. /\ g \in Seq(Lines) /\ Len(g) = next /\ g[next] = rec
        /\ \A i \in 1..Len(file) : file[i] = g[i]
        /\ DOMAIN g = 1..next /\ DOMAIN file = 1..Len(file)
    BY <1>3, <2>1, <2>2, OneLineMore
  <2> HIDE DEF g
  <2>4. ReadSoFar(g, next - 1, img)
    BY <1>3, <2>2, <2>3, ReadSame
  <2>5. \A i \in DOMAIN g : IsBase(g[i]) => g[i].val <= NoUpper
    <3>1. \A i \in DOMAIN g : i \in DOMAIN file \/ i = next
      BY <2>2, <2>3
    <3> QED
      BY <1>3, <2>1, <2>3, <3>1
  <2>6. out = intel_hex_parse_line(img, g[next])
    BY <2>3 DEF out
  <2>7. next <= Len(g)
    BY <1>3, <2>3
  <2> QED
    BY <1>1, <1>4, <1>6, <2>1, <2>3, <2>4, <2>5, <2>6, <2>7, LineRead
<1> QED
  BY <1>5, <1>6

LEMMA EndKeeps ==
    ASSUME HexInv, EndOfFile
    PROVE  HexInv'
<1>1. /\ phase = "reading" /\ phase' = "done" /\ result' = IF img.any THEN "Ok" ELSE "ErrParam"
      /\ w' = w /\ file' = file /\ next' = next /\ img' = img
      /\ Dumped => next > Len(file)
  BY DEF EndOfFile
<1>2. next - 1 = Len(file) /\ ReadSoFar(file, Len(file), img)
  <2>1. /\ file \in Seq(Lines) /\ next \in Nat \ {0} /\ next - 1 \in 0..Len(file)
        /\ ReadSoFar(file, next - 1, img)
        /\ ~Dumped => next = Len(file) + 1
    BY <1>1 DEF HexInv, TypeOK, ReaderInv
  <2>2. next - 1 = Len(file)
    BY <1>1, <2>1
  <2> QED
    BY <2>1, <2>2
<1>3. TypeOK'
  BY <1>1 DEF HexInv, TypeOK
<1>4. WriterInv'
  BY <1>1 DEF HexInv, WriterInv, Dumped
<1>5. img.any \in BOOLEAN
  BY DEF HexInv, TypeOK, ImageType
<1>6. ReadOk' => img.any
  BY <1>1, <1>5 DEF ReadOk
<1>7. ReaderInv'
  BY <1>1, <1>2, <1>6 DEF HexInv, ReaderInv, Dumped, ReadOk
<1> QED
  BY <1>3, <1>4, <1>7 DEF HexInv

\* What is read and written so far, in every state.
THEOREM HexInvariance == Spec => []HexInv
<1>1. HexInv /\ [Next]_vars => HexInv'
  <2> SUFFICES ASSUME HexInv, [Next]_vars
               PROVE  HexInv'
    OBVIOUS
  <2>1. CASE Emit
    BY <2>1, EmitKeeps
  <2>2. CASE Open
    BY <2>2, OpenKeeps
  <2>3. CASE ReadLine
    BY <2>3, ReadLineKeeps
  <2>4. CASE EndOfFile
    BY <2>4, EndKeeps
  <2>5. CASE UNCHANGED vars
    BY <2>5 DEF vars, HexInv, TypeOK, WriterInv, ReaderInv, ReadOk, Dumped
  <2> QED
    BY <2>1, <2>2, <2>3, <2>4, <2>5 DEF Next
<1> QED
  BY <1>1, HexInit, PTL DEF Spec

-----------------------------------------------------------------------------
(* The properties.                                                         *)

LEMMA Bases == \A i : BaseAt(i) = BaseIn(file, i)
BY DEF BaseAt, BaseIn, IsBase, Scaled

\* The bytes that are written to an address are those of the lines that cover it.
LEMMA WritesAre ==
    ASSUME file \in Seq(Lines), \A i \in DataLines : Len(file[i].data) <= MaxCount,
           NEW a \in Int
    PROVE  /\ \A c \in Writes(a) : /\ c[1] \in 1..Len(file) /\ Covers(file, c[1], a)
                                   /\ c = <<c[1], a - First(file, c[1]) + 1>>
           /\ \A i \in 1..Len(file) :
                  Covers(file, i, a) => <<i, a - First(file, i) + 1>> \in Writes(a)
<1>1. DataLines = {i \in 1..Len(file) : file[i].type = "data"} /\ MaxCount \in Nat
  BY IntelHexAssumption DEF DataLines
<1>2. \A i \in 1..Len(file) : /\ First(file, i) \in Int /\ Len(file[i].data) \in Nat
                              /\ After(file, i) = First(file, i) + Len(file[i].data)
                              /\ \A j \in Int : AddressOf(i, j) = First(file, i) + j - 1
  <2>1. SUFFICES ASSUME NEW i \in 1..Len(file)
                 PROVE  /\ First(file, i) \in Int /\ Len(file[i].data) \in Nat
                        /\ After(file, i) = First(file, i) + Len(file[i].data)
                        /\ \A j \in Int : AddressOf(i, j) = First(file, i) + j - 1
    OBVIOUS
  <2>2. First(file, i) \in Int /\ Len(file[i].data) \in Nat
    BY LineType
  <2>3. \A j \in Int : AddressOf(i, j) = First(file, i) + j - 1
    BY Bases DEF AddressOf, First
  <2> QED
    BY <2>2, <2>3 DEF After
<1>3. ASSUME NEW c \in Writes(a)
      PROVE  /\ c[1] \in 1..Len(file) /\ Covers(file, c[1], a)
             /\ c = <<c[1], a - First(file, c[1]) + 1>>
  <2>1. /\ c \in DataLines \X (1..MaxCount) /\ c[2] <= Len(file[c[1]].data)
        /\ AddressOf(c[1], c[2]) = a
    BY DEF Writes
  <2>2. c = <<c[1], c[2]>> /\ c[1] \in DataLines /\ c[2] \in 1..MaxCount
    BY <2>1
  <2>3. c[1] \in 1..Len(file) /\ file[c[1]].type = "data" /\ c[2] \in Nat \ {0}
    BY <1>1, <2>2
  <2>4. First(file, c[1]) + c[2] - 1 = a
    BY <1>2, <2>1, <2>3
  <2> DEFINE f == First(file, c[1])
             l == Len(file[c[1]].data)
             j == c[2]
  <2>5. f \in Int /\ l \in Nat /\ j \in Nat \ {0} /\ j <= l /\ f + j - 1 = a
        /\ After(file, c[1]) = f + l
    BY <1>2, <2>1, <2>3, <2>4
  <2> HIDE DEF f, l, j
  <2>6. j = a - f + 1 /\ a \in f..((f + l) - 1)
    BY <2>5
  <2>7. Covers(file, c[1], a)
    BY <2>3, <2>5, <2>6 DEF Covers, f
  <2>8. c = <<c[1], a - First(file, c[1]) + 1>>
    BY <2>2, <2>6, Zenon DEF f, j
  <2> QED
    BY <2>3, <2>7, <2>8
<1>4. ASSUME NEW i \in 1..Len(file), Covers(file, i, a)
      PROVE  <<i, a - First(file, i) + 1>> \in Writes(a)
  <2> DEFINE f == First(file, i)
             l == Len(file[i].data)
             j == a - f + 1
  <2>1. file[i].type = "data" /\ a \in f..(After(file, i) - 1)
    BY <1>4 DEF Covers
  <2>2. i \in DataLines /\ l <= MaxCount
    BY <1>1, <2>1
  <2>3. f \in Int /\ l \in Nat /\ After(file, i) = f + l
        /\ \A x \in Int : AddressOf(i, x) = f + x - 1
    BY <1>2
  <2> HIDE DEF f, l
  <2>4. j \in 1..MaxCount /\ j <= l /\ f + j - 1 = a /\ j \in Int
    BY <1>1, <2>1, <2>2, <2>3
  <2> HIDE DEF j
  <2>5. AddressOf(i, j) = a
    BY <2>3, <2>4
  <2>6. <<i, j>> \in DataLines \X (1..MaxCount) /\ <<i, j>>[1] = i /\ <<i, j>>[2] = j
    BY <2>2, <2>4
  <2> HIDE DEF f
  <2>7. <<i, j>> \in Writes(a)
    BY <2>4, <2>5, <2>6 DEF Writes, l
  <2> QED
    BY <2>7 DEF j, f
<1> QED
  BY <1>3, <1>4

\* What the lines hold is what Meant says of them.
LEMMA MeantIs ==
    ASSUME file \in Seq(Lines), \A i \in DataLines : Len(file[i].data) <= MaxCount,
           NEW a \in Int, NEW v, Holds(file, Len(file), a, v)
    PROVE  Meant(a) = v
<1> DEFINE W == Writes(a)
           at(i) == <<i, a - First(file, i) + 1>>
<1>1. /\ \A c \in W : c[1] \in 1..Len(file) /\ Covers(file, c[1], a) /\ c = at(c[1])
      /\ \A i \in 1..Len(file) : Covers(file, i, a) => at(i) \in W
  BY WritesAre
<1>2. Meant(a) = IF W = {} THEN Fill
                 ELSE LET c == CHOOSE c \in W : \A d \in W : d[1] < c[1] \/ d = c
                      IN  file[c[1]].data[c[2]]
  BY DEF Meant
<1> HIDE DEF W
<1>3. CASE v = Fill /\ \A i \in 1..Len(file) : ~Covers(file, i, a)
  <2>1. W = {}
    BY <1>1, <1>3
  <2> QED
    BY <1>2, <1>3, <2>1
<1>4. CASE \E i \in 1..Len(file) : /\ Covers(file, i, a) /\ v = Byte(file, i, a)
                                   /\ \A l \in (i + 1)..Len(file) : ~Covers(file, l, a)
  <2>1. PICK i \in 1..Len(file) : /\ Covers(file, i, a) /\ v = Byte(file, i, a)
                                  /\ \A l \in (i + 1)..Len(file) : ~Covers(file, l, a)
    BY <1>4
  <2>2. at(i) \in W /\ at(i)[1] = i /\ at(i)[2] = a - First(file, i) + 1
    BY <1>1, <2>1
  <2>3. \A l \in 1..Len(file) : l < i \/ l = i \/ l \in (i + 1)..Len(file)
    OBVIOUS
  <2>4. \A d \in W : d[1] < i \/ d = at(i)
    BY <1>1, <2>1, <2>3
  <2> HIDE DEF at
  <2>5. \A c \in W : (\A d \in W : d[1] < c[1] \/ d = c) => c = at(i)
    <3>1. SUFFICES ASSUME NEW c \in W, \A d \in W : d[1] < c[1] \/ d = c
                   PROVE  c = at(i)
      OBVIOUS
    <3>2. i < c[1] \/ at(i) = c
      BY <2>2, <3>1
    <3>3. c[1] < i \/ c = at(i)
      BY <2>4
    <3>4. c[1] \in Int /\ i \in Int
      BY <1>1
    <3> QED
      BY <3>2, <3>3, <3>4
  <2>6. \A d \in W : d[1] < at(i)[1] \/ d = at(i)
    BY <2>2, <2>4
  <2>7. (CHOOSE c \in W : \A d \in W : d[1] < c[1] \/ d = c) = at(i)
    BY <2>2, <2>5, <2>6
  <2>8. Meant(a) = file[at(i)[1]].data[at(i)[2]]
    BY <1>2, <2>2, <2>7
  <2> QED
    BY <2>1, <2>2, <2>8 DEF Byte
<1> QED
  BY <1>3, <1>4 DEF Holds

\* One of the lines that cover an address is the last.
LEMMA LastCover ==
    ASSUME NEW f, NEW n \in Nat, NEW a, NEW i \in 1..n, Covers(f, i, a)
    PROVE  \E j \in 1..n : Covers(f, j, a) /\ \A l \in (j + 1)..n : ~Covers(f, l, a)
<1> DEFINE S == {j \in 1..n : Covers(f, j, a)}
<1>1. S \in SUBSET (1..n) /\ S # {} /\ \A j \in S : Covers(f, j, a) /\ j \in 1..n
  OBVIOUS
<1>2. \A l \in 1..n : Covers(f, l, a) => l \in S
  OBVIOUS
<1> HIDE DEF S
<1>3. PICK j \in S : \A l \in S : l <= j
  BY <1>1, LastOf
<1>4. \A l \in (j + 1)..n : l \in 1..n /\ ~(l <= j)
  BY <1>1
<1> QED
  BY <1>1, <1>2, <1>3, <1>4

\* The records of a dump stay within their segment: other tools wrap the
\* address there.
THEOREM SegmentsKept == Spec => []RecordsWithinSegment
<1>1. HexInv => RecordsWithinSegment
  BY DEF HexInv, WriterInv, OfDump, RecordsWithinSegment, DataLines
<1> QED
  BY <1>1, HexInvariance, PTL

\* An accepted file, dumped or foreign, gives the image that its records mean.
THEOREM ImageIsMeant == Spec => []ImageMatchesFile
<1>1. ASSUME HexInv, ReadOk, ~img.outside, NEW o \in DOMAIN img.data
      PROVE  img.data[o] = Meant(o + img.base)
  <2>1. /\ file \in Seq(Lines) /\ DOMAIN file = 1..Len(file)
        /\ ReadSoFar(file, Len(file), img) /\ o \in Int /\ img.base \in Int
    <3>1. file \in Seq(Lines) /\ img \in ImageType /\ DOMAIN img.data = 0..(img.capacity - 1)
      BY <1>1 DEF HexInv, TypeOK
    <3>2. img.base \in Int
      BY <3>1, SpaceIs DEF ImageType
    <3> QED
      BY <1>1, <3>1, <3>2 DEF HexInv, ReaderInv
  <2>2. Holds(file, Len(file), o + img.base, img.data[o])
    BY <1>1, <2>1 DEF ReadSoFar
  <2>3. \A i \in DataLines : Len(file[i].data) <= MaxCount
    BY <1>1, <2>1 DEF ReadSoFar, InImage, DataLines
  <2>4. o + img.base \in Int
    BY <2>1
  <2> QED
    BY <2>1, <2>2, <2>3, <2>4, MeantIs
<1>2. HexInv => ImageMatchesFile
  BY <1>1 DEF ImageMatchesFile
<1> QED
  BY <1>2, HexInvariance, PTL

\* The range of an accepted file begins no later than its first record and
\* ends with its last byte.
THEOREM RangeIsExact == Spec => []RangeCoversFile
<1>1. ASSUME HexInv, ReadOk, ~img.outside
      PROVE  /\ \A x \in Ends : x <= img.max
             /\ img.max \in Ends
             /\ \A x \in Offsets : img.min <= x
  <2>1. /\ file \in Seq(Lines) /\ DOMAIN file = 1..Len(file) /\ img.any
        /\ ReadSoFar(file, Len(file), img)
    BY <1>1 DEF HexInv, TypeOK, ReaderInv
  <2>2. \A i \in DataLines : i \in 1..Len(file) /\ file[i].type = "data"
    BY <2>1 DEF DataLines
  <2>3. ASSUME NEW i \in DataLines
        PROVE  /\ BaseAt(i) + file[i].addr - img.base = First(file, i) - img.base
               /\ BaseAt(i) + file[i].addr + Len(file[i].data) - img.base = After(file, i) - img.base
    <3>1. BaseAt(i) = BaseIn(file, i)
      BY Bases
    <3>2. /\ BaseIn(file, i) \in Int /\ file[i].addr \in Int /\ Len(file[i].data) \in Int
      BY <2>1, <2>2, LineType
    <3>3. img.base \in Int
      BY <1>1, SpaceIs DEF HexInv, TypeOK, ImageType
    <3> QED
      BY <3>1, <3>2, <3>3 DEF First, After
  <2>4. \A i \in DataLines : img.min <= First(file, i) - img.base /\ After(file, i) - img.base <= img.max
    BY <1>1, <2>1, <2>2 DEF ReadSoFar, InImage
  <2>5. \E i \in DataLines : img.max = After(file, i) - img.base
    BY <1>1, <2>1 DEF ReadSoFar, DataLines
  <2> QED
    BY <2>3, <2>4, <2>5 DEF Ends, Offsets
<1>2. HexInv => RangeCoversFile
  BY <1>1 DEF RangeCoversFile
<1> QED
  BY <1>2, HexInvariance, PTL

\* A byte of the dump that is in the file is what the file says of its address.
LEMMA DumpedByte ==
    ASSUME file \in Seq(Lines), NEW start \in Nat, NEW bytes, OfDump(file, start, bytes),
           NEW a \in Int, NEW i \in 1..Len(file), Covers(file, i, a)
    PROVE  Byte(file, i, a) = bytes[a - start + 1]
BY DEF OfDump, Covers

\* A dump that is called good is whole: every byte of the flash is in the file,
\* at its address, and the end record is its last line.
THEOREM GoodDumps == Spec => []GoodDumpIsWhole
<1>1. ASSUME HexInv, phase = "dumped", result = "Ok"
      PROVE  /\ file # <<>> /\ file[Len(file)] = EOF
             /\ \A o \in DOMAIN w.bytes : Meant((w.start + o - 1) % Space) = w.bytes[o]
  <2>1. /\ file \in Seq(Lines) /\ DOMAIN file = 1..Len(file) /\ Len(file) \in Nat
        /\ w \in WriterType /\ w.start \in Nat /\ w.bytes \in Seq(Nat) /\ Len(w.bytes) \in Nat
        /\ Dumped /\ OfDump(file, w.start, w.bytes)
        /\ file # <<>> /\ file[Len(file)] = EOF
        /\ w.start + Len(w.bytes) <= NoUpper * Segment
    BY <1>1 DEF HexInv, TypeOK, WriterInv, WriterType, Dumped
  <2>2. Complete(file, w.start, Len(w.bytes))
    BY <1>1, <2>1, EmittedLines DEF HexInv, WriterInv
  <2>3. \A i \in DataLines : Len(file[i].data) <= MaxCount
    BY <2>1 DEF OfDump, DataLines
  <2>4. ASSUME NEW o \in DOMAIN w.bytes
        PROVE  Meant((w.start + o - 1) % Space) = w.bytes[o]
    <3> DEFINE a == w.start + o - 1
               top == NoUpper * Segment
    <3>1. o \in 1..Len(w.bytes)
      BY <2>1
    <3>2. a \in Nat /\ a < top /\ top \in Nat /\ top < Space /\ Space \in Nat
      <4>1. top \in Nat /\ top < Space /\ Space \in Nat /\ w.start + Len(w.bytes) <= top
        BY <2>1, SpaceIs
      <4>2. \A s, l, t \in Nat : \A k \in 1..l :
                s + l <= t => s + k - 1 \in Nat /\ s + k - 1 < t
        OBVIOUS
      <4>3. w.start \in Nat /\ Len(w.bytes) \in Nat
        BY <2>1
      <4> HIDE DEF top
      <4>4. a \in Nat /\ a < top
        BY <3>1, <4>1, <4>2, <4>3
      <4> QED
        BY <4>1, <4>4
    <3> HIDE DEF top
    <3>3. a % Space = a
      <4> HIDE DEF a
      <4> QED
        BY <3>2, SmallModulo
    <3>4. a = w.start + (o - 1) /\ o - 1 \in 0..(Len(w.bytes) - 1) /\ a - w.start + 1 = o
      BY <2>1, <3>1
    <3>5. PICK i \in 1..Len(file) : Covers(file, i, a)
      BY <2>1, <2>2, <3>4 DEF Complete
    <3>6. PICK j \in 1..Len(file) : /\ Covers(file, j, a)
                                    /\ \A l \in (j + 1)..Len(file) : ~Covers(file, l, a)
      <4> HIDE DEF a
      <4> QED
        BY <2>1, <3>5, LastCover
    <3>7. Byte(file, j, a) = w.bytes[o]
      <4>1. a \in Int
        BY <3>2
      <4>2. Byte(file, j, a) = w.bytes[a - w.start + 1]
        <5> HIDE DEF a
        <5> QED
          BY <2>1, <3>6, <4>1, DumpedByte
      <4> QED
        BY <3>4, <4>2
    <3>8. Holds(file, Len(file), a, w.bytes[o])
      <4> HIDE DEF a
      <4> QED
        BY <3>6, <3>7 DEF Holds
    <3>9. Meant(a) = w.bytes[o]
      <4>1. a \in Int
        BY <3>2
      <4> HIDE DEF a
      <4> QED
        BY <2>1, <2>3, <3>8, <4>1, MeantIs
    <3> QED
      BY <3>3, <3>9
  <2> QED
    BY <2>1, <2>4
<1>2. HexInv => GoodDumpIsWhole
  BY <1>1 DEF GoodDumpIsWhole
<1> QED
  BY <1>2, HexInvariance, PTL

\* What is dumped comes from a device, whose flash is dumped from address 0.
FromStart == w.start = 0

LEMMA DumpsFromStart ==
    ASSUME \A d \in Dumps : d.start = 0
    PROVE  Spec => []FromStart
<1>1. Init => FromStart
  BY DEF Init, FromStart, Writer
<1>2. ASSUME FromStart, HexInv, [Next]_vars
      PROVE  FromStart'
  <2>1. CASE Emit
    <3>1. w' = w \/ w' = Advanced(w)
      BY <2>1 DEF Emit
    <3>2. Advanced(w).start = w.start
      <4>1. w \in WriterType
        BY <1>2 DEF HexInv, TypeOK
      <4> QED
        BY <4>1 DEF Advanced, WriterType
    <3> QED
      BY <1>2, <3>1, <3>2 DEF FromStart
  <2>2. CASE Open \/ ReadLine \/ EndOfFile \/ UNCHANGED vars
    BY <1>2, <2>2 DEF Open, ReadLine, EndOfFile, vars, FromStart
  <2> QED
    BY <1>2, <2>1, <2>2 DEF Next
<1> QED
  BY <1>1, <1>2, HexInvariance, PTL DEF Spec

\* The dump of a device that is read back gives the flash as it was.
THEOREM DumpsReadBack ==
    ASSUME \A d \in Dumps : d.start = 0
    PROVE  Spec => []RoundTrip
<1>1. ASSUME HexInv, FromStart, ReadOk, Dumped, file[Len(file)].type = "eof",
             NEW o \in DOMAIN img.data
      PROVE  img.data[o] = IF o + img.base < Len(w.bytes) THEN w.bytes[o + img.base + 1] ELSE Fill
  <2> DEFINE a == o + img.base
             v == img.data[o]
  <2>1. /\ file \in Seq(Lines) /\ DOMAIN file = 1..Len(file) /\ Len(file) \in Nat
        /\ w.start = 0 /\ w.bytes \in Seq(Nat) /\ Len(w.bytes) \in Nat
        /\ OfDump(file, 0, w.bytes) /\ ~img.outside /\ img.any
        /\ ReadSoFar(file, Len(file), img)
    BY <1>1 DEF HexInv, TypeOK, WriterInv, ReaderInv, WriterType, FromStart
  <2>2. file # <<>>
    BY <2>1 DEF ReadSoFar
  <2>3. Complete(file, 0, Len(w.bytes))
    BY <1>1, <2>1, <2>2 DEF HexInv, WriterInv
  <2>4. a \in Nat
    <3>1. img \in ImageType /\ DOMAIN img.data = 0..(img.capacity - 1)
      BY <1>1 DEF HexInv, TypeOK
    <3> QED
      BY <3>1, SpaceIs DEF ImageType
  <2>5. Holds(file, Len(file), a, v)
    BY <2>1 DEF ReadSoFar
  <2> HIDE DEF a, v
  <2>6. CASE v = Fill /\ \A i \in 1..Len(file) : ~Covers(file, i, a)
    <3>1. ~(a < Len(w.bytes))
      <4>1. SUFFICES ASSUME a < Len(w.bytes)
                     PROVE  FALSE
        OBVIOUS
      <4>2. a \in 0..(Len(w.bytes) - 1) /\ 0 + a = a
        BY <2>1, <2>4, <4>1
      <4> QED
        BY <2>1, <2>3, <2>6, <4>2 DEF Complete
    <3> QED
      BY <2>6, <3>1 DEF a, v
  <2>7. CASE \E i \in 1..Len(file) : Covers(file, i, a) /\ v = Byte(file, i, a)
    <3>1. PICK i \in 1..Len(file) : Covers(file, i, a) /\ v = Byte(file, i, a)
      BY <2>7
    <3>2. v = w.bytes[a + 1]
      <4>1. a \in Int /\ 0 \in Nat
        BY <2>4
      <4>2. Byte(file, i, a) = w.bytes[a - 0 + 1]
        BY <2>1, <3>1, <4>1, DumpedByte
      <4>3. a - 0 + 1 = a + 1
        BY <2>4
      <4> QED
        BY <3>1, <4>2, <4>3
    <3>3. a < Len(w.bytes)
      <4>1. file[i].type = "data" /\ a \in First(file, i)..(After(file, i) - 1)
        BY <3>1 DEF Covers
      <4>2. After(file, i) <= 0 + Len(w.bytes)
        BY <2>1, <4>1 DEF OfDump
      <4>3. First(file, i) \in Int /\ After(file, i) \in Int
        BY <2>1, LineType
      <4> QED
        BY <2>1, <2>4, <4>1, <4>2, <4>3
    <3> QED
      BY <3>2, <3>3 DEF a, v
  <2> QED
    BY <2>5, <2>6, <2>7 DEF Holds
<1>2. HexInv /\ FromStart => RoundTrip
  BY <1>1 DEF RoundTrip
<1> QED
  BY <1>2, HexInvariance, DumpsFromStart, PTL
=============================================================================
