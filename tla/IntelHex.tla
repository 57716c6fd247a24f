------------------------------ MODULE IntelHex ------------------------------
(***************************************************************************)
(* hex/intel_hex.c: the parser of one line and the writer of an image, at  *)
(* the level of records.  The widths are constants: a record address has   *)
(* SegBits bits (16 in the code), an address and a size_t have AddrBits    *)
(* (32 on the Flipper), and a segment is worth 2^SegShift bytes (4 bits).  *)
(***************************************************************************)
EXTENDS Integers, Sequences

CONSTANTS SegBits, AddrBits, SegShift,
          MaxCount,     \* bytes of the longest record that HEX_LINE_MAX holds
          DefaultBpl    \* 16

ASSUME IntelHexAssumption ==
    /\ SegBits \in Nat /\ AddrBits \in Nat /\ SegShift \in Nat
    /\ SegBits < AddrBits /\ SegShift < SegBits
    /\ MaxCount \in Nat \ {0} /\ DefaultBpl \in 1..MaxCount

Segment == 2 ^ SegBits
Space == 2 ^ AddrBits           \* of uint32_t and size_t
NoUpper == 2 ^ (AddrBits - SegBits) - 1     \* 0xFFFF
Uppers == 0..NoUpper

\* What the powers of two are to each other.
ASSUME PowersAssumption ==
    /\ Segment \in Nat \ {0} /\ NoUpper \in Nat /\ Space = (NoUpper + 1) * Segment
    /\ 2 ^ SegShift \in 1..Segment

Fill == 0                       \* 0xFF

(***************************************************************************)
(* A line as the parser gets it: a record, or text that is none.           *)
(*   type   "data", "eof", "linear", "segment", "start", "other",          *)
(*          "blank" (nothing but white space) and "text" (anything else)   *)
(*   addr   the 16-bit address       data  its bytes                       *)
(*   val    the two bytes of an address record as one number, or -1   *)
(*          if there are not two                                           *)
(*   sum    the checksum is right                                          *)
(***************************************************************************)
Record(type, addr, data, val) ==
    [type |-> type, addr |-> addr, data |-> data, val |-> val, sum |-> TRUE]

EOF == Record("eof", 0, <<>>, 0)

-----------------------------------------------------------------------------
(* intel_hex_parse_line                                                    *)

intel_hex_image_init(capacity, base) ==
    [data |-> [o \in 0..(capacity - 1) |-> Fill], capacity |-> capacity, base |-> base,
     ext_base |-> 0, min |-> 0, max |-> 0, any |-> FALSE, eof_seen |-> FALSE, outside |-> FALSE]

Smaller(a, b) == IF a < b THEN a ELSE b
Larger(a, b) == IF a > b THEN a ELSE b

\* memcpy; what lands outside of the buffer is only recorded.
Stored(img, offset, bytes) ==
    [img EXCEPT
        !.data = [o \in DOMAIN @ |->
                    IF o \in offset..(offset + Len(bytes) - 1) THEN bytes[o - offset + 1] ELSE @[o]],
        !.outside = @ \/ offset + Len(bytes) > img.capacity]

\* A bug: the highest offset is that of the last record.
CoveredByLast(img, offset, n) ==
    [img EXCEPT !.any = TRUE, !.min = IF img.any THEN Smaller(@, offset) ELSE offset,
                !.max = offset + n]

Covered(img, offset, n) ==
    [img EXCEPT !.any = TRUE,
                !.min = IF img.any THEN Smaller(@, offset) ELSE offset,
                !.max = IF img.any THEN Larger(@, (offset + n) % Space) ELSE (offset + n) % Space]

DataRecord(img, rec) ==
    LET abs_addr == (img.ext_base + rec.addr) % Space
        offset == abs_addr - img.base
        n == Len(rec.data)
    IN  IF abs_addr < img.base \/ (offset + n) % Space > img.capacity
        THEN [status |-> "ErrOverflow", img |-> img]
        ELSE [status |-> "Ok", img |-> Covered(Stored(img, offset, rec.data), offset, n)]

\* A bug: the segment is taken for a linear address.
SegmentUnscaled(val) == val * Segment
SegmentBase(val) == val * 2 ^ SegShift

\* Format errors come first: a line that was cut off has no checksum.
BadFormat(rec) == rec.type = "text" \/ Len(rec.data) > MaxCount
BadLine(rec) == BadFormat(rec) \/ ~rec.sum

Ok(img) == [status |-> "Ok", img |-> img]

AddressRecord(img, rec, ext_base) ==
    IF rec.val < 0 THEN [status |-> "ErrFormat", img |-> img]
    ELSE Ok([img EXCEPT !.ext_base = ext_base])

intel_hex_parse_line(img, rec) ==
    IF rec.type = "blank" THEN Ok(img)
    ELSE IF BadLine(rec)
    THEN [status |-> IF BadFormat(rec) THEN "ErrFormat" ELSE "ErrChecksum", img |-> img]
    ELSE CASE rec.type = "data" -> DataRecord(img, rec)
           [] rec.type = "eof" -> Ok([img EXCEPT !.eof_seen = TRUE])
           [] rec.type = "linear" -> AddressRecord(img, rec, (rec.val * Segment) % Space)
           [] rec.type = "segment" -> AddressRecord(img, rec, SegmentBase(rec.val))
           [] rec.type = "start" -> Ok(img)
           [] OTHER -> [status |-> "ErrUnsupported", img |-> img]

-----------------------------------------------------------------------------
(* intel_hex_write: one record per step; w is where the writer is.         *)

Writer(start, bytes, bpl) ==
    [start |-> start, bytes |-> bytes, off |-> 0, cur_upper |-> NoUpper,
     bpl |-> IF bpl = 0 \/ bpl > MaxCount THEN DefaultBpl ELSE bpl]

AbsAddr(w) == (w.start + w.off) % Space
Upper(w) == AbsAddr(w) \div Segment
Low(w) == AbsAddr(w) % Segment

\* A bug: a record may cross the end of its segment.
ChunkAcross(w) == Smaller(Len(w.bytes) - w.off, w.bpl)

Chunk(w) == Smaller(Smaller(Len(w.bytes) - w.off, w.bpl), Segment - Low(w))

AllOut(w) == w.off >= Len(w.bytes)

\* A bug: the upper half is written once and never again.
NeedsUpperOnce(w) == w.off = 0 /\ w.cur_upper = NoUpper

NeedsUpper(w) == Upper(w) # w.cur_upper

\* The record that is emitted next, and the writer after it.
Emitted(w) ==
    IF AllOut(w) THEN EOF
    ELSE IF NeedsUpper(w) THEN Record("linear", 0, <<>>, Upper(w))
    ELSE Record("data", Low(w), SubSeq(w.bytes, w.off + 1, w.off + Chunk(w)), 0)

Advanced(w) ==
    IF NeedsUpper(w) THEN [w EXCEPT !.cur_upper = Upper(w)]
    ELSE [w EXCEPT !.off = @ + Chunk(w)]
=============================================================================
