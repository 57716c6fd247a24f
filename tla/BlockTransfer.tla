--------------------------- MODULE BlockTransfer ---------------------------
(***************************************************************************)
(* How the two programmers cut a memory into REPEAT-counted blocks: the    *)
(* loops of updi_session.c and updi_nvm.c over updi_link.c, and those of   *)
(* the reference (nvmserialupdi.py over readwrite.py), for every device.   *)
(* A step is one iteration of the outer loop.  A block is kept as the      *)
(* target decodes it from the frames: the pointer has as many bytes as the *)
(* link was told, REPEAT one byte with the count less one.                 *)
(***************************************************************************)
EXTENDS DeviceTable, Integers

CONSTANT Chips          \* the parts that get plugged in, by name

VARIABLES
    host,       \* "C" the application, "Py" the reference, or "idle"
    chip,       \* the pack of the part on the wire
    dev,        \* what the host takes its geometry from: a row, a pack, NULL
    job,        \* what it was asked to do
    pos,        \* bytes its loop has been through
    blocks,     \* the blocks of the last iteration
    reached     \* ghost: the address up to which the target took part

vars == <<host, chip, dev, job, pos, blocks, reached>>

Lesser(a, b) == IF a < b THEN a ELSE b

-----------------------------------------------------------------------------
(* The frames, and what the target makes of them.                          *)

UPDI_MAX_REPEAT_SIZE == 256
UPDI_MAX_PAGE == 256
UPDI_READ_CHUNK == 256
SmallRxStream == 256            \* a bug: room for a page but not its frame
UPDI_RX_STREAM_SIZE == 512

\* The width of an address follows the NVM interface the SIB names (the parts
\* with 24-bit addresses have P:3, the others P:0).
AlwaysTwoBytes == 2             \* a bug: set_address_size is not called
AddressBytes == IF chip.address_size = "24-bit" THEN 3 ELSE 2
OnWire(address) == address % (IF AddressBytes = 3 THEN 2^24 ELSE 2^16)

RepeatCount(count) == count % 256               \* a bug: count is not reduced
RepeatByte(count) == (count - 1) % 256
Executions(byte) == byte + 1

\* ST PTR, REPEAT unless count is 1, and count cells of width bytes.
Block(address, width, count) ==
    [ptr |-> OnWire(address), width |-> width,
     cells |-> IF count = 1 THEN 1 ELSE Executions(RepeatByte(count))]

Refused == <<[ptr |-> -1, width |-> 0, cells |-> 0]>>

\* F applied to n bytes from address on, at most size of them at a time.
Chunked(F(_, _), address, n, size) ==
    FlattenSeq([k \in 1..((n + size - 1) \div size) |->
        F(address + (k - 1) * size, Lesser(size, n - (k - 1) * size))])

-----------------------------------------------------------------------------
(* updi_link.c and updi_nvm.c                                              *)

updi_link_read_data(address, size) ==
    IF size > UPDI_MAX_REPEAT_SIZE THEN Refused ELSE <<Block(address, 1, size)>>

updi_link_write_data_words(address, numbytes) ==
    IF numbytes = 0 \/ numbytes % 2 = 1 \/ numbytes > 2 * UPDI_MAX_REPEAT_SIZE
    THEN Refused
    ELSE <<Block(address, 2, numbytes \div 2)>>

updi_nvm_read(address, size) ==
    Chunked(updi_link_read_data, address, size, UPDI_MAX_REPEAT_SIZE)

updi_nvm_write_flash_page(address, len) ==
    IF len = 0 \/ len % 2 = 1 \/ len > dev.flash_page_size THEN Refused
    ELSE updi_link_write_data_words(address, len)

-----------------------------------------------------------------------------
(* readwrite.py; _dl is its repeat(), whose own limit is one too high.     *)

repeat_dl(repeats) == repeats - 1 <= UPDI_MAX_REPEAT_SIZE

read_data(address, size) ==
    IF size > UPDI_MAX_REPEAT_SIZE \/ ~repeat_dl(size) THEN Refused
    ELSE <<Block(address, 1, size)>>

read_data_words(address, words) ==
    IF words > UPDI_MAX_REPEAT_SIZE \div 2 \/ ~repeat_dl(words) THEN Refused
    ELSE <<Block(address, 2, words)>>

\* An odd byte at the end is not counted.
write_data_words(address, numbytes) ==
    IF numbytes > UPDI_MAX_REPEAT_SIZE * 2 \/ ~repeat_dl(numbytes \div 2) THEN Refused
    ELSE <<Block(address, 2, numbytes \div 2)>>

write_data(address, numbytes) ==
    LET one(a, n) == <<Block(a, 1, n)>>
    IN  IF numbytes <= 2 THEN Chunked(one, address, numbytes, 1)
        ELSE Chunked(one, address, numbytes, UPDI_MAX_REPEAT_SIZE)

-----------------------------------------------------------------------------
(* What is asked of the hosts.                                             *)

Near(n) == {n - 1, n, n + 1}

\* Lengths about the boundaries of a memory m, whole memories from 0 on only.
Requests(m) ==
    {r \in [at : {0, 1} \cup Near(m.page_size), len :
                UNION {Near(1), Near(m.page_size), Near(2 * m.page_size),
                       Near(UPDI_READ_CHUNK), Near(2 * UPDI_READ_CHUNK), Near(m.size)}] :
        /\ r.len > 0 /\ r.at + r.len <= m.size
        /\ r.at = 0 \/ r.len <= 2 * UPDI_READ_CHUNK + 1}

Job(kind, mem, base, chunk, r) ==
    [kind |-> kind, mem |-> mem, base |-> base + r.at, len |-> r.len, chunk |-> chunk]

NoJob == Job("none", "flash", 0, 1, [at |-> 0, len |-> 0])

Idle == host = "idle"

Begin(h, d, j) ==
    /\ Idle
    /\ host' = h /\ dev' = d /\ job' = j /\ pos' = 0 /\ blocks' = <<>>
    /\ reached' = j.base
    /\ UNCHANGED chip

\* pos runs to the length of the job, in steps of n bytes.
Iterate(n, bs) ==
    /\ blocks' = bs
    /\ pos' = IF bs = Refused THEN job.len ELSE pos + n
    /\ UNCHANGED <<host, chip, dev, job>>

\* The target took part in the blocks bs, one after the other; -1 is a gap.
After(bs) ==
    FoldLeft(LAMBDA a, b : IF b.ptr = a THEN a + b.width * b.cells ELSE -1,
             reached, bs)

Running(h, kinds) == host = h /\ job.kind \in kinds /\ pos < job.len
Rest == job.len - pos
Here == job.base + pos

Signature == <<chip.device_id \div \h10000, (chip.device_id \div \h100) % \h100,
               chip.device_id % \h100>>

-----------------------------------------------------------------------------
(* The application.                                                        *)

\* updi_session_connect, and one of the loops of updi_session.c.
SessionBegin ==
    LET d == updi_device_find_by_id(updi_device_id_from_sig(Signature))
    IN  \/ d = NULL /\ Begin("C", d, NoJob)
        \/ /\ d # NULL
           /\ \E r \in Requests([size |-> d.flash_size, page_size |-> d.flash_page_size]) :
                /\ r.at = 0
                /\ \E kind \in {"write_flash", "verify_flash", "read_flash"} :
                    Begin("C", d, Job(kind, "flash", d.flash_address,
                          IF kind = "write_flash" THEN d.flash_page_size
                          ELSE UPDI_READ_CHUNK, r))
        \/ /\ d # NULL
           /\ Begin("C", d, Job("read_fuses", "fuses", d.fuses_address, 1,
                                [at |-> 0, len |-> Lesser(16, d.fuses_size)]))

\* Every iteration writes a whole page, the rest of the last one as 0xFF;
\* a page of nothing but 0xFF is skipped.
updi_session_write_flash ==
    /\ Running("C", {"write_flash"})
    /\ LET page == dev.flash_page_size
           bs == IF page = 0 \/ page > UPDI_MAX_PAGE THEN Refused
                 ELSE updi_nvm_write_flash_page(dev.flash_address + pos, page)
       IN  \/ Iterate(page, bs) /\ reached' = After(bs)
           \/ Iterate(page, <<>>) /\ reached' = reached + page

updi_session_verify_flash ==
    /\ Running("C", {"verify_flash"})
    /\ LET chunk == Lesser(Rest, UPDI_READ_CHUNK)
           bs == updi_nvm_read(dev.flash_address + pos, chunk)
       IN  Iterate(chunk, bs) /\ reached' = After(bs)

updi_session_read_flash ==
    /\ Running("C", {"read_flash"})
    /\ LET chunk == Lesser(Rest, UPDI_READ_CHUNK)
           bs == updi_nvm_read(dev.flash_address + pos, chunk)
       IN  Iterate(chunk, bs) /\ reached' = After(bs)

updi_session_read_fuses ==
    /\ Running("C", {"read_fuses"})
    /\ LET bs == IF pos >= dev.fuses_size THEN Refused
                 ELSE <<Block(dev.fuses_address + pos, 1, 1)>>
       IN  Iterate(1, bs) /\ reached' = After(bs)

-----------------------------------------------------------------------------
(* The reference.  The pack is the one its user named; read_device_id      *)
(* compares the signature before anything else is done.                    *)

Nvm == IF dev.address_size = "24-bit" THEN "P3" ELSE "P0"

\* write_flash, write_eeprom, write_user_row and write_fuse of nvmp0.py and
\* nvmp3.py: word or byte access, and for a fuse of P:0 the address registers.
\* What is none of the memories named in write goes to write_flash.
NvmWrite(mem, address, n) ==
    CASE mem \in {"flash", "internal_sram"} \/ (mem = "user_row" /\ Nvm = "P3") ->
            write_data_words(address, n)
      [] mem \in {"fuses", "lockbits"} /\ Nvm = "P0" -> <<Block(address, 1, 1)>>
      [] OTHER -> write_data(address, n)

\* Everything in a pack but the signatures, whose write_size is 0; no pack has a
\* boot row.
Writable == {"flash", "eeprom", "user_row", "fuses", "lockbits", "internal_sram"}

\* utils.pagealign: pad in front to the start of a page, behind to whole
\* write units.
pagealign(r, m) ==
    LET pad == r.at % m.page_size
        len == r.len + pad
    IN  [at |-> r.at - pad, len |-> m.write_size * ((len + m.write_size - 1) \div m.write_size)]

AllAtOnce(m, mem, len) == len           \* a bug: no chunks
write_chunk_size(m, mem, len) ==
    IF mem \in {"user_row", "internal_sram"} THEN len ELSE m.page_size

\* NvmAccessProviderSerial.write: chunks of a page, or everything in one piece.
ProviderWriteBegin(p) ==
    \E mem \in Writable : \E r \in Requests(p[mem]) :
        LET aligned == pagealign(r, p[mem])
        IN  Begin("Py", p, Job("write", mem, p[mem].address,
                               write_chunk_size(p[mem], mem, aligned.len), aligned))

ProviderReadBegin(p) ==
    \E mem \in Writable \cup {"signatures"} :
        \E r \in Requests(p[mem]) :
            Begin("Py", p, Job("read", mem, p[mem].address, \h100, r))

\* erase, from an address in the memory: as many pages as the flash has, one by
\* one; the user row of P:0 with as many dummy writes as it has locations.
ProviderEraseBegin(p) ==
    \E mem \in {"flash", "user_row"} : \E address \in {0, p[mem].page_size} :
        Begin("Py", p, Job("erase", mem, p[mem].address,
              IF mem = "flash" THEN p[mem].page_size ELSE p[mem].size,
              [at |-> address, len |-> p[mem].size]))

\* The block functions of UpdiReadWrite, with counts about their limits.
BlockCalls == {"read_data", "read_data_words", "write_data", "write_data_words"}

ReadWriteBegin(p) ==
    \E f \in BlockCalls, n \in {2} \cup Near(256) \cup Near(514) :
        /\ n % 2 = 1 => f \in {"read_data", "write_data"}
        /\ Begin("Py", p, Job(f, "flash", p.flash.address, n, [at |-> 0, len |-> n]))

ProviderBegin ==
    \E p \in Packs :
        /\ p.device_id = updi_device_id_from_sig(Signature)
        /\ \/ ProviderWriteBegin(p) \/ ProviderReadBegin(p)
           \/ ProviderEraseBegin(p) \/ ReadWriteBegin(p)

ReadWriteBlock ==
    /\ Running("Py", BlockCalls)
    /\ LET bs == CASE job.kind = "read_data"        -> read_data(Here, Rest)
                   [] job.kind = "read_data_words"  -> read_data_words(Here, Rest \div 2)
                   [] job.kind = "write_data"       -> write_data(Here, Rest)
                   [] job.kind = "write_data_words" -> write_data_words(Here, Rest)
       IN  Iterate(Rest, bs) /\ reached' = After(bs)

ProviderWrite ==
    /\ Running("Py", {"write"})
    /\ LET chunk == Lesser(Rest, job.chunk)
           bs == NvmWrite(job.mem, Here, chunk)
       IN  Iterate(chunk, bs) /\ reached' = After(bs)

ProviderRead ==
    /\ Running("Py", {"read"})
    /\ LET chunk == Lesser(Rest, job.chunk)
           bs == read_data(Here, chunk)
       IN  Iterate(chunk, bs) /\ reached' = After(bs)

\* A dummy write erases the page it falls into.
ProviderErase ==
    /\ Running("Py", {"erase"})
    /\ LET dummies == IF job.mem = "user_row" /\ Nvm = "P0"
                      THEN Chunked(write_data, Here, job.chunk, 1)
                      ELSE write_data(Here, 1)
       IN  /\ Iterate(job.chunk, dummies)
           /\ reached' = IF dummies[1].ptr = reached THEN reached + job.chunk ELSE -1

-----------------------------------------------------------------------------

End ==
    /\ ~Idle /\ pos >= job.len
    /\ host' = "idle" /\ job' = NoJob /\ pos' = 0 /\ blocks' = <<>>
    /\ dev' = NULL /\ reached' = 0
    /\ UNCHANGED chip

Init ==
    /\ chip \in {p \in Packs : p.name \in Chips}
    /\ host = "idle" /\ job = NoJob /\ pos = 0 /\ blocks = <<>>
    /\ dev = NULL /\ reached = 0

Next ==
    \/ SessionBegin \/ ProviderBegin \/ End
    \/ updi_session_write_flash \/ updi_session_verify_flash
    \/ updi_session_read_flash \/ updi_session_read_fuses
    \/ ProviderWrite \/ ProviderRead \/ ProviderErase \/ ReadWriteBlock

Spec == Init /\ [][Next]_vars

-----------------------------------------------------------------------------

\* The geometry a host works with is that of the part on the wire, and so are the
\* fuses, NVMCTRL's base, the width of an address and the NVM variant: the table
\* has one row for each published pack and the signature finds that row.
RightGeometry ==
    /\ dev # NULL => dev.name = chip.name
    /\ host = "C" => (dev = NULL <=> chip.name \notin Published)
    /\ host = "C" /\ dev # NULL =>
        /\ dev.flash_address = chip.flash.address
        /\ dev.flash_size = chip.flash.size
        /\ dev.flash_page_size = chip.flash.page_size
        /\ dev.fuses_address = chip.fuses.address /\ dev.fuses_size = chip.fuses.size
        /\ dev.nvmctrl_base = chip.nvmctrl_base
        /\ dev.address_bytes = AddressBytes
        /\ dev.nvm_variant = IF AddressBytes = 3 THEN "P3" ELSE "P0"

\* A write to a memory that is not NVM goes out as one block of words.
Loose == job.kind = "write" /\ job.mem = "internal_sram"

\* What is erased from another address than 0 ends beyond the memory.
PastEnd ==
    job.kind = "erase" /\ job.base + pos > chip[job.mem].address + chip[job.mem].size

\* What the target was given are the bytes asked for, in order, each once and
\* at its place: no count that does not fit its byte, no address cut short, no
\* byte between two blocks left out.  What a device of the table needs is never
\* refused; only a block call beyond the limits of the link is.  Excepted is
\* what write makes of the SRAM, in one piece of words: the odd byte at its end
\* is left out, one byte alone becomes 256 words, and more than 512 are refused;
\* and erase beyond the end of the memory.
NothingLeftOut ==
    /\ blocks # Refused /\ ~PastEnd /\ ~(Loose /\ job.len = 1) =>
        reached = job.base + (IF Loose THEN 2 * (pos \div 2) ELSE pos)
    /\ blocks = Refused =>
        job.kind \in BlockCalls \/ (Loose /\ job.len > 2 * UPDI_MAX_REPEAT_SIZE)

\* The physical page a store into mem falls into.
PageSize(mem) ==
    CASE mem = "user_row" /\ AddressBytes = 2 -> chip.eeprom.page_size
      [] mem = "user_row" -> chip.flash.page_size
      [] OTHER -> chip[mem].page_size

\* All that is loaded for one page command lies in one page of the memory:
\* the page buffer would wrap within it.  SRAM has neither.
WithinOnePage ==
    job.kind \in {"write_flash", "write", "erase"} /\ blocks # Refused /\ ~Loose /\ ~PastEnd =>
        \A b, c \in ToSet(blocks) :
            b.ptr \div PageSize(job.mem)
                = (c.ptr + c.width * c.cells - 1) \div PageSize(job.mem)

\* The application's receive stream takes the echo of a frame and its answer,
\* or the echo of a whole page: nothing the target sends is dropped.
ReceiveFits ==
    host = "C" => \A b \in ToSet(blocks) : 2 + b.width * b.cells <= UPDI_RX_STREAM_SIZE
=============================================================================
