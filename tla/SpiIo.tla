------------------------------- MODULE SpiIo -------------------------------
(***************************************************************************)
(* The byte level of the SPI protocol (shared-lib/spiutils): reading and   *)
(* writing integers, the bit queue BitBuf and the write Cursor of io.rs,   *)
(* the enums of protocol/wire.rs and the checksum of protocol/payload.rs.  *)
(*                                                                         *)
(* Integers are below 2^31, the largest TLC has, whatever their width.     *)
(***************************************************************************)
EXTENDS Integers, Sequences
LOCAL INSTANCE Bitwise
LOCAL INSTANCE SequencesExt

VARIABLES
    bb,          \* a BitBuf: len and bits
    bb_queue,    \* history: the bits it should hold, oldest first
    bb_read      \* history: what read_bits returned, and what it should have

bbvars == <<bb, bb_queue, bb_read>>

Byte == 0 .. 255

-----------------------------------------------------------------------------
(* BitBuf. *)
inverse_popcnt(n) == 2 ^ n - 1

NoRead == <<0, 0>>

BBInit == \E bits \in {0, 85, 170, 255} :
    \/ bb = [len |-> 0, bits |-> 0] /\ bb_queue = <<>> /\ bb_read = NoRead
    \/ /\ bb = [len |-> 8, bits |-> bits] /\ bb_read = NoRead
       /\ bb_queue = [i \in 1 .. 8 |-> (bits \div 2 ^ (8 - i)) % 2]

BitsValue(s) == FoldLeft(LAMBDA v, bit : 2 * v + bit, 0, s)

(* Fault: the bits that were read are left in the buffer. *)
read_bits_kept(n) ==
    /\ n <= bb.len
    /\ LET val == (bb.bits \div 2 ^ (bb.len - n)) % 2 ^ n
       IN  /\ bb' = [len |-> bb.len - n, bits |-> bb.bits]
           /\ bb_read' = <<val, BitsValue(SubSeq(bb_queue, 1, n))>>
    /\ bb_queue' = SubSeq(bb_queue, n + 1, bb.len)

(* read_bits with enough bits in the buffer; otherwise BufferExhausted. *)
read_bits(n) ==
    /\ n <= bb.len
    /\ LET mask == inverse_popcnt(n)
           offset == bb.len - n
           val == (bb.bits \div 2 ^ offset) & mask
       IN  /\ bb' = [len |-> bb.len - n,
                     bits |-> IF n = 0 THEN bb.bits
                              ELSE bb.bits & (255 - ((mask * 2 ^ offset) % 256))]
           /\ bb_read' = <<val, BitsValue(SubSeq(bb_queue, 1, n))>>
    /\ bb_queue' = SubSeq(bb_queue, n + 1, bb.len)

(* write_bits with room for n bits.  wrapping_shl takes its distance modulo *)
(* eight: a write of eight bits does not shift at all.                      *)
write_bits(n, bits) ==
    /\ bb.len + n <= 8
    /\ bb' = [len |-> bb.len + n,
              bits |-> ((bb.bits * 2 ^ (n % 8)) % 256) | (bits & inverse_popcnt(n))]
    /\ bb_queue' = bb_queue \o [i \in 1 .. n |-> (bits \div 2 ^ (n - i)) % 2]
    /\ bb_read' = NoRead

BBNext == \E n \in 0 .. 8 : read_bits(n) \/ \E bits \in {0, 91, 165} : write_bits(n, bits)

(* The buffer is a queue of bits, oldest first, whatever the sequence of    *)
(* reads and writes: its bits are those that were written and not yet read, *)
(* all others are zero (on which a write of eight bits relies), and a read  *)
(* returns the oldest ones.                                                 *)
BitsAreAQueue ==
    /\ bb.len = Len(bb_queue) /\ bb.bits = BitsValue(bb_queue)
    /\ bb_read[1] = bb_read[2]

-----------------------------------------------------------------------------
(* Results: a value, or the error, and what is left to read. *)
Ok(val, rest) == [ok |-> TRUE, val |-> val, error |-> "none", rest |-> rest]
Err(error, rest) == [ok |-> FALSE, val |-> <<>>, error |-> error, rest |-> rest]

(* Read for a slice. *)
read_bytes(r, n) ==
    IF Len(r) < n THEN Err("BufferExhausted", r)
    ELSE Ok(SubSeq(r, 1, n), SubSeq(r, n + 1, Len(r)))

(* BeInt and LeInt. *)
Digit(v, k) == IF k > 3 THEN 0 ELSE (v \div 256 ^ k) % 256
BeBytes(v, width) == [i \in 1 .. width |-> Digit(v, width - i)]
BeValue(bytes) == FoldLeft(LAMBDA v, b : 256 * v + b, 0, bytes)
LeBytes(v, width) == [i \in 1 .. width |-> Digit(v, i - 1)]
LeValue(bytes) == BeValue(Reverse(bytes))

(* Cursor, which never writes a part: it takes all the bytes or none. *)
Cursor(size) == [size |-> size, bytes |-> <<>>, failed |-> FALSE]
write_bytes(c, bytes) ==
    IF Len(c.bytes) + Len(bytes) > c.size THEN [c EXCEPT !.failed = TRUE]
    ELSE [c EXCEPT !.bytes = @ \o bytes]

(* wire_enum!: an enum is the function from its variants to wire values. *)
to_wire_value(enum, variant) == enum[variant]
from_wire_value(enum, wire) == { variant \in DOMAIN enum : enum[variant] = wire }

-----------------------------------------------------------------------------
(* Crc8.  After each byte the low half of the 16-bit register is zero; the  *)
(* table holds the eight steps from every high half, with 0x1070 << 3.      *)
CrcStep(crc) == ((IF crc >= 32768 THEN crc ^^ 33664 ELSE crc) * 2) % 65536
CrcByte ==
    [high \in Byte |->
        FoldLeft(LAMBDA crc, i : CrcStep(crc), 256 * high, <<1, 2, 3, 4, 5, 6, 7, 8>>) \div 256]
Crc8(bytes) ==
    LET crc[i \in 0 .. Len(bytes)] == IF i = 0 THEN 0 ELSE CrcByte[crc[i - 1] ^^ bytes[i]]
    IN  crc[Len(bytes)]

=============================================================================
