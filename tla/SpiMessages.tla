---------------------------- MODULE SpiMessages ----------------------------
(***************************************************************************)
(* The messages of the SPI protocol: shared-lib/spiutils/src/protocol      *)
(* (flash.rs, payload.rs, firmware.rs, error.rs), driver and compat, and   *)
(* the way spi_processor.rs takes a request apart and puts a reply         *)
(* together.  A message is the sequence of its field values; its format is *)
(* the sequence of its fields in the order in which to_wire writes and     *)
(* from_wire reads them.                                                   *)
(***************************************************************************)
EXTENDS SpiIo
LOCAL INSTANCE SequencesExt
LOCAL INSTANCE FiniteSetsExt

VARIABLE wm      \* the message, header or packet under consideration

-----------------------------------------------------------------------------
(* Fields. *)
BE(width) == [type |-> "be", width |-> width]
LE(width) == [type |-> "le", width |-> width]
Enum(e) == [type |-> "enum", width |-> 1, enum |-> e]
Flag == [type |-> "flag", width |-> 1]

(* The field that starts r. *)
read_field(f, r) ==
    LET raw == read_bytes(r, f.width)
    IN  IF ~raw.ok THEN raw
        ELSE CASE f.type = "be" -> Ok(BeValue(raw.val), raw.rest)
               [] f.type = "le" -> Ok(LeValue(raw.val), raw.rest)
               [] f.type = "flag" -> Ok(raw.val # <<0>>, raw.rest)
               [] f.type = "enum" ->
                    LET variants == from_wire_value(f.enum, raw.val[1])
                    IN  IF variants = {} THEN Err("OutOfRange", raw.rest)
                        ELSE Ok(CHOOSE v \in variants : TRUE, raw.rest)

field_bytes(f, v) ==
    CASE f.type = "be" -> BeBytes(v, f.width)
      [] f.type = "le" -> LeBytes(v, f.width)
      [] f.type = "flag" -> IF v THEN <<1>> ELSE <<0>>
      [] f.type = "enum" -> <<to_wire_value(f.enum, v)>>

(* FromWire and ToWire: field after field; the first one that fails ends it. *)
Skip(fields, i, r) ==
    SubSeq(r, 1 + FoldLeft(LAMBDA n, f : n + f.width, 0, SubSeq(fields, 1, i)), Len(r))

from_wire(fields, r) ==
    LET parts == [i \in DOMAIN fields |-> read_field(fields[i], Skip(fields, i - 1, r))]
        failing == {i \in DOMAIN fields : ~parts[i].ok}
    IN  IF failing # {} THEN parts[Min(failing)]
        ELSE Ok([i \in DOMAIN fields |-> parts[i].val], Skip(fields, Len(fields), r))

to_wire(fields, values, size) ==
    write_bytes(Cursor(size),
                FlattenSeq([i \in DOMAIN fields |-> field_bytes(fields[i], values[i])]))

-----------------------------------------------------------------------------
(* protocol/flash.rs. *)
OpCode ==
    [Nop |-> 0, WriteStatusRegister |-> 1, ReadStatusRegister |-> 5, WriteDisable |-> 4,
     WriteEnable |-> 6, WriteSuspend |-> 176, WriteResume |-> 48, SectorErase |-> 32,
     BlockErase32KB |-> 82, BlockErase64KB |-> 216, ChipErase |-> 199, ChipErase2 |-> 96,
     PageProgram |-> 2, ReadJedec |-> 159, ReadSfdp |-> 90, NormalRead |-> 3,
     FastRead |-> 11, FastRead4B |-> 12, FastReadDualOutput |-> 59,
     Enter4ByteAddressMode |-> 183, Exit4ByteAddressMode |-> 233]

has_dummy_byte(op) == op \in {"FastRead", "FastRead4B", "FastReadDualOutput"}
has_address(op) ==
    op \in {"SectorErase", "BlockErase32KB", "BlockErase64KB", "PageProgram", "ReadSfdp",
            "NormalRead"} \/ has_dummy_byte(op)


wait_busy_clear(op) ==
    op \in {"WriteSuspend", "WriteResume", "SectorErase", "BlockErase32KB", "BlockErase64KB",
            "ChipErase", "ChipErase2", "PageProgram"}

AddressWidth(mode) == IF mode = "ThreeByte" THEN 3 ELSE 4

(* Header: what follows the op code depends on it. *)
DUMMY_BYTE_VALUE == 255
header_fields(op, mode) ==
    (IF has_address(op) THEN <<BE(AddressWidth(mode))>> ELSE <<>>)
        \o (IF has_dummy_byte(op) THEN <<BE(1)>> ELSE <<>>)

header_from_wire(r, mode) ==
    LET op == read_field(Enum(OpCode), r)
    IN  IF ~op.ok THEN op
        ELSE LET rest == from_wire(header_fields(op.val, mode), op.rest)
             IN  IF ~rest.ok THEN rest
                 ELSE Ok([opcode |-> op.val,
                          address |-> IF has_address(op.val) THEN rest.val[1] ELSE 0], rest.rest)

(* Fault: the dummy byte is read but not written. *)
header_to_wire_no_dummy(header, mode, size) ==
    to_wire(<<Enum(OpCode)>> \o (IF has_address(header.opcode) THEN <<BE(AddressWidth(mode))>>
                                 ELSE <<>>),
            <<header.opcode>> \o (IF has_address(header.opcode) THEN <<header.address>> ELSE <<>>),
            size)

header_to_wire(header, mode, size) ==
    to_wire(<<Enum(OpCode)>> \o header_fields(header.opcode, mode),
            <<header.opcode>> \o (IF has_address(header.opcode) THEN <<header.address>> ELSE <<>>)
                \o <<DUMMY_BYTE_VALUE>>, size)

-----------------------------------------------------------------------------
(* protocol/payload.rs. *)
ContentType == [Error |-> 0, Manticore |-> 1, Firmware |-> 2]
PayloadHeader == <<Enum(ContentType), BE(2), BE(1)>>
HEADER_LEN == 4

(* Fault: the checksum is that of the header. *)
checksum_of_header(content, len, payload) ==
    Crc8(<<to_wire_value(ContentType, content)>> \o BeBytes(len, 2))

(* compute_checksum panics when the payload is shorter than content_len. *)
compute_checksum(content, len, payload) ==
    Crc8(<<to_wire_value(ContentType, content)>> \o BeBytes(len, 2) \o SubSeq(payload, 1, len))

(* protocol/error.rs. *)
ErrorType == [BadChecksum |-> 1, ContentTypeNotSupported |-> 2]

(* protocol/firmware.rs. *)
FirmwareType ==
    [UpdatePrepareRequest |-> 1, UpdatePrepareResponse |-> 2, WriteChunkRequest |-> 3,
     WriteChunkResponse |-> 4, InactiveSegmentsInfoRequest |-> 5,
     InactiveSegmentsInfoResponse |-> 6, RebootRequest |-> 7, RebootResponse |-> 8]
SegmentAndLocation == [Unknown |-> 255, RoA |-> 1, RoB |-> 2, RwA |-> 3, RwB |-> 4]
UpdatePrepareResult == [Success |-> 0, Error |-> 1, InvalidSegmentAndLocation |-> 2]
WriteChunkResult ==
    [Success |-> 0, Error |-> 1, InvalidSegmentAndLocation |-> 2, InvalidOffset |-> 3,
     DataTooLong |-> 4, CompareFailed |-> 5]
RebootTime == [Immediate |-> 0, Delayed |-> 1]
RebootResult == [Success |-> 0, Error |-> 1]

InactiveSegmentsInfoRequest == <<>>
UpdatePrepareRequest == <<Enum(SegmentAndLocation)>>
UpdatePrepareResponse == <<Enum(SegmentAndLocation), BE(2), Enum(UpdatePrepareResult)>>
WriteChunkRequest == <<Enum(SegmentAndLocation), BE(4)>>     \* and the data, to the end
WriteChunkResponse == <<Enum(SegmentAndLocation), BE(4), Enum(WriteChunkResult)>>
RebootRequest == <<Enum(RebootTime)>>
RebootResponse == <<Enum(RebootTime), Enum(RebootResult)>>

(* driver/firmware.rs, compat/firmware.rs, driver/reset.rs, driver/spi_device.rs. *)
SegmentInfo == <<Enum(SegmentAndLocation), BE(4), BE(4), BE(4), BE(4)>>
RuntimeSegmentInfo == SegmentInfo \o SegmentInfo \o SegmentInfo \o SegmentInfo
InactiveSegmentsInfoResponse == SegmentInfo \o SegmentInfo
BuildInfo == <<LE(4), LE(4), LE(4), LE(8)>>
FirmwareInfo == <<Enum(SegmentAndLocation)>> \o BuildInfo
ResetSource == <<Flag, Flag, Flag, Flag, Flag, Flag, Flag, Flag>>
AddressConfig == <<BE(4), BE(4), BE(4), BE(4), BE(4)>>

(* Every message with the length that its _LEN constant states. *)
Messages ==
    [PayloadHeader |-> [fields |-> PayloadHeader, len |-> HEADER_LEN],
     ErrorHeader |-> [fields |-> <<Enum(ErrorType)>>, len |-> 1],
     FirmwareHeader |-> [fields |-> <<Enum(FirmwareType)>>, len |-> 1],
     InactiveSegmentsInfoRequest |-> [fields |-> InactiveSegmentsInfoRequest, len |-> 0],
     InactiveSegmentsInfoResponse |-> [fields |-> InactiveSegmentsInfoResponse, len |-> 2 * 17],
     UpdatePrepareRequest |-> [fields |-> UpdatePrepareRequest, len |-> 1],
     UpdatePrepareResponse |-> [fields |-> UpdatePrepareResponse, len |-> 4],
     WriteChunkRequest |-> [fields |-> WriteChunkRequest, len |-> 5],
     WriteChunkResponse |-> [fields |-> WriteChunkResponse, len |-> 6],
     RebootRequest |-> [fields |-> RebootRequest, len |-> 1],
     RebootResponse |-> [fields |-> RebootResponse, len |-> 2],
     SegmentInfo |-> [fields |-> SegmentInfo, len |-> 1 + 4 * 4],
     RuntimeSegmentInfo |-> [fields |-> RuntimeSegmentInfo, len |-> 4 * 17],
     BuildInfo |-> [fields |-> BuildInfo, len |-> 3 * 4 + 8],
     FirmwareInfo |-> [fields |-> FirmwareInfo, len |-> 1 + 20],
     ResetSource |-> [fields |-> ResetSource, len |-> 8],
     AddressConfig |-> [fields |-> AddressConfig, len |-> 5 * 4]]

-----------------------------------------------------------------------------
(* send_data of spi_processor.rs: the header with its checksum, the content. *)
send_data(content, body) ==
    to_wire(PayloadHeader, <<content, Len(body), compute_checksum(content, Len(body), body)>>,
            HEADER_LEN).bytes \o body

(* process_firmware: the requests it takes apart. *)
process_firmware(body) ==
    LET header == read_field(Enum(FirmwareType), body)
        Taken(fields) ==
            LET req == from_wire(fields, header.rest)
            IN  IF ~req.ok THEN <<"error">> ELSE <<"request", header.val, req.val, req.rest>>
    IN  IF ~header.ok THEN <<"error">>
        ELSE CASE header.val = "InactiveSegmentsInfoRequest" -> Taken(InactiveSegmentsInfoRequest)
               [] header.val = "UpdatePrepareRequest" -> Taken(UpdatePrepareRequest)
               [] header.val = "WriteChunkRequest" -> Taken(WriteChunkRequest)
               [] header.val = "RebootRequest" -> Taken(RebootRequest)
               [] OTHER -> <<"error">>

process_spi_payload(data) ==
    LET header == from_wire(PayloadHeader, data)
        content == header.val[1]
        len == header.val[2]
    IN  IF ~header.ok THEN <<"error">>
        ELSE IF len > Len(header.rest) THEN <<"panics">>
        ELSE IF header.val[3] # compute_checksum(content, len, header.rest)
             THEN <<"reply", send_data("Error", <<ErrorType.BadChecksum>>)>>
        ELSE LET body == SubSeq(header.rest, 1, len)
             IN  CASE content = "Manticore" -> <<"manticore", body>>
                   [] content = "Firmware" -> process_firmware(body)
                   [] OTHER -> <<"reply", send_data("Error", <<ErrorType.ContentTypeNotSupported>>)>>

-----------------------------------------------------------------------------
(* Samples.  In a message every field gets its least, its greatest or a     *)
(* value that no other field of the message has.                            *)
FieldValue(f, i, sample) ==
    LET Pick(w) == CHOOSE v \in DOMAIN f.enum : f.enum[v] = w
        wires == {f.enum[v] : v \in DOMAIN f.enum}
    IN  CASE f.type = "flag" -> sample = "max" \/ (sample = "own" /\ i % 3 = 1)
          [] f.type = "enum" -> Pick(IF sample = "max" THEN Max(wires) ELSE Min(wires))
          [] OTHER -> CASE sample = "min" -> 0
                        [] sample = "max" -> IF f.width > 3 THEN 2147483647 ELSE 256 ^ f.width - 1
                        [] sample = "own" -> (i * 16843009 + 66051) % 256 ^ Min({f.width, 3})

Samples == {"min", "own", "max"}
MessageValue(fields, sample) == [i \in DOMAIN fields |-> FieldValue(fields[i], i, sample)]

(* Requests as the SPI host sends them, with one bit flipped or none. *)
Requests ==
    [prepare |-> [fields |-> UpdatePrepareRequest, type |-> "UpdatePrepareRequest", data |-> <<>>],
     write |-> [fields |-> WriteChunkRequest, type |-> "WriteChunkRequest", data |-> <<90, 0, 255>>],
     info |-> [fields |-> InactiveSegmentsInfoRequest, type |-> "InactiveSegmentsInfoRequest",
               data |-> <<>>],
     reboot |-> [fields |-> RebootRequest, type |-> "RebootRequest", data |-> <<>>]]

RequestBody(r, sample) ==
    <<FirmwareType[r.type]>>
        \o to_wire(r.fields, MessageValue(r.fields, sample), 100).bytes \o r.data
Flipped(bytes, bit) ==
    [i \in DOMAIN bytes |->
        LET b == 2 ^ ((bit - 1) % 8)
        IN  IF i # (bit + 7) \div 8 THEN bytes[i]
            ELSE IF (bytes[i] \div b) % 2 = 1 THEN bytes[i] - b ELSE bytes[i] + b]

NoMessage == [kind |-> "none", name |-> "none", sample |-> "min", bit |-> 0, result |-> <<>>]

WMInit == wm = NoMessage

Message ==
    \E sample \in Samples :
        \/ \E name \in DOMAIN Messages :
              wm' = [NoMessage EXCEPT !.kind = "message", !.name = name, !.sample = sample]
        \/ \E mode \in {"ThreeByte", "FourByte"}, name \in DOMAIN OpCode :
              wm' = [NoMessage EXCEPT !.kind = mode, !.name = name, !.sample = sample]

(* A request is sent, and what arrives is processed. *)
Request ==
    \E sample \in Samples, name \in DOMAIN Requests :
        LET sent == send_data("Firmware", RequestBody(Requests[name], sample))
        IN  \E bit \in 0 .. 8 * Len(sent) :
              wm' = [kind |-> "request", name |-> name, sample |-> sample, bit |-> bit,
                     result |-> process_spi_payload(IF bit = 0 THEN sent ELSE Flipped(sent, bit))]

WMNext == IF wm = NoMessage THEN Message \/ Request ELSE wm' = NoMessage

(* What is encoded is decoded again, as the comment on WireEnum demands of  *)
(* the enums, for every message of the protocol and every flash header in   *)
(* both address modes: the message takes the length its constant states,    *)
(* does not fit in less, and no proper prefix of it is taken for a message. *)
MessagesRoundTrip ==
    /\ wm.kind = "message" =>
          LET m == Messages[wm.name]
              value == MessageValue(m.fields, wm.sample)
              wire == to_wire(m.fields, value, m.len)
          IN  /\ ~wire.failed /\ Len(wire.bytes) = m.len
              /\ from_wire(m.fields, wire.bytes) = Ok(value, <<>>)
              /\ m.len > 0 => to_wire(m.fields, value, m.len - 1).failed
              /\ \A n \in 0 .. m.len - 1 : ~from_wire(m.fields, SubSeq(wire.bytes, 1, n)).ok
    /\ wm.kind \in {"ThreeByte", "FourByte"} =>
          LET header == [opcode |-> wm.name,
                         address |-> IF has_address(wm.name)
                                     THEN FieldValue(BE(AddressWidth(wm.kind)), 2, wm.sample) ELSE 0]
              wire == header_to_wire(header, wm.kind, 6)
          IN  /\ ~wire.failed
              /\ header_from_wire(wire.bytes, wm.kind) = Ok(header, <<>>)
              /\ \A n \in 0 .. Len(wire.bytes) - 1 :
                    ~header_from_wire(SubSeq(wire.bytes, 1, n), wm.kind).ok

(* A request reaches the operation it names with the values the host put    *)
(* in, and a request damaged in one bit is never carried out: it gets no    *)
(* reply or that of a bad checksum or an unsupported content type, or, when *)
(* its length claims more than was sent, stops in compute_checksum.         *)
DamagedRequestsRefused ==
    wm.kind = "request" =>
        LET r == Requests[wm.name]
        IN  IF wm.bit = 0
            THEN wm.result = <<"request", r.type, MessageValue(r.fields, wm.sample), r.data>>
            ELSE wm.result[1] \notin {"request", "manticore"}

=============================================================================
