--------------------------- MODULE UsbDescriptors ---------------------------
(***************************************************************************)
(* What the control endpoint says: how a SETUP packet is read              *)
(* (SetupRequest of usb/types.rs), which handler of usb/mod.rs it reaches, *)
(* and the bytes of the descriptors a host enumerates the token by.  How   *)
(* the answer travels is UsbControl's.                                     *)
(*                                                                         *)
(* Every answer is put together in one buffer, ep0_in_buffers, over what   *)
(* the previous answer left there: a handler begins with a buffer of which *)
(* nothing is known.  A character of a string is a number that tells its   *)
(* string and its place; the report descriptor is the numbers of its       *)
(* bytes.                                                                  *)
(***************************************************************************)
EXTENDS Integers, Sequences
LOCAL INSTANCE SequencesExt

VARIABLES
    ud_value,    \* configuration_current_value
    ud_sent,     \* history: the last request, and the bytes that answer it
    ud_known     \* history: the length the host was told its descriptor has

udvars == <<ud_value, ud_sent, ud_known>>

Lo(v) == v % 256
Hi(v) == (v \div 256) % 256
Zeros(n) == [i \in 1 .. n |-> 0]

\* Stands for a byte that the request does not determine.
Garbage == 256

\* The bytes of ep0_in_buffers when a handler begins.
ep0_in_buffers == [i \in 1 .. 256 |-> Garbage]

MAX_PACKET_SIZE == 64
STRING_LANG == 0
STRING_VENDOR == 1
STRING_BOARD == 2
STRING_PLATFORM == 3
STRING_INTERFACE2 == 6

Descriptor ==
    [Device |-> 1, Configuration |-> 2, String |-> 3, Interface |-> 4, Endpoint |-> 5,
     DeviceQualifier |-> 6, HidDevice |-> 33, Report |-> 34]

\* from_u8 has no device qualifier.
from_u8(t) ==
    IF t = 6 THEN {"Endpoint"} ELSE { d \in DOMAIN Descriptor : Descriptor[d] = t }

U2F_REPORT_DESCRIPTOR == [i \in 1 .. 34 |-> i]

-----------------------------------------------------------------------------
(* The descriptors, as the bytes into_u8_buf and serialize make of them. *)
DeviceDescriptor(d) ==
    << 18, 1, Lo(d.bcd_usb), Hi(d.bcd_usb), d.class, 0, 0, d.max_packet,
       Lo(d.vendor), Hi(d.vendor), Lo(d.product), Hi(d.product), Lo(d.bcd_device),
       Hi(d.bcd_device), d.i_manufacturer, d.i_product, d.i_serial, d.configurations >>

\* With the identifiers golf2 passes to init.
generate_device_descriptor ==
    DeviceDescriptor([bcd_usb |-> 512, class |-> 0, max_packet |-> MAX_PACKET_SIZE,
        vendor |-> 6353, product |-> 20518, bcd_device |-> 256,
        i_manufacturer |-> STRING_VENDOR, i_product |-> STRING_BOARD,
        i_serial |-> STRING_LANG, configurations |-> 1])

ConfigurationDescriptor(interfaces, string, power) ==
    [length |-> 9, total_length |-> 9, interfaces |-> interfaces, value |-> 1,
     string |-> string, attributes |-> 128, power |-> power]
ConfigurationBytes(c) ==
    << c.length, Descriptor.Configuration, Lo(c.total_length), Hi(c.total_length),
       c.interfaces, c.value, c.string, c.attributes, c.power >>

InterfaceDescriptor(string, which, class, sub_class, protocol) ==
    << 9, 4, which, 0, 2, class, sub_class, protocol, string >>

HidDeviceDescriptor == << 9, Descriptor.HidDevice, Lo(256), Hi(256), 0, 1, 34, Lo(34), Hi(34) >>

EndpointTransferType == [Control |-> 0, Isochronous |-> 1, Bulk |-> 2, Interrupt |-> 3]

\* Into<u8> for EndpointAttributes.
EndpointAttributes(transfer, synchronization, usage) ==
    IF transfer = "Isochronous" THEN EndpointTransferType[transfer]
    ELSE EndpointTransferType[transfer] + 4 * synchronization + 16 * usage

EndpointDescriptor(address, attributes, interval) ==
    << 7, Descriptor.Endpoint, address, attributes, Lo(MAX_PACKET_SIZE), Hi(MAX_PACKET_SIZE),
       interval >>

U2fParts ==
    LET attributes == EndpointAttributes("Interrupt", 0, 0)
    IN  InterfaceDescriptor(STRING_INTERFACE2, 0, 3, 0, 0) \o HidDeviceDescriptor
          \o EndpointDescriptor(1, attributes, 2) \o EndpointDescriptor(129, attributes, 2)

\* Fault: the header is written before the endpoints are counted.
generate_full_configuration_descriptor_early ==
    LET config == ConfigurationDescriptor(1, STRING_PLATFORM, 50)
    IN  ConfigurationBytes([config EXCEPT !.total_length = config.length + Len(U2fParts) - 14])
          \o U2fParts

generate_full_configuration_descriptor ==
    LET config == ConfigurationDescriptor(1, STRING_PLATFORM, 50)
    IN  ConfigurationBytes([config EXCEPT !.total_length = config.length + Len(U2fParts)])
          \o U2fParts

get_configuration_total_length == Len(generate_full_configuration_descriptor)

(* The strings of golf2: the length each one declares, and its characters. *)
StringOf(index, declared, count) ==
    [b_length |-> declared, b_string |-> [i \in 1 .. count |-> 32 * index + i]]
STRINGS ==
    << StringOf(0, 4, 1), StringOf(1, 24, 11), StringOf(2, 14, 6), StringOf(3, 54, 26),
       StringOf(4, 12, 6), StringOf(5, 8, 4), StringOf(6, 20, 9) >>

StringBytes(s) ==
    << s.b_length, Descriptor.String >>
        \o FlattenSeq([i \in 1 .. Len(s.b_string) |-> << Lo(s.b_string[i]), Hi(s.b_string[i]) >>])

-----------------------------------------------------------------------------
(* Writing to the buffer.  A word is written whole: into_u32_buf clears     *)
(* what the last one has beyond the descriptor.                             *)
Put(bytes) == bytes \o SubSeq(ep0_in_buffers, Len(bytes) + 1, Len(ep0_in_buffers))
PutWords(bytes) == Put(bytes \o Zeros((4 - (Len(bytes) % 4)) % 4))


\* The length counts bytes, the copy counts words: three times as many bytes
\* of whatever lies behind the value go into the buffer too.
serialize(bytes) ==
    LET length == IF Len(ep0_in_buffers) < Len(bytes) THEN Len(ep0_in_buffers) ELSE Len(bytes)
    IN  [buf |-> Put(SubSeq(bytes, 1, length) \o [i \in 1 .. 3 * length |-> Garbage]),
         len |-> length]

\* How a handler ends: with `len` bytes of the buffer for the host, or without.
Reply(r, kind, buf, len) ==
    [kind |-> kind, buf |-> buf, len |-> IF len < r.w_length THEN len ELSE r.w_length]
Ends(kind) == [kind |-> kind, buf |-> ep0_in_buffers, len |-> 0]

(* A SETUP packet of eight bytes. *)
SetupRequest(p) ==
    [bm_request_type |-> p[1], b_request |-> p[2], w_value |-> p[3] + 256 * p[4],
     w_index |-> p[5] + 256 * p[6], w_length |-> p[7] + 256 * p[8]]

data_direction(r) == IF r.bm_request_type < 128 THEN "HostToDevice" ELSE "DeviceToHost"
req_type(r) == <<"Standard", "Class", "Vendor", "Reserved">>[(r.bm_request_type % 128) \div 32 + 1]
recipient(r) ==
    LET val == r.bm_request_type % 32
    IN  IF val > 3 THEN "Reserved" ELSE <<"Device", "Interface", "Endpoint", "Other">>[val + 1]
request(r) ==
    LET Named == [GetStatus |-> 0, ClearFeature |-> 1, SetFeature |-> 3, SetAddress |-> 5,
                  GetDescriptor |-> 6, SetDescriptor |-> 7, GetConfiguration |-> 8,
                  SetConfiguration |-> 9, GetInterface |-> 10, SetInterface |-> 11,
                  SynchFrame |-> 12]
        names == { n \in DOMAIN Named : Named[n] = r.b_request }
    IN  IF names # {} THEN CHOOSE n \in names : TRUE
        ELSE IF r.b_request \in {2, 4} THEN "Reserved" ELSE "Undefined"

-----------------------------------------------------------------------------
(* The handlers. *)
GetDescriptor(r) ==
    LET type == Hi(r.w_value)
        index == Lo(r.w_value)
        device == serialize(generate_device_descriptor)
        interface == InterfaceDescriptor(STRING_INTERFACE2, 0, 3, 0, 0)
    IN  CASE type = Descriptor.Device -> Reply(r, "read", device.buf, device.len)
          [] type = Descriptor.Configuration ->
                Reply(r, "read",
                      Put(generate_full_configuration_descriptor
                            \o Zeros(64 - get_configuration_total_length)),
                      get_configuration_total_length)
          [] type = Descriptor.Interface -> Reply(r, "read", PutWords(interface), Len(interface))
          [] type = Descriptor.String ->
                IF index >= Len(STRINGS) THEN Ends("fatal")
                ELSE LET bytes == StringBytes(STRINGS[index + 1])
                     IN  Reply(r, "read", PutWords(bytes), Len(bytes))
          [] OTHER -> Ends("refused")

handle_standard_device_to_host(r) ==
    LET value == serialize(<<ud_value>>)
    IN  CASE request(r) = "GetDescriptor" -> GetDescriptor(r)
          [] request(r) = "GetConfiguration" -> Reply(r, "read", value.buf, value.len)
          [] request(r) = "GetStatus" ->
                [kind |-> "status", buf |-> Put(Zeros(4)), len |-> 0]
          [] OTHER -> Ends("refused")

\* A report request that is too short is stalled and then answered; one that
\* is too long reads past the end of the report descriptor.
handle_standard_interface_to_host(r) ==
    IF request(r) = "GetDescriptor" /\ from_u8(Hi(r.w_value)) = {"Report"}
    THEN LET whole == Len(U2F_REPORT_DESCRIPTOR)
             bytes == SubSeq(U2F_REPORT_DESCRIPTOR, 1, r.w_length)
         IN  IF r.w_length > whole THEN Ends("fatal")
             ELSE Reply(r, IF r.w_length = whole THEN "read" ELSE "misfit",
                        PutWords(bytes), r.w_length)
    ELSE Ends("refused")

handle_standard_no_data_phase(r) ==
    Ends(IF request(r) \in {"SetAddress", "SetConfiguration"} THEN "set" ELSE "refused")

\* Requests that set something of an interface, and those of the HID class.
Unsupported == Ends("refused")

Handled(r) ==
    LET in == data_direction(r) = "DeviceToHost"
        type == req_type(r)
        to == recipient(r)
    IN  CASE type = "Standard" /\ to = "Device" /\ in -> handle_standard_device_to_host(r)
          [] type = "Standard" /\ to = "Device" /\ ~in /\ r.w_length > 0 -> Ends("fatal")
          [] type = "Standard" /\ to = "Device" /\ ~in /\ r.w_length = 0 ->
                handle_standard_no_data_phase(r)
          [] type = "Standard" /\ to = "Interface" /\ in -> handle_standard_interface_to_host(r)
          [] type = "Standard" /\ to = "Interface" /\ ~in -> Unsupported
          [] type = "Class" /\ to = "Interface" -> Unsupported
          [] OTHER -> Ends("ignored")

(* What a host learns from the header of a descriptor it reads. *)
Told(r, bytes) ==
    IF r.bm_request_type = 128 /\ request(r) = "GetDescriptor" /\ Len(bytes) >= 4
    THEN <<r.w_value, IF Hi(r.w_value) = Descriptor.Configuration
                      THEN bytes[3] + 256 * bytes[4] ELSE bytes[1]>>
    ELSE ud_known

NothingSent == [request |-> SetupRequest(Zeros(8)), kind |-> "none", bytes |-> <<>>]

UDInit ==
    /\ ud_value = 0
    /\ ud_sent = NothingSent
    /\ ud_known = <<0, 0>>

(* handle_setup, once the packet is in its buffer. *)
HandleRequest(p) ==
    LET r == SetupRequest(p)
        answer == Handled(r)
        bytes == SubSeq(answer.buf, 1, answer.len)
    IN  /\ ud_sent.kind # "fatal"
        /\ ud_value' = IF answer.kind = "set" /\ request(r) = "SetConfiguration"
                       THEN Lo(r.w_value) ELSE ud_value
        /\ ud_sent' = [request |-> r, kind |-> answer.kind, bytes |-> bytes]
        /\ ud_known' = Told(r, bytes)

(* The host (external).  It reads the header of a descriptor, more than     *)
(* there can be, or as much as it was told.                                 *)
Ask(type, req, value, length) ==
    <<type, req, Lo(value), Hi(value), 0, 0, Lo(length), Hi(length)>>
Readable == { 256 * type : type \in {1, 2, 4, 6} } \union { 768 + index : index \in 0 .. 7 }
ReadDescriptor(value) ==
    { Ask(128, 6, value, length) :
        length \in {9, 255} \union (IF ud_known[1] = value THEN {ud_known[2]} ELSE {}) }
OtherRequests ==
    { Ask(129, 6, 256 * 34, length) : length \in {9, 34, 64} }
      \union { Ask(129, 6, 256 * 6, 9), Ask(129, 10, 0, 1), Ask(128, 8, 0, 1), Ask(128, 0, 0, 2),
               Ask(128, 3, 0, 0), Ask(0, 5, 7, 0), Ask(0, 9, 1, 0), Ask(0, 9, 0, 0), Ask(0, 3, 1, 0),
               Ask(0, 7, 0, 8), Ask(1, 11, 0, 0), Ask(33, 10, 0, 0), Ask(161, 1, 0, 8),
               Ask(192, 1, 0, 8), Ask(2, 1, 0, 0) }

\* The token is unplugged after a panic, and plugged in again.
Replug ==
    /\ ud_sent.kind = "fatal"
    /\ ud_value' = 0
    /\ ud_sent' = NothingSent /\ ud_known' = <<0, 0>>

UDNext ==
    \/ \E value \in Readable : \E p \in ReadDescriptor(value) : HandleRequest(p)
    \/ \E p \in OtherRequests : HandleRequest(p)
    \/ Replug

-----------------------------------------------------------------------------
UDTypeOK ==
    /\ ud_value \in 0 .. 255
    /\ ud_sent.kind \in {"none", "read", "status", "set", "refused", "misfit", "ignored", "fatal"}

\* The places in a configuration where its descriptors begin, going by lengths.
Begins(bytes) ==
    LET at[n \in 0 .. 5] == IF n = 0 THEN 1
                            ELSE IF at[n - 1] > Len(bytes) THEN at[n - 1]
                            ELSE at[n - 1] + bytes[at[n - 1]]
    IN  at

ConfigurationSound(bytes) ==
    LET at == Begins(bytes)
        types == [n \in 1 .. 5 |-> bytes[at[n - 1] + 1]]
    IN  /\ at[5] = Len(bytes) + 1
        /\ types = <<2, 4, 33, 5, 5>>
        /\ bytes[at[1] + 4] = 2
        /\ bytes[at[2] + 7] + 256 * bytes[at[2] + 8] = Len(U2F_REPORT_DESCRIPTOR)
        /\ {bytes[7], bytes[at[1] + 8]} \subseteq 0 .. Len(STRINGS) - 1

(* Whatever was put in the buffer before, the host reads what it asked for: *)
(* one packet, with nothing but bytes of the descriptor it named or of the  *)
(* configuration that was set last.  A host that asks for as much as a      *)
(* header told it gets the whole descriptor, and a whole configuration      *)
(* divides at its own lengths into the interface, the HID descriptor and    *)
(* the two endpoints, with the length of the report descriptor the kernel   *)
(* insists on.  Excepted are strings 4 and 5 of golf2, which declare a      *)
(* character less than they have.                                           *)
DescriptorsSound ==
    LET r == ud_sent.request
        bytes == ud_sent.bytes
        type == Hi(r.w_value)
        index == Lo(r.w_value)
        whole == ud_known[1] = r.w_value /\ r.w_length >= ud_known[2]
    IN  ud_sent.kind = "read" =>
          /\ Len(bytes) <= MAX_PACKET_SIZE /\ Len(bytes) <= r.w_length
          /\ \A i \in DOMAIN bytes : bytes[i] \in 0 .. 255
          /\ request(r) = "GetConfiguration" => bytes = <<ud_value>>
          /\ request(r) = "GetDescriptor" /\ recipient(r) = "Device" =>
                /\ bytes[2] = type
                /\ type = Descriptor.String =>
                      \A i \in 1 .. (Len(bytes) \div 2 - 1) :
                          bytes[2 * i + 1] = STRINGS[index + 1].b_string[i]
                /\ whole /\ ~(type = Descriptor.String /\ index \in {4, 5}) =>
                      /\ Len(bytes) = ud_known[2]
                      /\ type = Descriptor.Configuration => ConfigurationSound(bytes)

=============================================================================
