----------------------------- MODULE SpiDevice ------------------------------
(***************************************************************************)
(* The SPI device of the H1 as a flash chip (kernel/h1/src/spi_device.rs): *)
(* the command memory that it fills and the driver drains, the passthrough *)
(* filter, the op codes that set BUSY, and the tables by which the SPI     *)
(* host finds out what it talks to (otpilot/src/sfdp.rs).                  *)
(***************************************************************************)
EXTENDS SpiMessages
LOCAL INSTANCE Bitwise
LOCAL INSTANCE SequencesExt

CONSTANTS
    CmdBufLen,     \* bytes of eeprom_cmd_buf, 512 in the hardware
    ReadBufLen     \* bytes of the driver's buffer

VARIABLES
    cm_buf,        \* eeprom_cmd_buf
    cm_wptr,       \* the hardware's write pointer, FULL bit on top
    cm_rptr,       \* cmd_mem_rptr
    cm_fifo,       \* cmd_addr_fifo: the end of every command
    cm_next,       \* the next byte on the line: bytes are numbered
    cm_sent,       \* history: the commands in the memory
    cm_got,        \* history: what get_received_data returned, and the command
    td             \* the table entry under consideration

cmvars == <<cm_buf, cm_wptr, cm_rptr, cm_fifo, cm_next, cm_sent, cm_got>>

-----------------------------------------------------------------------------
(* The command memory.  A pointer is VALUE and, above it, FULL, which flips *)
(* whenever VALUE wraps.                                                    *)
VALUE(ptr) == ptr % CmdBufLen
FULL(ptr) == ptr \div CmdBufLen
Wrap(ptr) == ptr % (2 * CmdBufLen)

CMInit ==
    /\ cm_buf = [i \in 0 .. CmdBufLen - 1 |-> 0]
    /\ cm_wptr = 0 /\ cm_rptr = 0 /\ cm_fifo = <<>> /\ cm_next = 0
    /\ cm_sent = <<>> /\ cm_got = <<<<>>, <<>>>>

(* The host sends a command of n bytes while there is room for it. *)
HostCommand(n) ==
    LET cmd == [i \in 1 .. n |-> (cm_next + i - 1) % (2 * CmdBufLen)]
    IN  /\ Wrap(cm_wptr - cm_rptr) + n <= CmdBufLen
        /\ cm_buf' = [a \in DOMAIN cm_buf |->
                        IF VALUE(a - cm_wptr) < n THEN cmd[VALUE(a - cm_wptr) + 1] ELSE cm_buf[a]]
        /\ cm_wptr' = Wrap(cm_wptr + n)
        /\ cm_fifo' = Append(cm_fifo, cm_wptr')
        /\ cm_next' = (cm_next + n) % (2 * CmdBufLen)
        /\ cm_sent' = Append(cm_sent, cmd)
        /\ cm_got' = <<<<>>, <<>>>>
        /\ UNCHANGED cm_rptr

(* Bytes from one address to before another, cut to the reader's buffer. *)
Slice(from, to) == [i \in 1 .. to - from |-> cm_buf[from + i - 1]]
Cut(bytes) == SubSeq(bytes, 1, IF Len(bytes) < ReadBufLen THEN Len(bytes) ELSE ReadBufLen)

(* Fault: a command that fills the memory is taken for none. *)
Received_wrapped(start, end) ==
    IF VALUE(start) < VALUE(end) THEN Cut(Slice(VALUE(start), VALUE(end)))
    ELSE IF VALUE(start) > VALUE(end)
    THEN Cut(Slice(VALUE(start), CmdBufLen) \o Slice(0, VALUE(end)))
    ELSE <<>>

Received(start, end) ==
    IF VALUE(start) < VALUE(end) THEN Cut(Slice(VALUE(start), VALUE(end)))
    ELSE IF FULL(start) # FULL(end)
    THEN Cut(Slice(VALUE(start), CmdBufLen) \o Slice(0, VALUE(end)))
    ELSE <<>>

get_received_data ==
    /\ cm_fifo # <<>>
    /\ cm_got' = <<Received(cm_rptr, Head(cm_fifo)), Head(cm_sent)>>
    /\ cm_rptr' = Head(cm_fifo)
    /\ cm_fifo' = Tail(cm_fifo) /\ cm_sent' = Tail(cm_sent)
    /\ UNCHANGED <<cm_buf, cm_wptr, cm_next>>

CMNext == (\E n \in 1 .. CmdBufLen : HostCommand(n)) \/ get_received_data

(* Every command comes out of the memory as it went in, oldest first and    *)
(* cut to the buffer, wherever in the memory it wraps and also when it      *)
(* fills the memory, where only the FULL bits tell it from none.            *)
CommandsComeOut == cm_got[1] = Cut(cm_got[2])

-----------------------------------------------------------------------------
(* Fault: the rule for 0x20 to 0x3f matches only 0x20 to 0x2f. *)
common_filters_narrow ==
    <<<<OpCode.NormalRead, 16, 240>>, <<OpCode.FastReadDualOutput, 32, 240>>,
      <<OpCode.NormalRead, 64, 192>>>>

(* init_passthrough_filters: the command to force, the value to match and   *)
(* the bits to compare.  The rule whose comment says 0xb8 to 0xbf matches   *)
(* 0xb0 to 0xb7.                                                            *)
common_filters ==
    <<<<OpCode.NormalRead, 16, 240>>, <<OpCode.FastReadDualOutput, 32, 224>>,
      <<OpCode.NormalRead, 64, 192>>>>
fastread_filters(config) ==
    IF ~config.fastread4b THEN <<<<OpCode.FastRead, 8, 248>>>>
    ELSE <<<<OpCode.FastRead, 8, 252>>, <<OpCode.FastRead4B, 12, 252>>>>
enterexit_filters(config) ==
    IF ~config.enterexit4b THEN <<<<OpCode.NormalRead, 128, 128>>>>
    ELSE <<<<OpCode.ReadJedec, 128, 224>>, <<160, 160, 240>>,
           <<OpCode.Enter4ByteAddressMode, 176, 248>>, <<191, 176, 248>>, <<200, 192, 224>>,
           <<OpCode.Exit4ByteAddressMode, 224, 240>>, <<255, 240, 240>>>>
filters(config) ==
    <<<<OpCode.NormalRead, 0, 248>>>> \o fastread_filters(config) \o common_filters
        \o enterexit_filters(config)

(* What the hardware may send on for an op code: a matching rule forces its *)
(* command, whichever applies when several match; others pass unchanged.    *)
Forwarded(config, op) ==
    LET rules == filters(config)
        matching == {i \in DOMAIN rules : (op & rules[i][3]) = rules[i][2]}
    IN  IF matching = {} THEN {op} ELSE {rules[i][1] : i \in matching}

(* init_busy_opcodes. *)
busy_opcodes(config) ==
    (IF config.enterexit4b
     THEN <<OpCode.Enter4ByteAddressMode, OpCode.Exit4ByteAddressMode>> ELSE <<>>)
        \o <<OpCode.WriteStatusRegister>>

(* write_register_data, and put_send_data for the RAM: ESIZE, or the data   *)
(* and all ones after it.                                                   *)
write_register_data(size, data) ==
    IF Len(data) > size THEN <<>>
    ELSE data \o [i \in 1 .. size - Len(data) |-> 255]

GenericRamLen == 2048
put_send_data(data) == write_register_data(GenericRamLen, data)

(* configure_addresses: the pages of the RAM. *)
PAGE_SHIFT == 9
ram_virtual_pages(base) == { base \div 2 ^ PAGE_SHIFT + i : i \in 0 .. 3 }

-----------------------------------------------------------------------------
(* get_table.  A parameter header is id, minor, major, length in words,     *)
(* pointer and the high byte of the id.                                     *)
SfdpHeader == <<83, 70, 68, 80, 5, 1, 1, 255>>
BasicHeader == <<0, 5, 1, 16, 24, 0, 0, 255>>
GoogleHeader == <<38, 0, 1, 4, 88, 0, 0, 9>>

Bits(pairs) == FoldLeft(LAMBDA v, p : v + p[1] * 2 ^ p[2], 0, pairs)

address_bytes(mode, switch) ==
    IF mode = "FourByte" THEN 2 ELSE IF switch THEN 1 ELSE 0

(* Words 1 to 9 of the basic table; size is below 2^31. *)
basic_1_to_9(size, mode, switch) ==
    <<Bits(<<<<1, 0>>, <<1, 2>>, <<1, 4>>>>), 32, Bits(<<<<address_bytes(mode, switch), 1>>>>), 0>>
        \o LeBytes(size, 4)
        \o <<0, 0, 0, 0>> \o <<8, 59, 0, 0>> \o <<238, 255, 255, 255>> \o <<255, 255, 0, 0>>
        \o <<255, 255, 0, 0>> \o <<12, 32, 0, 0>> \o <<0, 0, 0, 0>>

(* Words 10 to 15: times, suspend, power down and status polling. *)
basic_10_to_11 ==
    <<1, Bits(<<<<2, 1>>>>), 0, 0>>
        \o <<Bits(<<<<1, 0>>, <<8, 4>>>>), Bits(<<<<15, 0>>, <<1, 5>>, <<3, 6>>>>),
             Bits(<<<<3, 0>>, <<1, 2>>, <<15, 3>>, <<1, 7>>>>), Bits(<<<<1, 0>>, <<3, 5>>, <<1, 7>>>>)>>
basic_12_to_15 ==
    <<0, 1, 0, 128>> \o <<0, 0, 0, 0>> \o <<Bits(<<<<3, 0>>, <<1, 2>>>>), 0, 0, 128>>
        \o <<0, 0, 0, 255>>


(* Word 16: how to leave and how to enter the 4-byte mode. *)
basic_16(mode, switch) ==
    <<Bits(<<<<2, 0>>, <<1, 7>>>>), IF switch THEN 2 ^ 6 ELSE 0,
      IF mode = "ThreeByte" THEN 2 ^ 3 + 2 ^ 5 ELSE 0,
      IF mode = "FourByte" THEN 2 ^ 6 ELSE IF switch THEN 1 ELSE 0>>

google_table(offset, size, capabilities) ==
    <<71, 79, 79, 71>> \o LeBytes(offset, 4) \o LeBytes(size, 4) \o LeBytes(capabilities, 4)

get_table(len, image_size_bits, mode, switch, offset, size, capabilities) ==
    LET sfdp == SfdpHeader \o BasicHeader \o GoogleHeader
                  \o basic_1_to_9(image_size_bits, mode, switch)
                  \o basic_10_to_11 \o basic_12_to_15 \o basic_16(mode, switch)
                  \o google_table(offset, size, capabilities)
    IN  IF len < Len(sfdp) THEN <<>> ELSE sfdp \o [i \in 1 .. len - Len(sfdp) |-> 255]

(* run of otpilot: what it passes to get_table and configure_addresses. *)
SPI_FLASH_SIZE == 67108864
SPI_MAILBOX_ADDRESS == 524288
MAX_READ_BUFFER_SIZE == 512
is_mailbox_address(a) == SPI_MAILBOX_ADDRESS <= a /\ a < SPI_MAILBOX_ADDRESS + MAX_READ_BUFFER_SIZE

-----------------------------------------------------------------------------
(* The filter for every op code in every configuration, and the table for   *)
(* every start of the device, in registers with and without room for it.    *)
NoTable == [kind |-> "none", fastread4b |-> FALSE, enterexit4b |-> FALSE, op |-> 0, size |-> 0,
            table |-> <<>>]
TDInit == td = NoTable

Filter ==
    \E fast, switch \in BOOLEAN, op \in Byte :
        td' = [NoTable EXCEPT !.kind = "filter", !.fastread4b = fast, !.enterexit4b = switch,
                              !.op = op]

Table ==
    \E mode \in {"ThreeByte", "FourByte"}, switch \in BOOLEAN, size \in {103, 128} :
        td' = [NoTable EXCEPT !.kind = mode, !.enterexit4b = switch, !.size = size,
                  !.table = get_table(size, SPI_FLASH_SIZE * 8, mode, switch,
                                      SPI_MAILBOX_ADDRESS, MAX_READ_BUFFER_SIZE, 0)]

TDNext == IF td = NoTable THEN Filter \/ Table ELSE td' = NoTable

Modifying ==
    { OpCode[op] : op \in {"WriteStatusRegister", "WriteDisable", "WriteEnable", "WriteSuspend",
        "WriteResume", "SectorErase", "BlockErase32KB", "BlockErase64KB", "ChipErase",
        "ChipErase2", "PageProgram"} }

(* Whatever op code the SPI host sends, what the filter lets through to the *)
(* flash chip changes nothing there but the address mode, in every          *)
(* configuration; reading commands pass as they are, the rules fit into the *)
(* 16 registers, and the mode is changed only where software is told of it. *)
PassthroughReadsOnly ==
    td.kind = "filter" =>
        LET sent_on == Forwarded(td, td.op)
        IN  /\ Len(filters(td)) <= 16
            /\ sent_on \cap Modifying = {}
            /\ td.op \in {OpCode.NormalRead, OpCode.FastRead, OpCode.FastReadDualOutput} =>
                  sent_on = {td.op}
            /\ td.fastread4b /\ td.op = OpCode.FastRead4B => sent_on = {td.op}
            /\ \A op \in {OpCode.Enter4ByteAddressMode, OpCode.Exit4ByteAddressMode} \cap sent_on :
                  \E i \in DOMAIN busy_opcodes(td) : busy_opcodes(td)[i] = op

(* What a host reads from the SFDP registers, following the pointers of the *)
(* table: both parameter tables lie behind the headers and inside the data  *)
(* and do not overlap, the two places that state the erase command agree,   *)
(* and so do the three that state the address mode and how to change it;    *)
(* the mailbox it is pointed to is the one the processor answers, and lies  *)
(* in the RAM.  Nothing is written where the table does not fit.            *)
SfdpConsistent ==
    /\ td.size = 103 => td.table = <<>>
    /\ td.size = 128 =>
        LET table == write_register_data(128, td.table)
            At(i, n) == LeValue(SubSeq(table, i + 1, i + n))
            headers == [i \in 0 .. table[7] |->
                          [start |-> At(8 + 8 * i + 4, 3), words |-> table[8 + 8 * i + 4]]]
            basic == headers[0].start
            google == headers[1].start
            mailbox == At(google + 4, 4)
            end == mailbox + At(google + 8, 4)
            modes == (table[basic + 3] \div 2) % 4
            enter == table[basic + 64]
            exit == (table[basic + 62] \div 64) % 2 = 1
        IN  /\ \A i \in DOMAIN headers :
                  /\ headers[i].start >= 8 * (table[7] + 2)
                  /\ headers[i].start + 4 * headers[i].words <= 104
            /\ basic + 4 * headers[0].words <= google
            /\ table[basic + 2] = OpCode.SectorErase /\ table[basic + 30] = OpCode.SectorErase
            /\ table[basic + 14] = OpCode.FastReadDualOutput
            /\ modes = 2 <=> enter = 64
            /\ td.kind = "ThreeByte" => (modes = 1 <=> enter = 1) /\ (modes = 1 <=> exit)
            /\ \A a \in mailbox - 1 .. end : is_mailbox_address(a) <=> mailbox <= a /\ a < end
            /\ \A a \in {mailbox, mailbox + GenericRamLen - 1} :
                  a \div 2 ^ PAGE_SHIFT \in ram_virtual_pages(SPI_MAILBOX_ADDRESS)
            /\ Len(put_send_data(table)) = GenericRamLen

=============================================================================
