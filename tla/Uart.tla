-------------------------------- MODULE Uart --------------------------------
(***************************************************************************)
(* The UART driver (kernel/h1/src/uart.rs) between a client and the FIFOs  *)
(* of the hardware.  Bytes are numbered: the client transmits 1, 2, 3, ... *)
(* and the line brings 1, 2, 3, ... of its own.                            *)
(*                                                                         *)
(* The hardware raises the transmit interrupt when its FIFO has drained to *)
(* a threshold of one byte and the receive interrupt for every byte, and   *)
(* loses a byte that arrives at a full FIFO.                               *)
(***************************************************************************)
EXTENDS Naturals, Sequences

CONSTANTS
    FifoDepth,   \* bytes a FIFO holds
    TxLens,      \* lengths of transmissions
    RxLens,      \* lengths of receive buffers
    MaxBytes     \* bound: bytes in each direction

VARIABLES
    tx,          \* tx_buffer held or not, its first byte, tx_cursor, tx_limit
    tx_fifo, tx_pending,     \* of the hardware
    tx_given,    \* history: bytes of all accepted transmissions
    tx_wire,     \* history: bytes that left on the line, in order
    rx,          \* rx_buffer held or not, its content (rx_cursor), rx_limit
    rx_fifo, rx_pending,     \* of the hardware
    rx_line,     \* history: bytes that came over the line
    rx_lost,     \* history: bytes dropped by the hardware or by a purge
    rx_got       \* history: the last byte passed to the client

txvars == <<tx, tx_fifo, tx_pending, tx_given, tx_wire>>
rxvars == <<rx, rx_fifo, rx_pending, rx_line, rx_lost, rx_got>>
uartvars == <<txvars, rxvars>>

NoTx == [held |-> FALSE, first |-> 0, cursor |-> 0, limit |-> 0]
NoRx == [held |-> FALSE, content |-> <<>>, limit |-> 0]

(* set_receive_client has purged the FIFO and enabled reception. *)
UAInit ==
    /\ tx = NoTx /\ tx_fifo = <<>> /\ tx_pending = FALSE /\ tx_given = 0 /\ tx_wire = 0
    /\ rx = NoRx /\ rx_fifo = <<>> /\ rx_pending = FALSE
    /\ rx_line = 0 /\ rx_lost = {} /\ rx_got = 0

-----------------------------------------------------------------------------
(* Fault: the cursor stays behind by one when the FIFO fills up. *)
WriteFifoAgain(t, fifo) ==
    LET n == IF t.limit - t.cursor < FifoDepth - Len(fifo) THEN t.limit - t.cursor
             ELSE FifoDepth - Len(fifo)
    IN  <<[t EXCEPT !.cursor = @ + (IF t.cursor + n = t.limit THEN n ELSE IF n = 0 THEN 0 ELSE n - 1)],
          fifo \o [i \in 1 .. n |-> t.first + t.cursor + i - 1]>>

(* send_remaining_bytes with something left: fill the FIFO. *)
WriteFifo(t, fifo) ==
    LET n == IF t.limit - t.cursor < FifoDepth - Len(fifo) THEN t.limit - t.cursor
             ELSE FifoDepth - Len(fifo)
    IN  <<[t EXCEPT !.cursor = @ + n], fifo \o [i \in 1 .. n |-> t.first + t.cursor + i - 1]>>

(* transmit_buffer while no buffer is held; otherwise it returns EBUSY.     *)
(* send_remaining_bytes of nothing does not enable the interrupt.           *)
transmit_buffer(len) ==
    LET t == [held |-> TRUE, first |-> tx_given + 1, cursor |-> 0, limit |-> len]
        written == WriteFifo(t, tx_fifo)
    IN  /\ ~tx.held /\ tx_given + len <= MaxBytes
        /\ tx' = written[1] /\ tx_fifo' = written[2]
        /\ tx_given' = tx_given + len
        /\ UNCHANGED <<tx_pending, tx_wire, rxvars>>

(* handle_tx_interrupt: the next bytes, or the buffer goes back to its      *)
(* client, which may transmit again in a step of its own.                   *)
handle_tx_interrupt ==
    /\ tx_pending
    /\ tx_pending' = FALSE
    /\ IF tx.held /\ tx.cursor = tx.limit
       THEN tx' = NoTx /\ UNCHANGED tx_fifo
       ELSE LET written == WriteFifo(tx, tx_fifo)
            IN  tx' = written[1] /\ tx_fifo' = written[2]
    /\ UNCHANGED <<tx_given, tx_wire, rxvars>>

(* The hardware sends a byte. *)
TxByte ==
    /\ tx_fifo # <<>>
    /\ tx_fifo' = Tail(tx_fifo)
    /\ tx_wire' = IF Head(tx_fifo) = tx_wire + 1 THEN tx_wire + 1 ELSE MaxBytes + 1
    /\ tx_pending' = (tx_pending \/ Len(tx_fifo) <= 2)
    /\ UNCHANGED <<tx, tx_given, rxvars>>

-----------------------------------------------------------------------------
(* Fault: bytes that wait in the FIFO are left to the next interrupt. *)
NoPendingBytes(r, fifo) == [fill |-> <<>>, rest |-> fifo]

(* read_rx_fifo moves bytes to the buffer up to its limit. *)
ReadFifo(r, fifo) ==
    LET n == IF Len(fifo) < r.limit - Len(r.content) THEN Len(fifo) ELSE r.limit - Len(r.content)
    IN  [fill |-> SubSeq(fifo, 1, n), rest |-> SubSeq(fifo, n + 1, Len(fifo))]

(* ... and a full buffer goes to the client; one of length 0 never does. *)
read_rx_fifo(r, read) ==
    LET filled == [r EXCEPT !.content = @ \o read.fill]
    IN  IF r.limit > 0 /\ Len(filled.content) >= r.limit
        THEN rx' = NoRx /\ rx_got' = filled.content[r.limit]
        ELSE rx' = filled /\ UNCHANGED rx_got

(* receive_buffer while no buffer is held; otherwise it returns EBUSY. *)
receive_buffer(len) ==
    LET r == [held |-> TRUE, content |-> <<>>, limit |-> len]
        read == ReadFifo(r, rx_fifo)
    IN  /\ ~rx.held
        /\ read_rx_fifo(r, read)
        /\ rx_fifo' = read.rest
        /\ UNCHANGED <<rx_pending, rx_line, rx_lost, txvars>>

handle_rx_interrupt ==
    /\ rx_pending
    /\ rx_pending' = FALSE
    /\ IF rx.held
       THEN LET read == ReadFifo(rx, rx_fifo)
            IN  read_rx_fifo(rx, read) /\ rx_fifo' = read.rest
       ELSE UNCHANGED <<rx, rx_fifo, rx_got>>
    /\ UNCHANGED <<rx_line, rx_lost, txvars>>

(* receive_abort: the buffer goes back with ECANCEL, what is in it included. *)
receive_abort ==
    /\ rx.held
    /\ rx' = NoRx
    /\ rx_got' = IF rx.content = <<>> THEN rx_got ELSE rx.content[Len(rx.content)]
    /\ UNCHANGED <<rx_fifo, rx_pending, rx_line, rx_lost, txvars>>

(* set_receive_client purges the FIFO and enables the interrupt. *)
set_receive_client ==
    /\ rx_fifo' = <<>>
    /\ rx_lost' = rx_lost \union {rx_fifo[i] : i \in 1 .. Len(rx_fifo)}
    /\ UNCHANGED <<rx, rx_pending, rx_line, rx_got, txvars>>

(* A byte comes over the line. *)
RxByte ==
    /\ rx_line < MaxBytes
    /\ rx_line' = rx_line + 1
    /\ rx_pending' = TRUE
    /\ IF Len(rx_fifo) < FifoDepth
       THEN rx_fifo' = Append(rx_fifo, rx_line + 1) /\ UNCHANGED rx_lost
       ELSE rx_lost' = rx_lost \union {rx_line + 1} /\ UNCHANGED rx_fifo
    /\ UNCHANGED <<rx, rx_got, txvars>>

UANext ==
    \/ \E len \in TxLens : transmit_buffer(len)
    \/ handle_tx_interrupt
    \/ TxByte
    \/ \E len \in RxLens : receive_buffer(len)
    \/ handle_rx_interrupt
    \/ receive_abort
    \/ set_receive_client
    \/ RxByte

(* The hardware sends what it has and interrupts are served. *)
UAFairness ==
    /\ WF_uartvars(TxByte)
    /\ WF_uartvars(handle_tx_interrupt)
    /\ WF_uartvars(handle_rx_interrupt)

-----------------------------------------------------------------------------
UATypeOK ==
    /\ tx.cursor <= tx.limit /\ Len(rx.content) <= rx.limit
    /\ Len(tx_fifo) <= FifoDepth /\ Len(rx_fifo) <= FifoDepth
    /\ tx_given <= MaxBytes /\ rx_line <= MaxBytes

Consecutive(s, first) == \A i \in 1 .. Len(s) : s[i] = first + i - 1

(* No byte is lost, repeated or reordered between the client's buffers and  *)
(* the line: the FIFO continues what is on the wire, the cursor continues   *)
(* the FIFO, and on the way in whatever the hardware did not drop or a      *)
(* purge did not discard reaches the client in order.                       *)
BytesConserved ==
    /\ tx_wire + Len(tx_fifo) + (tx.limit - tx.cursor) = tx_given
    /\ Consecutive(tx_fifo, tx_wire + 1)
    /\ LET s == rx.content \o rx_fifo
       IN  \A b \in (rx_got + 1) .. rx_line :
              b \in rx_lost \/ \E i \in 1 .. Len(s) : s[i] = b
    /\ \A i, j \in 1 .. Len(rx.content \o rx_fifo) :
          i < j => (rx.content \o rx_fifo)[i] < (rx.content \o rx_fifo)[j]

(* A receive buffer never waits for bytes that are already there: they are  *)
(* read at once when the buffer is given, or their interrupt is pending.    *)
NoLostWakeup == rx.held /\ rx_fifo # <<>> /\ Len(rx.content) < rx.limit => rx_pending

(* A buffer given to transmit_buffer; for one of length zero no interrupt   *)
(* is enabled, and it blocks the UART.                                      *)
Transmitting == tx.held /\ tx.limit > 0

=============================================================================
