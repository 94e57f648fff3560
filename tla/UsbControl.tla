----------------------------- MODULE UsbControl -----------------------------
(***************************************************************************)
(* Endpoint 0 of the USB device (kernel/h1/src/usb/mod.rs): the control    *)
(* transfers with which a host enumerates the chip.                        *)
(*                                                                         *)
(* The driver keeps two OUT descriptors and swaps them whenever one is     *)
(* filled, so that a SETUP packet can arrive while the previous one is     *)
(* answered.  The handler learns what happened from two interrupt bits     *)
(* that the controller raises at different moments: XferCompl when a       *)
(* packet has been stored, SetUp when the host has gone on to the next     *)
(* stage.  They may be seen one after the other (cases A and B of the      *)
(* driver's table) or together (case C).                                   *)
(*                                                                         *)
(* The host and the controller are external: they do what the driver's     *)
(* comments and register writes take for granted.  One interrupt handler   *)
(* runs to its end between two steps of the bus.                           *)
(***************************************************************************)
EXTENDS Naturals, FiniteSets

CONSTANTS
    Ids                 \* Setups are told apart by their number modulo Ids.

ASSUME IdsAssumption == Ids \in Nat /\ Ids > 1

VARIABLES
    state,              \* USBState of the driver.
    next_ep0_out_idx,   \* The descriptor that receives the next packet.
    last_ep0_out_idx,   \* The descriptor that received the last packet.
    ep0_out,            \* The two OUT descriptors, with their buffers.
    ep0_in,             \* The IN descriptor, with its buffer.
    out0,               \* Control register of OUT endpoint 0.
    in0,                \* Control register of IN endpoint 0.
    in0_mask,           \* The IN endpoint may interrupt.
    ints,               \* Interrupt bits that are set.
    usb_panicked,       \* The kernel panicked in a handler.
    host                \* The control transfer of the host.

uvars == <<state, next_ep0_out_idx, last_ep0_out_idx, ep0_out, ep0_in, out0,
           in0, in0_mask, ints, usb_panicked, host>>

(***************************************************************************)
(* What a SETUP packet asks for, as far as the handlers tell it apart:     *)
(*   read      a descriptor or the configuration number;                   *)
(*   status    GET_STATUS of the device;                                   *)
(*   set       SET_ADDRESS, SET_CONFIGURATION;                             *)
(*   refused   what the handlers answer with a stall;                      *)
(*   misfit    less of the report descriptor than there is;                *)
(*   ignored   a vendor request, or a request to an endpoint;              *)
(*   fatal     a standard request that sends data, a string that does not  *)
(*             exist, or more of the report descriptor than there is.      *)
(* UsbDescriptors tells which requests these are.                          *)
(***************************************************************************)
Requests == {"read", "status", "set", "refused", "misfit", "ignored", "fatal"}

Packet == [kind : Requests, id : 0..(Ids - 1)]
NoPacket == [kind |-> "none"]

\* The status bits of a descriptor: HOST_READY, DMA_DONE, HOST_BUSY.
Status == {"ready", "done", "busy"}

UInit ==
    /\ state = "WaitingForSetupPacket"
    /\ next_ep0_out_idx = 0 /\ last_ep0_out_idx = 0
    /\ ep0_out = [i \in 0..1 |-> [status |-> IF i = 0 THEN "ready" ELSE "busy",
                                  setup |-> FALSE, packet |-> NoPacket]]
    /\ ep0_in = [status |-> "busy", holds |-> "nothing", to |-> NoPacket]
    /\ out0 = [enabled |-> TRUE, nak |-> FALSE, stall |-> FALSE]
    /\ in0 = [enabled |-> FALSE, nak |-> TRUE, stall |-> FALSE]
    /\ in0_mask = FALSE
    /\ ints = {}
    /\ usb_panicked = FALSE
    /\ host = [stage |-> "idle", setup |-> NoPacket, told |-> FALSE,
               got |-> "nothing", from |-> NoPacket]

(***************************************************************************)
(* The driver.  The operators below give the effect of a function of the   *)
(* driver on the descriptors and on the registers, for the index `n` that  *)
(* next_ep0_out_idx holds when it is called and the descriptors `outs`.    *)
(***************************************************************************)

\* The buffer of an armed descriptor is not read before it is filled again.
Armed(outs, n) ==
    [outs EXCEPT ![n] = [status |-> "ready", setup |-> FALSE, packet |-> NoPacket]]

\* A write of Enable, with ClearNak when `clear` holds.
Enable(reg, clear) ==
    [reg EXCEPT !.enabled = TRUE, !.nak = @ /\ ~clear, !.stall = FALSE]

Stall(reg) == [reg EXCEPT !.enabled = TRUE, !.stall = TRUE]

\* Fault: the descriptor is left as it is.
expect_setup_packet_unarmed(n, outs) ==
    /\ state' = "WaitingForSetupPacket"
    /\ ep0_out' = outs
    /\ in0_mask' = FALSE
    /\ out0' = Enable(out0, TRUE)
    /\ UNCHANGED usb_panicked

expect_setup_packet(n, outs) ==
    /\ state' = "WaitingForSetupPacket"
    /\ ep0_out' = Armed(outs, n)
    /\ in0_mask' = FALSE
    /\ out0' = Enable(out0, TRUE)
    /\ UNCHANGED usb_panicked

stall_both_fifos(n, outs, reg) ==
    /\ state' = "WaitingForSetupPacket"
    /\ ep0_out' = Armed(outs, n)
    /\ in0_mask' = FALSE
    /\ out0' = Stall(reg)
    /\ in0' = Stall(in0)
    /\ UNCHANGED usb_panicked

\* Fault: the cases are confused, and the NAK is kept after the SETUP stage.
expect_phase_in_eager(stage, holds, to, case, n, outs) ==
    /\ state' = stage
    /\ ep0_in' = [status |-> "ready", holds |-> holds, to |-> to]
    /\ in0' = Enable(in0, case = "A")
    /\ ep0_out' = Armed(outs, n)
    /\ out0' = Enable(out0, case = "A")
    /\ in0_mask' = TRUE
    /\ UNCHANGED usb_panicked

(***************************************************************************)
(* expect_data_phase_in and expect_status_phase_in: what the host is to    *)
(* read is put in the IN descriptor.  The NAK is cleared only when the     *)
(* host is known to have left the SETUP stage.                             *)
(***************************************************************************)
expect_phase_in(stage, holds, to, case, n, outs) ==
    /\ state' = stage
    /\ ep0_in' = [status |-> "ready", holds |-> holds, to |-> to]
    /\ in0' = Enable(in0, case = "C")
    /\ ep0_out' = Armed(outs, n)
    /\ out0' = Enable(out0, case = "C")
    /\ in0_mask' = TRUE
    /\ UNCHANGED usb_panicked

(***************************************************************************)
(* The stall of a report request of the wrong length is followed by the    *)
(* answer.  Whether writing a control register without its Stall bit takes *)
(* the stall back is the controller's choice.                              *)
(***************************************************************************)
StallThenAnswer(p, case, n, outs) ==
    \E sticks \in BOOLEAN :
        /\ state' = "DataStageIn"
        /\ ep0_in' = [status |-> "ready", holds |-> "data", to |-> p]
        /\ in0' = [Enable(in0, case = "C") EXCEPT !.stall = sticks]
        /\ ep0_out' = Armed(outs, n)
        /\ out0' = [Enable(out0, case = "C") EXCEPT !.stall = sticks]
        /\ in0_mask' = TRUE
        /\ UNCHANGED usb_panicked

\* A finished IN transfer re-enables its endpoint, unless a SETUP is awaited.
AfterIn ==
    IF "InXfer" \in ints /\ state # "WaitingForSetupPacket"
      THEN Enable(in0, FALSE)
      ELSE in0

\* handle_setup and the handlers it dispatches to.
handle_setup(case, p, n, outs) ==
    \/ /\ p.kind = "read"
       /\ expect_phase_in("DataStageIn", "data", p, case, n, outs)
    \/ /\ p.kind \in {"status", "set"}
       /\ expect_phase_in("NoDataStage", "empty", p, case, n, outs)
    \/ /\ p.kind = "refused"
       /\ stall_both_fifos(n, outs, out0)
       /\ UNCHANGED ep0_in
    \/ /\ p.kind = "misfit"
       /\ StallThenAnswer(p, case, n, outs)
    \/ /\ p.kind = "ignored"
       /\ ep0_out' = outs
       /\ in0' = AfterIn
       /\ UNCHANGED <<state, ep0_in, out0, in0_mask, usb_panicked>>
    \/ /\ p.kind = "fatal"
       /\ ep0_out' = outs
       /\ in0' = AfterIn
       /\ usb_panicked' = TRUE
       /\ UNCHANGED <<state, ep0_in, out0, in0_mask>>

\* Fault: the NAKs are cleared also while a SETUP is awaited.
InDetected_waiting(n) ==
    /\ in0' = Enable(in0, TRUE)
    /\ out0' = Enable(out0, TRUE)
    /\ UNCHANGED <<state, ep0_out, ep0_in, in0_mask, usb_panicked>>

\* The host has left the SETUP stage, seen without a packet (case B).
InDetected(n) ==
    \/ /\ state = "WaitingForSetupPacket"
       /\ stall_both_fifos(n, ep0_out, out0)
       /\ UNCHANGED ep0_in
    \/ /\ state # "WaitingForSetupPacket"
       /\ in0' = Enable(in0, TRUE)
       /\ out0' = Enable(out0, TRUE)
       /\ UNCHANGED <<state, ep0_out, ep0_in, in0_mask, usb_panicked>>

(***************************************************************************)
(* The body of handle_endpoint0_events, once the descriptors are swapped:  *)
(* `n` and `l` are the next and last index.                                *)
(***************************************************************************)
Dispatch(n, l) ==
    LET full  == "OutXfer" \in ints
        setup == "SetUp" \in ints
        case  == CASE full /\ setup -> "C"
                   [] full /\ ~setup -> "A"
                   [] ~full /\ setup -> "B"
                   [] OTHER -> "D"
        ready == ep0_out[l].setup
    IN \/ /\ case \in {"A", "C"} /\ ready
          /\ handle_setup(case, ep0_out[l].packet, n, ep0_out)
       \/ /\ case \in {"A", "C"} /\ ~ready
          /\ state = "WaitingForSetupPacket"
          /\ stall_both_fifos(n, ep0_out, out0)
          /\ UNCHANGED ep0_in
       \/ /\ case \in {"A", "C"} /\ ~ready
          /\ state # "WaitingForSetupPacket"
          /\ expect_setup_packet(n, ep0_out)
          /\ in0' = AfterIn
          /\ UNCHANGED ep0_in
       \/ /\ case = "B"
          /\ InDetected(n)
       \/ /\ case = "D"
          /\ in0' = AfterIn
          /\ UNCHANGED <<state, ep0_out, ep0_in, out0, in0_mask, usb_panicked>>

\* Fault: the index does not wrap.
swap_ep0_out_descriptors_nowrap ==
    /\ last_ep0_out_idx' = next_ep0_out_idx
    /\ next_ep0_out_idx' = next_ep0_out_idx + 1

swap_ep0_out_descriptors ==
    /\ last_ep0_out_idx' = next_ep0_out_idx
    /\ next_ep0_out_idx' = (next_ep0_out_idx + 1) % 2

(***************************************************************************)
(* An interrupt of endpoint 0: the bits are cleared, the OUT descriptors   *)
(* swapped if one was filled, and the event is handled.                    *)
(***************************************************************************)
handle_endpoint0_events ==
    /\ ~usb_panicked
    /\ "Reset" \notin ints
    /\ ints \cap {"OutXfer", "SetUp"} # {} \/ (in0_mask /\ "InXfer" \in ints)
    /\ IF "OutXfer" \in ints
         THEN swap_ep0_out_descriptors
         ELSE UNCHANGED <<last_ep0_out_idx, next_ep0_out_idx>>
    /\ Dispatch(next_ep0_out_idx', last_ep0_out_idx')
    /\ ints' = {}
    /\ UNCHANGED host

(***************************************************************************)
(* A bus reset.  usb_reset starts over with the first descriptor; endpoint *)
(* interrupts that were pending are then handled as if they had come after *)
(* the reset: a packet that was stored before it counts as received in the *)
(* fresh descriptor, and the endpoint is stalled.                          *)
(***************************************************************************)
usb_reset ==
    LET fresh == [i \in 0..1 |-> [status |-> IF i = 0 THEN "ready" ELSE "busy",
                                  setup |-> FALSE, packet |-> NoPacket]]
    IN /\ ~usb_panicked
       /\ "Reset" \in ints
       /\ ep0_in' = [ep0_in EXCEPT !.status = "busy"]
       /\ \/ /\ "OutXfer" \in ints
             /\ last_ep0_out_idx' = 0 /\ next_ep0_out_idx' = 1
             /\ stall_both_fifos(1, fresh, Enable(out0, TRUE))
          \/ /\ "OutXfer" \notin ints /\ "SetUp" \in ints
             /\ next_ep0_out_idx' = 0
             /\ UNCHANGED last_ep0_out_idx
             /\ stall_both_fifos(0, fresh, Enable(out0, TRUE))
          \/ /\ ints \cap {"OutXfer", "SetUp"} = {}
             /\ next_ep0_out_idx' = 0
             /\ UNCHANGED <<last_ep0_out_idx, in0>>
             /\ expect_setup_packet(0, fresh)
       /\ ints' = {}
       /\ UNCHANGED host

(***************************************************************************)
(* The host and the controller (external).  A packet is stored in the      *)
(* descriptor that the driver named, when that is ready and the endpoint   *)
(* enabled; storing it disables the endpoint and raises XferCompl.  A      *)
(* SETUP is stored whatever the NAK bit says; it sets the NAK bits of both *)
(* directions and ends a stall.                                            *)
(***************************************************************************)
Receiving == out0.enabled /\ ep0_out[next_ep0_out_idx].status = "ready"

Store(is_setup, p) ==
    /\ ep0_out' = [ep0_out EXCEPT ![next_ep0_out_idx] =
                     [status |-> "done", setup |-> is_setup, packet |-> p]]
    /\ ints' = ints \cup {"OutXfer"}

NextId == IF host.setup = NoPacket THEN 0 ELSE (host.setup.id + 1) % Ids

\* The host starts a control transfer, giving up the one under way if any.
HostSetup(kind) ==
    LET p == [kind |-> kind, id |-> NextId]
    IN /\ Receiving
       /\ "Reset" \notin ints
       /\ Store(TRUE, p)
       /\ out0' = [enabled |-> FALSE, nak |-> TRUE, stall |-> FALSE]
       /\ in0' = [in0 EXCEPT !.nak = TRUE, !.stall = FALSE]
       /\ host' = [stage |-> "in", setup |-> p, told |-> FALSE,
                   got |-> "nothing", from |-> NoPacket]
       /\ UNCHANGED <<state, next_ep0_out_idx, last_ep0_out_idx, ep0_in,
                      in0_mask, usb_panicked>>

\* The first token after the SETUP stage.
HostLeavesSetup ==
    /\ host.stage = "in" /\ ~host.told
    /\ host' = [host EXCEPT !.told = TRUE]
    /\ ints' = ints \cup {"SetUp"}
    /\ UNCHANGED <<state, next_ep0_out_idx, last_ep0_out_idx, ep0_out, ep0_in,
                   out0, in0, in0_mask, usb_panicked>>

\* A request that sets something has no OUT stage after the IN.
HostReads ==
    /\ host.stage = "in" /\ host.told
    /\ \/ /\ in0.stall
          /\ host' = [host EXCEPT !.stage = "idle", !.got = "stall"]
          /\ UNCHANGED <<ints, ep0_in, in0>>
       \/ /\ ~in0.stall /\ in0.enabled /\ ~in0.nak
          /\ ep0_in.status = "ready"
          /\ host' = [host EXCEPT
                !.stage = IF host.setup.kind = "set" THEN "idle" ELSE "out",
                !.got = ep0_in.holds, !.from = ep0_in.to]
          /\ ep0_in' = [ep0_in EXCEPT !.status = "done"]
          /\ in0' = [in0 EXCEPT !.enabled = FALSE]
          /\ ints' = ints \cup {"InXfer"}
    /\ UNCHANGED <<state, next_ep0_out_idx, last_ep0_out_idx, ep0_out, out0,
                   in0_mask, usb_panicked>>

\* The empty packet with which the host ends a transfer that read something.
HostConfirms ==
    /\ host.stage = "out"
    /\ \/ /\ out0.stall
          /\ UNCHANGED <<ep0_out, ints, out0>>
       \/ /\ ~out0.stall /\ Receiving /\ ~out0.nak
          /\ Store(FALSE, NoPacket)
          /\ out0' = [out0 EXCEPT !.enabled = FALSE]
    /\ host' = [host EXCEPT !.stage = "idle"]
    /\ UNCHANGED <<state, next_ep0_out_idx, last_ep0_out_idx, ep0_in, in0,
                   in0_mask, usb_panicked>>

HostResets ==
    /\ ints' = ints \cup {"Reset"}
    /\ host' = [host EXCEPT !.stage = "idle", !.got = "nothing", !.from = NoPacket]
    /\ UNCHANGED <<state, next_ep0_out_idx, last_ep0_out_idx, ep0_out, ep0_in,
                   out0, in0, in0_mask, usb_panicked>>

UNext ==
    \/ handle_endpoint0_events
    \/ usb_reset
    \/ \E kind \in Requests : HostSetup(kind)
    \/ HostLeavesSetup
    \/ HostReads
    \/ HostConfirms
    \/ HostResets

\* The kernel services its interrupts; the host carries its transfer through.
UFairness ==
    /\ WF_uvars(handle_endpoint0_events \/ usb_reset)
    /\ WF_uvars(HostLeavesSetup)
    /\ WF_uvars(HostReads)

USpec == UInit /\ [][UNext]_uvars /\ UFairness

-----------------------------------------------------------------------------
UTypeOK ==
    /\ state \in {"WaitingForSetupPacket", "DataStageIn", "NoDataStage"}
    /\ next_ep0_out_idx \in 0..1 /\ last_ep0_out_idx \in 0..1
    /\ ep0_out \in [0..1 -> [status : Status, setup : BOOLEAN,
                             packet : Packet \cup {NoPacket}]]
    /\ ep0_in \in [status : Status, holds : {"nothing", "data", "empty"},
                   to : Packet \cup {NoPacket}]
    /\ out0 \in [enabled : BOOLEAN, nak : BOOLEAN, stall : BOOLEAN]
    /\ in0 \in [enabled : BOOLEAN, nak : BOOLEAN, stall : BOOLEAN]
    /\ in0_mask \in BOOLEAN
    /\ ints \subseteq {"OutXfer", "SetUp", "InXfer", "Reset"}
    /\ usb_panicked \in BOOLEAN
    /\ host \in [stage : {"idle", "in", "out"}, setup : Packet \cup {NoPacket},
                 told : BOOLEAN, got : {"nothing", "data", "empty", "stall"},
                 from : Packet \cup {NoPacket}]

\* The requests that a handler of the driver answers, if only with a stall.
Answered(p) == p.kind \notin {"none", "ignored", "fatal"}

(***************************************************************************)
(* Whenever the driver has handled all its interrupts, the descriptor that *)
(* the controller will fill next is ready and its endpoint enabled, so the *)
(* host can always start a new transfer, also in the middle of one.  Every *)
(* way through the handlers has to re-arm the descriptor itself; the one   *)
(* that does not is that of a request which handle_setup ignores, after    *)
(* which only a bus reset helps.                                           *)
(***************************************************************************)
ControlReady ==
    LET last == ep0_out[last_ep0_out_idx]
    IN \/ Receiving
       \/ usb_panicked \/ ints # {}
       \/ last.setup /\ last.packet.kind = "ignored"

(***************************************************************************)
(* What the host reads was prepared for the SETUP it sent last: never the  *)
(* answer to a transfer that it gave up, which may still be in the IN      *)
(* descriptor.  A descriptor is read as data, a setting is confirmed by an *)
(* empty packet, and a refused request is stalled.                         *)
(***************************************************************************)
HostGetsItsAnswer ==
    LET kind == host.setup.kind
    IN (host.got # "nothing" /\ Answered(host.setup)) =>
         /\ host.got # "stall" => host.from = host.setup
         /\ host.got \in CASE kind = "read" -> {"data"}
                           [] kind \in {"set", "status"} -> {"empty"}
                           [] kind = "refused" -> {"stall"}
                           [] kind = "misfit" -> {"data", "stall"}

(***************************************************************************)
(* A host that waits for the answer to a request the driver knows, without *)
(* giving up, is not held off by NAKs forever, whichever of the two        *)
(* interrupt bits the handler saw first.                                   *)
(***************************************************************************)
SetupAnswered ==
    \A p \in Packet :
        Answered(p) => []<>~(host.stage = "in" /\ host.setup = p)

=============================================================================
