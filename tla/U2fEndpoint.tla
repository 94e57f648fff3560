---------------------------- MODULE U2fEndpoint -----------------------------
(***************************************************************************)
(* Endpoint 1 of the USB device (kernel/h1/src/usb/mod.rs), the U2F system *)
(* calls on top of it (usb/driver.rs) and the loop of the U2F application  *)
(* that uses them (u2f_app/main.c, u2f_syscalls.c).                        *)
(*                                                                         *)
(* There is one buffer per direction, and no queue: the application arms   *)
(* the OUT endpoint for one frame, waits, works on the frame in the buffer *)
(* that the kernel copied it to, sends its reply frame by frame, and arms  *)
(* the endpoint again.  The host is held off by NAKs in between.  But      *)
(* SET_ADDRESS arms the endpoint too.                                      *)
(***************************************************************************)
EXTENDS Naturals

CONSTANTS
    Frames,         \* Frames are told apart by their number modulo Frames.
    MaxReply        \* Frames in the longest reply of the application.

ASSUME EndpointAssumption == Frames \in Nat /\ Frames > 2 /\ MaxReply \in Nat

VARIABLES
    ep1_out,        \* OUT descriptor: status, frame in its buffer, who armed it.
    ep1_in,         \* Status of the IN descriptor.
    ep1_ints,       \* Interrupts pending: "out", "in".
    pc,             \* Where the application is.
    u2f_buffer,     \* The frame in the application's buffer.
    has_rx,         \* The kernel has the application's buffer and callback.
    upcalls,        \* Callbacks scheduled: "rx", "tx".
    replies,        \* Frames of the reply that are still to be sent.
    sent,           \* The number of the frame the host sent last.
    got,            \* The number of the frame the application took last.
    addressed,      \* The host has set the address.
    strayed,        \* SET_ADDRESS let in a frame the application did not expect.
    cut             \* A frame to the host was discarded by SET_ADDRESS.

evars == <<ep1_out, ep1_in, ep1_ints, pc, u2f_buffer, has_rx, upcalls, replies,
           sent, got, addressed, strayed, cut>>

device == <<ep1_out, ep1_in, ep1_ints>>
app == <<pc, u2f_buffer, has_rx, upcalls, replies, got>>
traffic == <<sent, addressed, strayed, cut>>

EInit ==
    /\ ep1_out = [status |-> "busy", frame |-> 0, by |-> "nobody"]
    /\ ep1_in = "busy"
    /\ ep1_ints = {}
    /\ pc = "boot" /\ u2f_buffer = 0 /\ has_rx = FALSE /\ upcalls = {}
    /\ replies = 0 /\ got = 0
    /\ sent = 0 /\ addressed = FALSE /\ strayed = FALSE /\ cut = FALSE

(***************************************************************************)
(* SET_ADDRESS activates the endpoint: the OUT descriptor is armed, the IN *)
(* descriptor given back to the host whatever it holds.                    *)
(***************************************************************************)
setup_u2f_descriptors ==
    /\ addressed' = TRUE
    /\ ep1_out' = [ep1_out EXCEPT !.status = "ready", !.by = "address"]
    /\ ep1_in' = "busy"
    /\ cut' = (cut \/ ep1_in = "ready")
    /\ UNCHANGED <<ep1_ints, sent, strayed, app>>

ep1_enable_rx ==
    ep1_out' = [ep1_out EXCEPT !.status = "ready", !.by = "receive"]

\* Fault: a descriptor whose frame was sent does not count as free.
ep1_tx_fifo_is_ready_once == ep1_in = "busy"

ep1_tx_fifo_is_ready == ep1_in \in {"done", "busy"}

\* frame_received: the frame is copied to the application, if it gave a buffer.
frame_received ==
    /\ u2f_buffer' = IF has_rx THEN ep1_out.frame ELSE u2f_buffer

\* Fault: the endpoint is armed again as soon as its frame is copied.
handle_endpoint1_events_rearm ==
    /\ ep1_ints # {}
    /\ ep1_ints' = {}
    /\ IF "out" \in ep1_ints
         THEN frame_received /\ ep1_enable_rx
         ELSE UNCHANGED <<u2f_buffer, ep1_out>>
    /\ upcalls' = upcalls \cup {u \in {"rx", "tx"} :
                                  \/ u = "rx" /\ "out" \in ep1_ints /\ has_rx
                                  \/ u = "tx" /\ "in" \in ep1_ints}
    /\ UNCHANGED <<ep1_in, pc, has_rx, replies, got, traffic>>

\* Both interrupts are cleared, and each calls the application back.
handle_endpoint1_events ==
    /\ ep1_ints # {}
    /\ ep1_ints' = {}
    /\ IF "out" \in ep1_ints THEN frame_received ELSE UNCHANGED u2f_buffer
    /\ upcalls' = upcalls \cup {u \in {"rx", "tx"} :
                                  \/ u = "rx" /\ "out" \in ep1_ints /\ has_rx
                                  \/ u = "tx" /\ "in" \in ep1_ints}
    /\ UNCHANGED <<ep1_out, ep1_in, pc, has_rx, replies, got, traffic>>

(***************************************************************************)
(* The application.  tock_u2f_receive gives the kernel its callback and    *)
(* its buffer, arms the endpoint and yields until the callback.            *)
(***************************************************************************)
tock_u2f_receive ==
    /\ pc = "boot" \/ (pc = "work" /\ replies = 0)
    /\ pc' = "receive"
    /\ has_rx' = TRUE
    /\ ep1_enable_rx
    /\ UNCHANGED <<ep1_in, ep1_ints, u2f_buffer, upcalls, replies, got, traffic>>

\* A frame arrived: process_frame will answer it with some number of frames.
Received ==
    /\ pc = "receive" /\ "rx" \in upcalls
    /\ upcalls' = upcalls \ {"rx"}
    /\ pc' = "work"
    /\ got' = u2f_buffer
    /\ replies' \in 0..MaxReply
    /\ UNCHANGED <<device, u2f_buffer, has_rx, traffic>>

\* The system call spins in the kernel until the IN descriptor is free.
transmit == ep1_tx_fifo_is_ready /\ ep1_in' = "ready"

\* A frame is handed over, and the application yields until the callback.
tock_u2f_transmit ==
    /\ pc = "work" /\ replies > 0
    /\ transmit
    /\ pc' = "send"
    /\ replies' = replies - 1
    /\ UNCHANGED <<ep1_out, ep1_ints, u2f_buffer, has_rx, upcalls, got, traffic>>

Transmitted ==
    /\ pc = "send" /\ "tx" \in upcalls
    /\ upcalls' = upcalls \ {"tx"}
    /\ pc' = "work"
    /\ UNCHANGED <<device, u2f_buffer, has_rx, replies, got, traffic>>

\* The callback of an earlier tock_u2f_receive, whose result nobody reads.
StrayCallback ==
    /\ pc = "send" /\ "rx" \in upcalls
    /\ upcalls' = upcalls \ {"rx"}
    /\ UNCHANGED <<device, pc, u2f_buffer, has_rx, replies, got, traffic>>

(***************************************************************************)
(* The host (external): it sends a frame when the endpoint takes it, and   *)
(* polls for frames to read.                                               *)
(***************************************************************************)
Expected == pc = "receive" /\ "out" \notin ep1_ints /\ "rx" \notin upcalls

HostSends ==
    /\ addressed
    /\ ep1_out.status = "ready"
    /\ sent' = (sent + 1) % Frames
    /\ ep1_out' = [ep1_out EXCEPT !.status = "done", !.frame = sent']
    /\ ep1_ints' = ep1_ints \cup {"out"}
    /\ strayed' = (strayed \/ (ep1_out.by = "address" /\ ~Expected))
    /\ UNCHANGED <<ep1_in, addressed, cut, app>>

HostPolls ==
    /\ addressed /\ ep1_in = "ready"
    /\ ep1_in' = "done"
    /\ ep1_ints' = ep1_ints \cup {"in"}
    /\ UNCHANGED <<ep1_out, app, traffic>>

ENext ==
    \/ setup_u2f_descriptors
    \/ handle_endpoint1_events
    \/ tock_u2f_receive
    \/ Received
    \/ tock_u2f_transmit
    \/ Transmitted
    \/ StrayCallback
    \/ HostSends
    \/ HostPolls

\* The kernel and the application run, and the host polls its interrupt pipe.
EFairness ==
    /\ WF_evars(handle_endpoint1_events)
    /\ WF_evars(tock_u2f_receive \/ Received)
    /\ WF_evars(tock_u2f_transmit \/ Transmitted)
    /\ WF_evars(HostPolls)

ESpec == EInit /\ [][ENext]_evars /\ EFairness

-----------------------------------------------------------------------------
ETypeOK ==
    /\ ep1_out \in [status : {"busy", "ready", "done"}, frame : 0..(Frames - 1),
                    by : {"nobody", "address", "receive"}]
    /\ ep1_in \in {"busy", "ready", "done"}
    /\ ep1_ints \subseteq {"out", "in"}
    /\ pc \in {"boot", "receive", "work", "send"}
    /\ upcalls \subseteq {"rx", "tx"}
    /\ {u2f_buffer, got, sent} \subseteq 0..(Frames - 1)
    /\ replies \in 0..MaxReply
    /\ {addressed, has_rx, strayed, cut} \subseteq BOOLEAN

(***************************************************************************)
(* While the application works on a frame, or sends its reply, that frame  *)
(* is the last one that the host got rid of, and it is still the one in    *)
(* the only buffer there is: no frame is skipped or overwritten.  The      *)
(* exception is a frame let in by the SET_ADDRESS of an enumeration that   *)
(* came while the application was not waiting.                             *)
(***************************************************************************)
FramesDelivered ==
    \/ strayed
    \/ /\ pc \in {"work", "send"} => got = sent /\ u2f_buffer = got
       /\ pc = "receive" => sent \in {got, (got + 1) % Frames}

(***************************************************************************)
(* The application always gets back to waiting for a frame: the kernel     *)
(* does not spin for a free IN descriptor forever, and every frame handed  *)
(* over is called back.  The exception is a frame that SET_ADDRESS took    *)
(* from the IN descriptor, whose callback never comes.                     *)
(***************************************************************************)
AppKeepsServing ==
    (pc \in {"work", "send"}) ~> (pc = "receive" \/ cut)

=============================================================================
