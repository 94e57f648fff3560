---------------------------- MODULE MCU2fDevice -----------------------------
(***************************************************************************)
(* What carries and what executes the commands of the U2F device: the      *)
(* control endpoint, the descriptors read over it, the data endpoint with  *)
(* the application's loop, and the commands themselves.  A part is chosen  *)
(* in the initial state and the others stay at rest.                       *)
(***************************************************************************)
EXTENDS UsbControl, UsbDescriptors, U2fEndpoint, U2fCommands

VARIABLE part

mcvars == <<uvars, udvars, evars, cvars, part>>

MCInit ==
    /\ UInit /\ UDInit /\ EInit /\ CInit
    /\ part \in {"control", "descriptors", "endpoint", "commands"}

MCNext ==
    \/ part = "control" /\ UNext /\ UNCHANGED <<udvars, evars, cvars, part>>
    \/ part = "descriptors" /\ UDNext /\ UNCHANGED <<uvars, evars, cvars, part>>
    \/ part = "endpoint" /\ ENext /\ UNCHANGED <<uvars, udvars, cvars, part>>
    \/ part = "commands" /\ CNext /\ UNCHANGED <<uvars, udvars, evars, part>>

(* Only the chosen part moves, so only its steps are due. *)
MCFairness ==
    /\ part = "control" => UFairness
    /\ part = "endpoint" => EFairness

MCSpec == MCInit /\ [][MCNext]_mcvars /\ MCFairness

(* All parts are well typed. *)
MCTypeOK == UTypeOK /\ UDTypeOK /\ ETypeOK /\ CTypeOK



(* Neither the host nor the application waits forever: known requests on    *)
(* the control endpoint are answered, and the application gets back to      *)
(* waiting for a frame.                                                     *)
UsbServes == SetupAnswered /\ AppKeepsServing

=============================================================================
