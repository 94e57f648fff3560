------------------------------- MODULE MCPapa -------------------------------
(***************************************************************************)
(* papa: the BMC, its flash chip and otpilot; the update of its firmware   *)
(* down to the flash of the H1; the messages of the SPI protocol, and the  *)
(* command memory and tables of the SPI device.  A behaviour exercises one *)
(* of the parts and the others stay at rest.                               *)
(***************************************************************************)
EXTENDS FirmwareUpdate, Otpilot, SpiDevice

VARIABLE part      \* what this behaviour exercises

spi == <<bbvars, wm, cmvars, td>>
mcvars == <<uvars, ovars, spi, part>>

MCInit ==
    /\ part \in {"update", "otpilot", "bits", "messages", "memory", "tables"}
    /\ UInit /\ OInit
    /\ BBInit /\ (part # "bits" => bb.len = 0)
    /\ WMInit /\ CMInit /\ TDInit

MCNext ==
    /\ UNCHANGED part
    /\ \/ part = "update" /\ UNext /\ UNCHANGED <<ovars, spi>>
       \/ part = "otpilot" /\ ONext /\ UNCHANGED <<uvars, spi>>
       \/ /\ UNCHANGED <<uvars, ovars>>
          /\ \/ part = "bits" /\ BBNext /\ UNCHANGED <<wm, cmvars, td>>
             \/ part = "messages" /\ WMNext /\ UNCHANGED <<bbvars, cmvars, td>>
             \/ part = "memory" /\ CMNext /\ UNCHANGED <<bbvars, wm, td>>
             \/ part = "tables" /\ TDNext /\ UNCHANGED <<bbvars, wm, cmvars>>

(* Only the chosen part moves, so only its steps are due; an update at rest *)
(* has none.  On papa the processor runs the kernel and then the            *)
(* application, the hardware finishes what it has begun, and the BMC polls. *)
MCFairness ==
    /\ UFairness
    /\ WF_ovars(part = "otpilot" /\ AppNext)
    /\ WF_ovars(part = "otpilot" /\ data_available)
    /\ WF_ovars(part = "otpilot" /\ handle_host_interrupt)
    /\ WF_ovars(part = "otpilot" /\ FlashReady)
    /\ WF_ovars(part = "otpilot" /\ BmcPoll)
    /\ WF_ovars(part = "otpilot" /\ BmcUp)
    /\ WF_ovars(part = "otpilot" /\ AlarmFires)

MCSpec == MCInit /\ [][MCNext]_mcvars /\ MCFairness

-----------------------------------------------------------------------------
(* Both processes are well typed. *)
MCTypeOK == UTypeOK /\ OTypeOK

(* What the firmware controller reports as erased or verified is so to the  *)
(* last word, and the completion it acts on is that of the operation it     *)
(* waits for, whatever failed before.                                       *)
ReportedMeansDone == CompletionIsCurrent /\ ErasedMeansErased /\ VerifiedMeansWritten


(* A request that the firmware controller, or otpilot, has not yet ended. *)
Outstanding ==
    \/ part = "update" /\ pc # "ready"
    \/ part = "otpilot" /\ bmc.state = "polling"


(* What the protocol writes it reads again: bits come out of a BitBuf in    *)
(* the order they went in, every message and flash header is decoded to     *)
(* what was encoded, and a request damaged in one bit is not carried out.   *)
WireFormats == BitsAreAQueue /\ MessagesRoundTrip /\ DamagedRequestsRefused


=============================================================================
