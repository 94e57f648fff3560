----------------------------- MODULE MCDrivers ------------------------------
(***************************************************************************)
(* The drivers of the kernel with the processes and capsules that use      *)
(* them.  A behaviour exercises one of the parts and the others stay at    *)
(* rest, so that the states of the parts add up instead of multiplying;    *)
(* what they expect of each other is stated in FlashContract.tla and       *)
(* NvCounter.tla.                                                          *)
(***************************************************************************)
EXTENDS FlashDriver, MuxFlash, NvCounterSyscall, Digest, Aes, Dcrypto, Uart, Timels, Trng

CONSTANTS u1, u2, u3
ThreeUsers == <<u1, u2, u3>>

VARIABLE part      \* what this behaviour exercises

storage == <<dvars, vars, nvars>>
crypto == <<dgvars, aevars, dcvars>>
peripherals == <<uartvars, lsvars, rgvars>>
mcvars == <<storage, crypto, peripherals, part>>

MCInit ==
    /\ part \in {"flash", "mux", "nvcounter", "digest", "aes", "dcrypto", "uart", "timels",
                 "trng"}
    /\ DInit /\ Init /\ NInit
    /\ DGInit /\ AEInit /\ DCInit
    /\ UAInit /\ LSInit /\ (part # "timels" => ls_now = 0) /\ RGInit

MCNext ==
    /\ UNCHANGED part
    /\ \/ /\ UNCHANGED <<crypto, peripherals>>
          /\ \/ part = "flash" /\ DNext /\ UNCHANGED <<vars, nvars>>
             \/ part = "mux" /\ Next /\ UNCHANGED <<dvars, nvars>>
             \/ part = "nvcounter" /\ NNext /\ UNCHANGED <<dvars, vars>>
       \/ /\ UNCHANGED <<storage, peripherals>>
          /\ \/ part = "digest" /\ DGNext /\ UNCHANGED <<aevars, dcvars>>
             \/ part = "aes" /\ AENext /\ UNCHANGED <<dgvars, dcvars>>
             \/ part = "dcrypto" /\ DCNext /\ UNCHANGED <<dgvars, aevars>>
       \/ /\ UNCHANGED <<storage, crypto>>
          /\ \/ part = "uart" /\ UANext /\ UNCHANGED <<lsvars, rgvars>>
             \/ part = "timels" /\ LSNext /\ UNCHANGED <<uartvars, rgvars>>
             \/ part = "trng" /\ RGNext /\ UNCHANGED <<uartvars, lsvars>>

(* Only the chosen part moves, so only its steps are due.  No step of the   *)
(* others is, as they are at rest, but for the generator, which works       *)
(* without being asked.                                                     *)
MCFairness ==
    /\ DFairness /\ Fairness /\ NFairness
    /\ AEFairness /\ DCFairness
    /\ UAFairness /\ LSFairness
    /\ WF_rgvars(part = "trng" /\ Generate)
    /\ WF_rgvars(part = "trng" /\ trng_handle_interrupt)

MCSpec == MCInit /\ [][MCNext]_mcvars /\ MCFairness

-----------------------------------------------------------------------------
(* Every part is well typed. *)
MCTypeOK ==
    /\ DTypeOK /\ TypeOK /\ NTypeOK
    /\ DGTypeOK /\ AETypeOK /\ DCTypeOK
    /\ UATypeOK /\ LSTypeOK /\ RGTypeOK

(* The flash driver reports SUCCESS only for what the flash module has      *)
(* validated, wears the flash no more than its attempts allow, and holds    *)
(* its client's buffer exactly during a write; the multiplexer executes     *)
(* what the user in flight asked for and never rests while work is queued.  *)
FlashStackSound == SuccessMeansValidated /\ PulsesBounded /\ BufferHeld /\ MuxConsistent

(* The flash driver keeps the contract of FlashContract.tla as long as no   *)
(* pulse outlasts its alarm, and the multiplexer keeps it towards each of   *)
(* its users.                                                               *)
ContractKept == KeepsContract /\ EachKeepsContract



(* An engine that is reported busy with nothing under way is so only after  *)
(* a command that failed: the digest and the DCRYPTO driver set their lock  *)
(* before they check the arguments, and keep it.                            *)
EnginesFreed == HeldOnlyAfterFailure /\ BusyOnlyAfterFailure

(* The UART loses, repeats and reorders no byte that the hardware takes,    *)
(* and a receive buffer never waits for bytes that are already there.       *)
UartSound == BytesConserved /\ NoLostWakeup


(* What the driver of the part in use has accepted and not yet answered;   *)
(* n tells two processes, or an alarm from the one set next, apart.         *)
Client == <<"p", "q">>
Outstanding(n) ==
    \/ part = "flash" /\ sp.running
    \/ part = "aes" /\ BlockOutstanding(Client[n])
    \/ part = "dcrypto" /\ ProgramOutstanding(Client[n])
    \/ part = "uart" /\ Transmitting
    \/ part = "timels" /\ AlarmOutstanding(n)
    \/ part = "trng" /\ EntropyOutstanding


=============================================================================
