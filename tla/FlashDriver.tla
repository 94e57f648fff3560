---------------------------- MODULE FlashDriver ----------------------------
(***************************************************************************)
(* The H1 flash driver: FlashImpl (hil/flash/driver.rs) with its smart     *)
(* programming state machine (hil/flash/smart_program.rs), the alarm that  *)
(* drives it, and the flash module behind the Hardware trait.              *)
(*                                                                         *)
(* The alarm is the only clock: it may fire before or after the flash      *)
(* module has finished a pulse.  A pulse that outlasts its alarm makes the *)
(* driver give up while the module is still programming.                   *)
(***************************************************************************)
EXTENDS Integers

CONSTANTS
    WordsPerBank,    \* WORDS_PER_BANK: 0x10000
    WordsPerPage,    \* WORDS_PER_PAGE: 512
    MaxWriteSize,    \* MAX_WRITE_SIZE: 32
    EraseAttempts,   \* 45
    WriteAttempts    \* 8

ASSUME GeometryAssumption ==
    /\ WordsPerPage \in Nat \ {0} /\ WordsPerBank \in Nat \ {0}
    /\ WordsPerBank % WordsPerPage = 0
ASSUME LimitsAssumption ==
    /\ MaxWriteSize \in Nat \ {0}
    /\ EraseAttempts \in Nat \ {0} /\ WriteAttempts \in Nat \ {0}

VARIABLES
    sp,          \* smart_program_state: None, or Running(attempts, final pulse)
    opcode,      \* opcode
    write_data,  \* write_data.is_some()
    place,       \* write_bank and write_bank_target
    hw,          \* the flash module: "idle", or which operation it executes
    error,       \* the error register
    pulses,      \* history: triggers of this operation
    valid,       \* history: validated pulses of this operation in a row
    overrun,     \* history: an earlier pulse outlasted its alarm
    outcome       \* history: the last callback, <<kind, code>>

dvars == <<sp, opcode, write_data, place, hw, error, pulses, valid, overrun, outcome>>

NoProgram == [running |-> FALSE, attempts |-> 0, final |-> FALSE]
SmartProgram(n, final) == [running |-> TRUE, attempts |-> n, final |-> final]

program_in_progress == sp.running

Errors == {"range", "other"}

(* get_bank_from_target *)
Valid(target) == target < 2 * WordsPerBank

(* Fault: the second bank is addressed from the start of flash. *)
PlaceUnreduced(target) ==
    [bank |-> target \div WordsPerBank, offset |-> target]

Place(target) ==
    [bank |-> target \div WordsPerBank, offset |-> target % WordsPerBank]

DTypeOK ==
    /\ sp \in [running : BOOLEAN, attempts : Nat, final : BOOLEAN]
    /\ opcode \in {"erase", "write"}
    /\ write_data \in BOOLEAN
    /\ place \in [bank : {0, 1}, offset : 0 .. (WordsPerBank - 1)]
    /\ hw \in {"idle", "this", "stale"}
    /\ error \in {"none"} \cup Errors
    /\ pulses \in Nat /\ valid \in Nat
    /\ overrun \in BOOLEAN
    /\ outcome \in {"none", "erase", "write"} \X {"SUCCESS", "FAIL", "ESIZE"}

DInit ==
    /\ sp = NoProgram /\ opcode = "erase" /\ write_data = FALSE
    /\ place = Place(0)
    /\ hw = "idle" /\ error = "none"
    /\ pulses = 0 /\ valid = 0 /\ overrun = FALSE
    /\ outcome = <<"none", "SUCCESS">>

-----------------------------------------------------------------------------
(* Hardware::trigger.  What the module does with a trigger while it still   *)
(* executes an earlier operation is not documented: either of the two runs. *)
Trigger == hw' \in IF hw = "idle" THEN {"this"} ELSE {"this", "stale"}

(* smart_program, and the step from DInit that it makes. *)
smart_program(code, attempts, final, target) ==
    /\ sp' = SmartProgram(attempts - 1, final)
    /\ opcode' = code
    /\ place' = Place(target)
    /\ Trigger
    /\ pulses' = 1
    /\ valid' = 0
    /\ outcome' = <<"none", "SUCCESS">>
    /\ UNCHANGED <<error, overrun>>

(* erase: EBUSY and EINVAL change nothing. *)
erase(page) ==
    /\ ~program_in_progress
    /\ Valid(page * WordsPerPage)
    /\ smart_program("erase", EraseAttempts, FALSE, page * WordsPerPage)
    /\ UNCHANGED write_data

(* write: ESIZE, EBUSY and EINVAL hand the buffer back and change nothing. *)
write(target, len) ==
    /\ len <= MaxWriteSize
    /\ ~program_in_progress
    /\ Valid(target)
    /\ write_data' = TRUE
    /\ smart_program("write", WriteAttempts, TRUE, target)

-----------------------------------------------------------------------------
(* The alarm fires: one step of the state machine. *)

(* Trigger another pulse.  The error register clears itself when read. *)
Pulse(attempts, final) ==
    /\ sp' = SmartProgram(attempts, final)
    /\ Trigger
    /\ error' = "none"
    /\ pulses' = pulses + 1
    /\ UNCHANGED <<opcode, write_data, place, overrun, outcome>>

(* Fault: the buffer of a failed write stays with the driver. *)
FinishKeepsBuffer(code) ==
    /\ sp' = NoProgram
    /\ write_data' = (write_data /\ (opcode # "write" \/ code # "SUCCESS"))
    /\ outcome' = <<opcode, code>>
    /\ UNCHANGED <<opcode, place, pulses, valid>>

(* The operation ends; the client gets its callback, and its buffer back.   *)
(* The code that continues a write with its next MAX_WRITE_SIZE words never *)
(* runs, since write refuses a longer buffer.                               *)
FinishProgram(code) ==
    /\ sp' = NoProgram
    /\ write_data' = (write_data /\ opcode # "write")
    /\ outcome' = <<opcode, code>>
    /\ UNCHANGED <<opcode, place, pulses, valid>>

(* A timeout causes an immediate failure with no retry. *)
AlarmTimeout ==
    /\ sp.running /\ hw # "idle"
    /\ FinishProgram("FAIL")
    /\ hw' = "stale"
    /\ overrun' = TRUE
    /\ UNCHANGED error

(* Fault: the pulse that validates is taken for the final one. *)
AlarmFinalPulseSkipped ==
    /\ sp.running /\ hw = "idle" /\ error = "none"
    /\ sp.final
    /\ FinishProgram("SUCCESS")
    /\ UNCHANGED <<hw, error, overrun>>

AlarmFinalPulse ==
    /\ sp.running /\ hw = "idle" /\ error = "none"
    /\ sp.final
    /\ Pulse(0, FALSE)
    /\ UNCHANGED valid

AlarmSuccess ==
    /\ sp.running /\ hw = "idle" /\ error = "none"
    /\ ~sp.final
    /\ FinishProgram("SUCCESS")
    /\ UNCHANGED <<hw, error, overrun>>


AlarmRetry ==
    /\ sp.running /\ hw = "idle" /\ error # "none"
    /\ sp.attempts > 0
    /\ Pulse(sp.attempts - 1, sp.final)
    /\ UNCHANGED valid

(* Fault: an exhausted operation is reported as done. *)
AlarmGiveUpSilently ==
    /\ sp.running /\ hw = "idle" /\ error # "none"
    /\ sp.attempts = 0
    /\ FinishProgram("SUCCESS")
    /\ error' = "none"
    /\ UNCHANGED <<hw, overrun>>

(* decode_error *)
AlarmGiveUp ==
    /\ sp.running /\ hw = "idle" /\ error # "none"
    /\ sp.attempts = 0
    /\ FinishProgram(IF error = "range" THEN "ESIZE" ELSE "FAIL")
    /\ error' = "none"
    /\ UNCHANGED <<hw, overrun>>

alarm ==
    \/ AlarmTimeout
    \/ AlarmFinalPulse
    \/ AlarmSuccess
    \/ AlarmRetry
    \/ AlarmGiveUp

(* The flash module finishes a pulse. *)
HwFinish ==
    /\ hw # "idle"
    /\ hw' = "idle"
    /\ error' \in {"none"} \cup Errors
    /\ valid' = IF hw # "this" THEN valid ELSE IF error' = "none" THEN valid + 1 ELSE 0
    /\ UNCHANGED <<sp, opcode, write_data, place, pulses, overrun, outcome>>

DriverPages == 0 .. (2 * (WordsPerBank \div WordsPerPage))
Lengths == 1 .. (MaxWriteSize + 1)

DNext ==
    \/ \E page \in DriverPages : erase(page)
    \/ \E target \in 0 .. (2 * WordsPerBank), len \in Lengths : write(target, len)
    \/ alarm
    \/ HwFinish

(* A triggered pulse ends and an armed alarm fires. *)
DFairness == WF_dvars(HwFinish) /\ WF_dvars(alarm)

-----------------------------------------------------------------------------
(* SUCCESS means that the flash module validated the pulses of this very    *)
(* operation: its last pulse, and for a write the one before it as well     *)
(* (the final pulse).  After a pulse that outlasted its alarm the module    *)
(* may be busy with the abandoned operation, and nothing can be said.       *)
SuccessMeansValidated ==
    (outcome[2] = "SUCCESS" /\ outcome[1] # "none" /\ ~overrun) =>
        valid >= (IF outcome[1] = "write" THEN 2 ELSE 1)

(* Flash wears with every pulse: an operation triggers no more pulses than  *)
(* its attempts, plus the final pulse of a write.                           *)
PulsesBounded ==
    pulses <= IF opcode = "write" THEN WriteAttempts + 1 ELSE EraseAttempts

(* The driver holds the client's buffer exactly while a write is ongoing. *)
BufferHeld == write_data = (sp.running /\ opcode = "write")

(* The driver keeps the contract its clients rely on, for as long as no     *)
(* pulse outlasts its alarm.                                                *)
DriverContract == INSTANCE FlashContract WITH
    op     <- IF sp.running THEN opcode ELSE "none",
    effect <- sp.running /\ valid > 0,
    report <- <<outcome[1], outcome[1] # "none" /\ outcome[2] = "SUCCESS">>

KeepsContract ==
    /\ DriverContract!Init
    /\ [][overrun \/ DriverContract!Next \/ UNCHANGED DriverContract!vars]_dvars

=============================================================================
