------------------------------ MODULE Dcrypto -------------------------------
(***************************************************************************)
(* The DCRYPTO coprocessor (crypto/dcrypto.rs) and its system call driver  *)
(* (h1_syscalls/src/dcrypto.rs), used through tock_dcrypto_run of libh1:   *)
(* subscribe, allow of data and program, the run command, yield.  The      *)
(* driver has one App, which all processes share.                          *)
(*                                                                         *)
(* Data and programs are the process they came from.  The coprocessor may  *)
(* stop on a fault with or without its done interrupt; a fault that the    *)
(* driver ignores does not stop it without one.                            *)
(***************************************************************************)
EXTENDS Naturals, Sequences

CONSTANTS
    Runners,     \* processes that use the dcrypto driver
    NoRunner     \* nothing allowed or subscribed

VARIABLES
    dc_busy,     \* DcryptoDriver.busy
    dc_app,      \* DcryptoDriver.app: whose data and program, whose callback
    dc_state,    \* DcryptoEngine.state
    dc_hw,       \* the coprocessor: status, memories, whether the program in
                 \* them has stopped, pending interrupts
    dc_call,     \* per process: the library call it is in
    dc_upcall,   \* per process: the scheduled callbacks
    dc_failed,   \* history: a run command has failed
    dc_last      \* history: the call that returned last

dcvars == <<dc_busy, dc_app, dc_state, dc_hw, dc_call, dc_upcall, dc_failed, dc_last>>

NotRunning == [at |-> "idle"]
MaxUpcalls == 2     \* bound: the callback queue of a process; Tock drops what is more

(* After initialize: the engine is reset and halted. *)
DCInit ==
    /\ dc_busy = FALSE
    /\ dc_app = [memory |-> NoRunner, callback |-> NoRunner]
    /\ dc_state = "Halt"
    /\ dc_hw = [status |-> "Halt", mem |-> NoRunner,
                ran |-> FALSE, done |-> FALSE, error |-> "none"]
    /\ dc_call = [p \in Runners |-> NotRunning]
    /\ dc_upcall = [p \in Runners |-> <<>>]
    /\ dc_failed = FALSE
    /\ dc_last = <<"none">>

-----------------------------------------------------------------------------
(* Another process changes the shared App, or runs its program, under those *)
(* that wait.                                                               *)
Disturbed(p) ==
    [q \in Runners |-> IF q # p /\ dc_call[q].at # "idle"
                       THEN [dc_call[q] EXCEPT !.own = FALSE] ELSE dc_call[q]]

(* The library call begins with subscribe. *)
dcrypto_subscribe(p) ==
    /\ dc_call[p].at = "idle"
    /\ dc_app' = [dc_app EXCEPT !.callback = p]
    /\ dc_call' = [Disturbed(p) EXCEPT ![p] = [at |-> "allow", own |-> TRUE]]
    /\ dc_last' = <<"none">>
    /\ UNCHANGED <<dc_busy, dc_state, dc_hw, dc_upcall, dc_failed>>

(* allow of the data and of the program. *)
dcrypto_allow(p) ==
    /\ dc_call[p].at = "allow"
    /\ dc_app' = [dc_app EXCEPT !.memory = p]
    /\ dc_call' = [Disturbed(p) EXCEPT ![p].at = "command"]
    /\ dc_last' = <<"none">>
    /\ UNCHANGED <<dc_busy, dc_state, dc_hw, dc_upcall, dc_failed>>

DCRefused(p) ==
    /\ dc_call' = [dc_call EXCEPT ![p] = NotRunning]
    /\ dc_failed' = TRUE
    /\ UNCHANGED <<dc_state, dc_hw>>

(* write_data, write_instructions, call_imem and execute_instruction: the   *)
(* flags of old interrupts are cleared in the engine, not in the NVIC.      *)
(* own (history) also means that no interrupt of an earlier run is pending. *)
DCStarted(p) ==
    /\ dc_hw' = [dc_hw EXCEPT !.status = "Running", !.ran = FALSE,
                      !.mem = dc_app.memory]
    /\ dc_state' = "Running"
    /\ dc_call' = [Disturbed(p) EXCEPT ![p].at = "yield",
          ![p].own = @ /\ ~dc_hw.done /\ dc_hw.error = "none" /\ dc_upcall[p] = <<>>]
    /\ UNCHANGED dc_failed

(* The checks of write_data, write_instructions and call_imem: sizes that   *)
(* fit (good), and a halted engine.                                         *)
EngineTakes(good) == good /\ dc_state = "Halt"

(* command 1: busy is set before anything is checked, and stays set when    *)
(* run_program fails.                                                       *)
dcrypto_run(p, good) ==
    /\ dc_call[p].at = "command"
    /\ IF dc_busy
       THEN /\ dc_call' = [dc_call EXCEPT ![p] = NotRunning]
            /\ UNCHANGED <<dc_busy, dc_state, dc_hw, dc_failed>>
       ELSE /\ dc_busy' = TRUE
            /\ IF EngineTakes(good) THEN DCStarted(p) ELSE DCRefused(p)
    /\ dc_last' = <<"none">>
    /\ UNCHANGED <<dc_app, dc_upcall>>

-----------------------------------------------------------------------------
(* The coprocessor finishes its program. *)
ProgramEnds ==
    /\ dc_hw.status = "Running"
    /\ dc_hw' = [dc_hw EXCEPT !.status = "Halt", !.done = TRUE, !.ran = TRUE]
    /\ dc_last' = <<"none">>
    /\ UNCHANGED <<dc_busy, dc_app, dc_state, dc_call, dc_upcall, dc_failed>>

(* It meets a fault, and goes on or stops. *)
MeetsFault(kind, status, done) ==
    /\ dc_hw.status = "Running" /\ dc_hw.error = "none"
    /\ status = "Running" => ~done
    /\ status # "Running" /\ kind = "ignored" => done
    /\ dc_hw' = [dc_hw EXCEPT !.status = status, !.error = kind, !.done = @ \/ done,
                              !.ran = status # "Running"]
    /\ dc_last' = <<"none">>
    /\ UNCHANGED <<dc_busy, dc_app, dc_state, dc_call, dc_upcall, dc_failed>>

(* What the callback finds (history): the result of the process's own       *)
(* program on its own data, once it has stopped.  It does not matter to a   *)
(* call that has been disturbed.                                            *)
OwnResult(p) ==
    dc_call[p].at = "yield" /\ dc_call[p].own =>
        dc_hw.ran /\ dc_app.memory = p /\ dc_hw.mem = p

ScheduleCallback ==
    LET to == dc_app.callback
    IN  dc_upcall' = IF to = NoRunner \/ Len(dc_upcall[to]) = MaxUpcalls THEN dc_upcall
                     ELSE [dc_upcall EXCEPT ![to] = Append(@, OwnResult(to))]

(* Fault: busy stays set. *)
completion_keeps_busy == UNCHANGED dc_busy /\ ScheduleCallback

(* DcryptoDriver::execution_complete: the data memory goes to the allowed   *)
(* buffer and the callback is scheduled.                                    *)
execution_complete == dc_busy' = FALSE /\ ScheduleCallback


(* Whether handle_error_interrupt completes the run. *)
Reports(state, kind) == state # "Running" /\ kind = "reported"

(* handle_error_interrupt: the state follows the status of the hardware; a  *)
(* program that still runs, and some kinds of fault, are not reported.      *)
handle_error_interrupt ==
    /\ dc_hw.error # "none"
    /\ dc_hw' = [dc_hw EXCEPT !.error = "none"]
    /\ dc_state' = dc_hw.status
    /\ IF Reports(dc_state', dc_hw.error)
       THEN execution_complete
       ELSE UNCHANGED <<dc_busy, dc_upcall>>
    /\ dc_last' = <<"none">>
    /\ UNCHANGED <<dc_app, dc_call, dc_failed>>

(* handle_done_interrupt, in the states Running, Break and Halt. *)
handle_done_interrupt ==
    /\ dc_hw.done
    /\ dc_hw' = [dc_hw EXCEPT !.done = FALSE]
    /\ dc_state' = "Halt"
    /\ execution_complete
    /\ dc_last' = <<"none">>
    /\ UNCHANGED <<dc_app, dc_call, dc_failed>>

(* yield: a callback runs and tock_dcrypto_run returns, or, in a process    *)
(* that waits for something else, a callback of an earlier call.            *)
dcrypto_yield(p) ==
    /\ dc_call[p].at \in {"idle", "yield"} /\ dc_upcall[p] # <<>>
    /\ dc_call' = [dc_call EXCEPT ![p] = NotRunning]
    /\ dc_upcall' = [dc_upcall EXCEPT ![p] = Tail(@)]
    /\ dc_last' = IF dc_call[p].at = "idle" THEN <<"none">>
                  ELSE <<"returned", dc_call[p].own, Head(dc_upcall[p])>>
    /\ UNCHANGED <<dc_busy, dc_app, dc_state, dc_hw, dc_failed>>

DCNext ==
    \/ \E p \in Runners :
          \/ dcrypto_subscribe(p)
          \/ dcrypto_allow(p)
          \/ \E good \in BOOLEAN : dcrypto_run(p, good)
          \/ dcrypto_yield(p)
    \/ ProgramEnds
    \/ \E kind \in {"reported", "ignored"}, status \in {"Running", "Break", "Halt"},
          done \in BOOLEAN : MeetsFault(kind, status, done)
    \/ handle_error_interrupt
    \/ handle_done_interrupt

DCFairness ==
    /\ WF_dcvars(ProgramEnds)
    /\ WF_dcvars(handle_error_interrupt)
    /\ WF_dcvars(handle_done_interrupt)
    /\ \A p \in Runners : WF_dcvars(dcrypto_yield(p))

-----------------------------------------------------------------------------
DCTypeOK ==
    /\ dc_app \in [{"memory", "callback"} -> Runners \union {NoRunner}]
    /\ dc_state \in {"Halt", "Running", "Break"}
    /\ dc_hw.status \in {"Halt", "Running", "Break"}
    /\ dc_hw.error \in {"none", "reported", "ignored"}
    /\ \A p \in Runners : dc_call[p].at \in {"idle", "allow", "command", "yield"}

(* A call of tock_dcrypto_run that returns has what its own program made of *)
(* its own data, to the end or up to a fault.  It takes that no other       *)
(* process subscribed or allowed meanwhile and that no interrupt of an      *)
(* earlier run was pending when the program was started: a run that stopped *)
(* on a fault may still raise its done interrupt, which then completes the  *)
(* next run before it is finished.                                          *)
ProgramIsOwn ==
    dc_last[1] = "returned" /\ dc_last[2] => dc_last[3]

(* A call that waits for such a program. *)
ProgramOutstanding(p) == dc_call[p].at = "yield" /\ dc_call[p].own

(* The driver is busy with nothing left to complete it only after a run     *)
(* command has failed: busy is set before the checks and stays set.         *)
BusyOnlyAfterFailure ==
    dc_busy /\ dc_hw.status # "Running" /\ ~dc_hw.done /\ dc_hw.error = "none" => dc_failed

=============================================================================
