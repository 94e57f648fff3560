----------------------------- MODULE NvCounter -----------------------------
(***************************************************************************)
(* What a non-volatile counter promises its client (nvcounter/traits.rs):  *)
(* a value that survives resets and never decreases except through         *)
(* initialization, and a split-phase increment that is acknowledged only   *)
(* after the value has moved by exactly one.                               *)
(***************************************************************************)
EXTENDS Integers

VARIABLES
    value,    \* what a client that reads the counter gets
    task,     \* what the client waits for
    ticket    \* the value its read_and_increment returned

vars == <<value, task, ticket>>

Init ==
    /\ value = 0
    /\ task = "None"
    /\ ticket = 0

Initialize ==
    /\ task = "None"
    /\ task' = "Initialize"
    /\ UNCHANGED <<value, ticket>>

(* Not atomic: the value is arbitrary until initialize_done(SUCCESS). *)
Initializing ==
    /\ task = "Initialize"
    /\ value' \in Nat
    /\ UNCHANGED <<task, ticket>>

InitializeDone(success) ==
    /\ task = "Initialize"
    /\ task' = "None"
    /\ IF success THEN value = 0 /\ value' = 0 ELSE value' \in Nat
    /\ UNCHANGED ticket

ReadAndIncrement ==
    /\ task = "None"
    /\ task' = "Increment"
    /\ ticket' = value
    /\ UNCHANGED value

(* The increment takes effect, once, before it is acknowledged. *)
Commit ==
    /\ task = "Increment" /\ value = ticket
    /\ value' = value + 1
    /\ UNCHANGED <<task, ticket>>

IncrementDone(success) ==
    /\ task = "Increment"
    /\ task' = "None"
    /\ IF success THEN value = ticket + 1 /\ UNCHANGED value
                  ELSE value' \in Nat /\ value' >= value
    /\ UNCHANGED ticket

(* A failure with no client waiting may roll the counter forward. *)
RollForward ==
    /\ task = "None"
    /\ value' \in Nat /\ value' >= value
    /\ UNCHANGED <<task, ticket>>

Reset ==
    /\ task' = "None"
    /\ ticket' = 0
    /\ value' \in Nat
    /\ task = "Initialize" \/ value' >= value

Next ==
    \/ Initialize
    \/ Initializing
    \/ \E success \in BOOLEAN : InitializeDone(success)
    \/ ReadAndIncrement
    \/ Commit
    \/ \E success \in BOOLEAN : IncrementDone(success)
    \/ RollForward
    \/ Reset

Spec == Init /\ [][Next]_vars

=============================================================================
