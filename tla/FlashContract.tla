--------------------------- MODULE FlashContract ---------------------------
(***************************************************************************)
(* What a flash driver promises one client (hil/flash/flash.rs), and what  *)
(* FlashCounter relies on: at most one operation at a time; it is reported *)
(* once, with the callback of its kind; SUCCESS is reported only after the *)
(* operation has taken effect, any other code at any time.                 *)
(***************************************************************************)

VARIABLES
    op,       \* the operation accepted and not yet reported
    effect,   \* that operation has taken effect in flash
    report    \* the last callback: <<kind, SUCCESS or not>>

vars == <<op, effect, report>>

Kind == {"erase", "write"}

Init == op = "none" /\ effect = FALSE /\ report = <<"none", FALSE>>

Accept ==
    /\ op = "none"
    /\ op' \in Kind
    /\ effect' = FALSE
    /\ report' = <<"none", FALSE>>

(* Pulses: one may validate and a later one fail to. *)
Program ==
    /\ op \in Kind
    /\ effect' \in BOOLEAN
    /\ UNCHANGED <<op, report>>

(* The callback, from which the client may issue its next operation. *)
Report ==
    /\ op \in Kind
    /\ \E success \in BOOLEAN :
          /\ success => effect
          /\ report' = <<op, success>>
    /\ op' \in Kind \cup {"none"}
    /\ effect' = FALSE

Next == Accept \/ Program \/ Report

Spec == Init /\ [][Next]_vars

=============================================================================
