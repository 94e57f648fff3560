--------------------------- MODULE MCFlashCounter ---------------------------
(***************************************************************************)
(* The counter, and the words of one of its pages.  Neither reads a        *)
(* variable of the other, so a behaviour exercises one of the two and the  *)
(* states add up instead of multiplying.                                   *)
(***************************************************************************)
EXTENDS FlashCounter, CounterWords

VARIABLE level   \* what this behaviour exercises: "counter" or "words"

MCInit == Init /\ WInit /\ level \in {"counter", "words"}

MCNext ==
    \/ level = "counter" /\ Next /\ UNCHANGED <<wvars, level>>
    \/ level = "words" /\ WNext /\ UNCHANGED <<vars, level>>

MCSpec == MCInit /\ [][MCNext]_<<vars, wvars, level>> /\ Fairness

(* Both are well typed: in particular no count ever exceeds a page. *)
MCTypeOK == TypeOK /\ WTypeOK

=============================================================================
