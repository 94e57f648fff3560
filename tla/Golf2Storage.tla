---------------------------- MODULE Golf2Storage ----------------------------
(***************************************************************************)
(* The storage of the golf2 board (kernel/golf2/src/main.rs): the counter  *)
(* of FlashCounter.tla and the attestation page of Personality.tla share   *)
(* the flash through the multiplexer of MuxFlash.tla.  The personality's   *)
(* FlashUser was added last and is the head of the list.                   *)
(*                                                                         *)
(* Every step is a step of one capsule together with the step that the     *)
(* multiplexer makes inside the same call.                                 *)
(***************************************************************************)
EXTENDS FlashCounter, Personality, Sequences

VARIABLES
    operation, buffers, in_flight, driver, effect, report,   \* of MuxFlash
    boot      \* history: changes with every reset

mvars == <<operation, buffers, in_flight, driver, effect, report, boot>>
allvars == <<vars, pvars, mvars>>

Mux == INSTANCE MuxFlash WITH
    List   <- <<"personality", "counter">>,
    Asked  <- {"erase", "write", "bad write", "bad erase"},
    NoUser <- "none",
    buffer <- buffers

(* The operation of a FlashUser for the counter's operation in flight. *)
Queued(kind) ==
    CASE kind = "none" -> "Idle"
      [] kind = "lost" -> "bad erase"
      [] OTHER -> kind

GInit == Init /\ PInit /\ Mux!Init /\ boot = TRUE

(* Steps of the multiplexer inside a call and inside a callback. *)
Call(user, what) == Mux!Call(user, what) /\ UNCHANGED boot
Done(success, next) == Mux!Done(success, next) /\ UNCHANGED boot

(* A call of the counter, which may ask its FlashUser for an operation. *)
CounterCalled ==
    /\ initialize \/ read_and_increment
    /\ IF op' = op THEN UNCHANGED mvars ELSE Call("counter", Queued(op'.kind))
    /\ UNCHANGED pvars

(* The driver works on the counter's operation. *)
CounterFlash ==
    /\ in_flight = "counter"
    /\ \/ FlashPartly /\ UNCHANGED effect
       \/ FlashApplies /\ effect' = TRUE
    /\ UNCHANGED <<operation, buffers, in_flight, driver, report, boot, pvars>>

(* The driver reports the counter's operation. *)
CounterDone ==
    /\ in_flight = "counter"
    /\ erase_done \/ write_done
    /\ Done(TRUE, Queued(op'.kind))
    /\ UNCHANGED pvars

(* A process asks for the attestation page to be set. *)
AskFlash(what) ==
    IF what = "Idle" THEN UNCHANGED mvars ELSE Call("personality", what)

PersonalityCalled ==
    /\ Running
    /\ LET idle == operation["personality"] = "Idle"
       IN  \E app \in Apps, long \in BOOLEAN :
              /\ command_write(app, long, idle)
              /\ AskFlash(set_u8_asks(long, idle))
    /\ UNCHANGED vars

PersonalityFlash ==
    /\ in_flight = "personality" /\ driver = "erase" /\ ~effect
    /\ PageErases
    /\ effect' = (page' = "erased")
    /\ UNCHANGED <<operation, buffers, in_flight, driver, report, boot, vars>>

PersonalityEraseDone ==
    /\ Running
    /\ in_flight = "personality" /\ driver = "erase"
    /\ erase_done_u8
    /\ \E success \in BOOLEAN : Done(success, erase_done_asks)
    /\ UNCHANGED vars

(* Loss of power, or the reset that follows a panic. *)
BoardReset ==
    /\ Reset
    /\ PReset
    /\ operation' = [u \in Mux!Users |-> "Idle"]
    /\ buffers' = [u \in Mux!Users |-> "client"]
    /\ in_flight' = "none"
    /\ driver' = "none"
    /\ effect' = FALSE
    /\ boot' = ~boot
    /\ report' = [u \in Mux!Users |-> <<"none", FALSE>>]

GNext ==
    \/ CounterCalled
    \/ CounterFlash
    \/ CounterDone
    \/ PersonalityCalled
    \/ PersonalityFlash
    \/ PersonalityEraseDone
    \/ BoardReset

(* The driver works on what it accepted and reports it. *)
GFairness ==
    /\ WF_allvars(CounterFlash /\ op'.applied)
    /\ WF_allvars(CounterDone)
    /\ WF_allvars(PersonalityFlash /\ effect')
    /\ WF_allvars(PersonalityEraseDone)

GSpec == GInit /\ [][GNext]_allvars /\ GFairness

-----------------------------------------------------------------------------
GTypeOK == TypeOK /\ PTypeOK /\ Mux!TypeOK

(* What each capsule believes to be in flight is what the multiplexer has   *)
(* queued for it: no callback can reach a capsule that does not expect it.  *)
CapsulesAgreeWithMux ==
    /\ operation["counter"] = Queued(op.kind)
    /\ operation["personality"] =
         CASE state = "Idle" -> "Idle"
           [] state = "ErasingU8" -> "erase"
           [] state = "WritingU8" -> "bad write"

(* The page write of the personality occupies the multiplexer. *)
Stuck == in_flight = "personality" /\ operation["personality"] = "bad write"

(* Nothing but that write ever stops the flash: an operation in flight is   *)
(* one the driver executes.                                                 *)
OnlyPageWriteSticks == in_flight # "none" /\ driver = "none" => Stuck

(* Sharing the flash costs the counter nothing but time: an increment that  *)
(* is accepted succeeds and counts exactly one, whatever the personality    *)
(* does, unless its page write blocks the flash, the kernel panics or the   *)
(* board is reset.                                                          *)
IncrementSucceedsUnlessStuck ==
    \A t \in 0 .. CounterValue(CountsPerPage, CountsPerPage), b \in BOOLEAN :
        (task = "Increment" /\ ticket = t /\ boot = b)
            ~> \/ last = <<"IncrementDone", "SUCCESS">> /\ SettledValue = t + 1
               \/ Stuck \/ panicked \/ boot # b

(* Documented: set_u8_done is called when the data has been committed. *)
SetAnswered == state # "Idle" ~> state = "Idle"

=============================================================================
