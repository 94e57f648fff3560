---------------------------- MODULE FlashCounter ----------------------------
(***************************************************************************)
(* The non-volatile counter capsule (nvcounter/capsule.rs): a counter kept *)
(* in two flash pages, driven by calls of its client and by the callbacks  *)
(* of the flash driver, and interrupted by resets at any instant.          *)
(*                                                                         *)
(* A flash operation changes its page before the driver reports it, so the *)
(* pages, which survive a reset, and the operation in flight, which does   *)
(* not, are separate variables.                                            *)
(***************************************************************************)
EXTENDS CounterPage

CONSTANTS
    Calls,    \* the calls the client makes, of {"initialize", "increment"}
    Faults,   \* what may go wrong, of {"fail", "reset"}
    Muxed     \* TRUE: the flash is a virtual_flash FlashUser; FALSE: FlashImpl

ASSUME CallsAssumption == Calls \subseteq {"initialize", "increment"}
ASSUME FaultsAssumption == Faults \subseteq {"fail", "reset"}
ASSUME MuxedAssumption == Muxed \in BOOLEAN

VARIABLES
    task,     \* self.task
    buffer,   \* self.write_buffer.is_some()
    pages,    \* the two flash pages
    op,       \* the flash operation in flight
    ticket,   \* the value read_and_increment returned for the current task
    last,     \* the last callback the client received since its last call
    panicked, \* the kernel panicked
    floor     \* history: no value below this one may ever be read again

vars == <<task, buffer, pages, op, ticket, last, panicked, floor>>

-----------------------------------------------------------------------------
PageName == {"High", "Low"}
Task == {"None", "Initialize", "Increment"}
Codes == {"SUCCESS", "FAIL"}

NoOp == [kind |-> "none", page |-> "Low", base |-> ErasedPage, applied |-> FALSE]
Erase(pg) == [NoOp EXCEPT !.kind = "erase", !.page = pg]
Write(pg) == [NoOp EXCEPT !.kind = "write", !.page = pg, !.base = pages[pg]]
(* An erase a FlashUser accepts and the driver behind it then refuses. *)
LostErase == [NoOp EXCEPT !.kind = "lost"]

Uncalled == <<"Uncalled", "SUCCESS">>

Odd(n) == n % 2 = 1

(* Fault: the odd high count is not fast-forwarded past the erase of low. *)
CounterValueNoFastForward(high, low) ==
    (CountsPerPage + 1) * (high \div 2) + low

(* counter_value *)
CounterValue(high, low) ==
    IF Odd(high) THEN (CountsPerPage + 1) * ((high + 1) \div 2)
                 ELSE (CountsPerPage + 1) * (high \div 2) + low

Value == CounterValue(pages["High"].count, pages["Low"].count)

Larger(m, n) == IF m >= n THEN m ELSE n

Idle == op.kind = "none"
Running == ~panicked

TypeOK ==
    /\ task \in Task
    /\ buffer \in BOOLEAN
    /\ pages \in [PageName -> Page]
    /\ op \in [kind : {"none", "erase", "write", "lost"}, page : PageName,
               base : Page, applied : BOOLEAN]
    /\ ticket \in Nat
    /\ last \in {"Uncalled", "InitializeDone", "IncrementDone"}
               \X {"SUCCESS", "FAIL", "EINVAL"}
    /\ panicked \in BOOLEAN
    /\ floor \in Nat

Init ==
    /\ task = "None"
    /\ buffer = TRUE
    /\ pages = [pg \in PageName |-> ErasedPage]
    /\ op = NoOp
    /\ ticket = 0
    /\ last = Uncalled
    /\ panicked = FALSE
    /\ floor = 0

-----------------------------------------------------------------------------
(* Calls of the flash driver.  It answers EBUSY, and start_increment hands  *)
(* the buffer back, while an operation is in flight.                        *)

StartErase(pg) == op' = IF Idle THEN Erase(pg) ELSE op

start_increment(pg) ==
    /\ op' = IF Idle THEN Write(pg) ELSE op
    /\ buffer' = (buffer /\ ~Idle)

-----------------------------------------------------------------------------
(* Calls of the client.  A call with a task pending answers EBUSY and       *)
(* changes nothing.                                                         *)

initialize ==
    /\ "initialize" \in Calls
    /\ Running /\ task = "None"
    /\ StartErase("Low")
    /\ task' = "Initialize"
    /\ last' = Uncalled
    /\ floor' = 0
    /\ UNCHANGED <<buffer, pages, ticket, panicked>>

(* The closure `success` of read_and_increment. *)
Accept ==
    /\ task' = "Increment"
    /\ ticket' = Value
    /\ floor' = Larger(floor, Value)
    /\ last' = Uncalled
    /\ UNCHANGED <<pages, panicked>>

CanIncrement ==
    /\ "increment" \in Calls
    /\ Running /\ task = "None"

(* High is odd and low is erased: Rollover3 is running (it has the buffer), *)
(* Rollover2 has yet to report, or Rollover3 has to be started.             *)
IncrementAtRollover3 ==
    /\ CanIncrement
    /\ Odd(pages["High"].count) /\ Empty(pages["Low"])
    /\ IF buffer THEN start_increment("High") ELSE UNCHANGED <<op, buffer>>
    /\ Accept

(* High is odd and low is not erased: Rollover2 runs or has to be run. *)
IncrementAtRollover2 ==
    /\ CanIncrement
    /\ Odd(pages["High"].count) /\ ~Empty(pages["Low"])
    /\ StartErase("Low")
    /\ UNCHANGED buffer
    /\ Accept

(* High is even: step Incr1, or Rollover1 when low is maxed out.  With both *)
(* maxed out the call answers ESIZE and changes nothing.                    *)
IncrementAtEven ==
    /\ CanIncrement
    /\ ~Odd(pages["High"].count)
    /\ buffer
    /\ \/ ~MaxedOut(pages["Low"]) /\ start_increment("Low")
       \/ /\ MaxedOut(pages["Low"]) /\ ~MaxedOut(pages["High"])
          /\ start_increment("High")
    /\ Accept

(* High is even and the driver has the buffer: unwrap() on None. *)
IncrementPanics ==
    /\ CanIncrement
    /\ ~Odd(pages["High"].count)
    /\ ~buffer
    /\ panicked' = TRUE
    /\ UNCHANGED <<task, buffer, pages, op, ticket, last, floor>>

read_and_increment ==
    \/ IncrementAtRollover3
    \/ IncrementAtRollover2
    \/ IncrementAtEven
    \/ IncrementPanics

-----------------------------------------------------------------------------
(* Callbacks of the flash driver. *)

Reported(kind, code) ==
    /\ Running
    /\ op.kind = kind
    /\ IF code = "SUCCESS" THEN op.applied ELSE "fail" \in Faults

(* The client's callback for the task that ends with `code`. *)
TellClient(code) ==
    /\ task' = "None"
    /\ last' = CASE task = "Initialize" -> <<"InitializeDone", code>>
                 [] task = "Increment"  -> <<"IncrementDone", code>>
                 [] OTHER -> last

(* Fault: a failed erase only ends an initialization. *)
EraseFailedKeepsIncrement ==
    /\ Reported("erase", "FAIL")
    /\ op' = NoOp
    /\ IF task = "Initialize" THEN TellClient("FAIL") ELSE UNCHANGED <<task, last>>
    /\ UNCHANGED <<buffer, pages, ticket, panicked, floor>>

EraseFailed ==
    /\ Reported("erase", "FAIL")
    /\ op' = NoOp
    /\ TellClient("FAIL")
    /\ UNCHANGED <<buffer, pages, ticket, panicked, floor>>

(* Init1 or Init2 finished, or the client asked for initialization while *)
(* Rollover2 was running.                                                *)
EraseDoneInitialize ==
    /\ Reported("erase", "SUCCESS")
    /\ task = "Initialize"
    /\ IF Empty(pages["High"])
         THEN op' = NoOp /\ TellClient("SUCCESS")
         ELSE op' = Erase("High") /\ UNCHANGED <<task, last>>
    /\ UNCHANGED <<buffer, pages, ticket, panicked, floor>>

(* Rollover2 finished, Rollover3 starts.  A maxed out high page makes       *)
(* start_increment hand the buffer back, which fails a pending increment.   *)
EraseDoneRollover2 ==
    /\ Reported("erase", "SUCCESS")
    /\ task # "Initialize"
    /\ IF ~buffer
         THEN panicked' = TRUE /\ UNCHANGED <<task, op, buffer, last>>
         ELSE /\ UNCHANGED panicked
              /\ IF MaxedOut(pages["High"])
                   THEN op' = NoOp /\ buffer' = TRUE /\ TellClient("FAIL")
                   ELSE op' = Write("High") /\ buffer' = FALSE
                        /\ UNCHANGED <<task, last>>
    /\ UNCHANGED <<pages, ticket, floor>>

erase_done == EraseFailed \/ EraseDoneInitialize \/ EraseDoneRollover2

(* Fault: an early return on failure forgets to put the buffer back. *)
WriteFailedIncrementLosesBuffer ==
    /\ Reported("write", "FAIL")
    /\ task = "Increment"
    /\ op' = NoOp
    /\ TellClient("FAIL")
    /\ UNCHANGED <<buffer, pages, ticket, panicked, floor>>

WriteFailedIncrement ==
    /\ Reported("write", "FAIL")
    /\ task = "Increment"
    /\ op' = NoOp
    /\ buffer' = TRUE
    /\ TellClient("FAIL")
    /\ UNCHANGED <<pages, ticket, panicked, floor>>

(* Rollover3 finished in the background, whether or not it succeeded. *)
WriteDoneBackground ==
    /\ \E code \in Codes : Reported("write", code)
    /\ task = "None"
    /\ op' = NoOp
    /\ buffer' = TRUE
    /\ UNCHANGED <<task, pages, ticket, last, panicked, floor>>

(* Initialization was requested during Rollover3.  The erase is given the   *)
(* word offset of the low page, which is no page number: FlashImpl refuses  *)
(* it with EINVAL, a FlashUser accepts it and never reports.                *)
WriteDoneInitialize ==
    /\ \E code \in Codes : Reported("write", code)
    /\ task = "Initialize"
    /\ buffer' = TRUE
    /\ IF Muxed THEN op' = LostErase /\ UNCHANGED <<task, last>>
                ELSE op' = NoOp /\ TellClient("EINVAL")
    /\ UNCHANGED <<pages, ticket, panicked, floor>>

(* Rollover3 finished with an increment requested meanwhile: Incr1. *)
WriteDoneThenIncr1 ==
    /\ Reported("write", "SUCCESS")
    /\ task = "Increment"
    /\ Empty(pages["Low"])
    /\ op' = Write("Low")
    /\ buffer' = FALSE
    /\ UNCHANGED <<task, pages, ticket, last, panicked, floor>>

(* Fault: the end of Rollover3 is taken for the end of the increment. *)
WriteDoneAcknowledgeEarly ==
    /\ Reported("write", "SUCCESS")
    /\ task = "Increment"
    /\ op' = IF Full(pages["Low"]) /\ Odd(pages["High"].count)
               THEN Erase("Low") ELSE NoOp
    /\ buffer' = TRUE
    /\ TellClient("SUCCESS")
    /\ floor' = Larger(floor, ticket + 1)
    /\ UNCHANGED <<pages, ticket, panicked>>

(* Fault: Rollover2 is given the word offset of its page. *)
WriteDoneAcknowledgeErasesNowhere ==
    /\ Reported("write", "SUCCESS")
    /\ task = "Increment"
    /\ ~Empty(pages["Low"])
    /\ op' = IF Full(pages["Low"]) /\ Odd(pages["High"].count)
               THEN LostErase ELSE NoOp
    /\ buffer' = TRUE
    /\ TellClient("SUCCESS")
    /\ floor' = Larger(floor, ticket + 1)
    /\ UNCHANGED <<pages, ticket, panicked>>

(* Incr1 or Rollover1 finished; after Rollover1, Rollover2 is started. *)
WriteDoneAcknowledge ==
    /\ Reported("write", "SUCCESS")
    /\ task = "Increment"
    /\ ~Empty(pages["Low"])
    /\ op' = IF Full(pages["Low"]) /\ Odd(pages["High"].count)
               THEN Erase("Low") ELSE NoOp
    /\ buffer' = TRUE
    /\ TellClient("SUCCESS")
    /\ floor' = Larger(floor, ticket + 1)
    /\ UNCHANGED <<pages, ticket, panicked>>

write_done ==
    \/ WriteFailedIncrement
    \/ WriteDoneBackground
    \/ WriteDoneInitialize
    \/ WriteDoneThenIncr1
    \/ WriteDoneAcknowledge

-----------------------------------------------------------------------------
(* The flash itself: the operation in flight shows in its page, in part or  *)
(* in full, any time before the driver reports it.                          *)

PartialResults ==
    IF op.kind = "erase" THEN PartlyErased ELSE PartlyStruck(op.base)

FullResult == IF op.kind = "erase" THEN ErasedPage ELSE Struck(op.base)

FlashPartly ==
    /\ op.kind \in {"erase", "write"} /\ ~op.applied
    /\ Faults # {}
    /\ \E p \in PartialResults : pages' = [pages EXCEPT ![op.page] = p]
    /\ UNCHANGED <<task, buffer, op, ticket, last, panicked, floor>>

FlashApplies ==
    /\ op.kind \in {"erase", "write"} /\ ~op.applied
    /\ pages' = [pages EXCEPT ![op.page] = FullResult]
    /\ op' = [op EXCEPT !.applied = TRUE]
    /\ UNCHANGED <<task, buffer, ticket, last, panicked, floor>>

(* Loss of power, or the reset that follows a panic: RAM is lost. *)
Reset ==
    /\ "reset" \in Faults
    /\ task' = "None"
    /\ buffer' = TRUE
    /\ op' = NoOp
    /\ ticket' = 0
    /\ last' = Uncalled
    /\ panicked' = FALSE
    /\ UNCHANGED <<pages, floor>>

Next ==
    \/ initialize
    \/ read_and_increment
    \/ erase_done
    \/ write_done
    \/ FlashPartly
    \/ FlashApplies
    \/ Reset

Spec == Init /\ [][Next]_vars

(* The flash driver finishes what it starts: its alarm keeps firing. *)
Fairness ==
    /\ WF_vars(FlashApplies)
    /\ WF_vars(erase_done)
    /\ WF_vars(write_done)

FairSpec == Spec /\ Fairness

-----------------------------------------------------------------------------
(* No rollback: a value that was returned by read_and_increment, or that an *)
(* acknowledged increment led to, is a lower bound of everything the pages  *)
(* show afterwards, through failed writes and erases, torn pages and resets *)
(* in the middle of a rollover, until the client asks for initialization.   *)
NoRollback == floor <= Value

(* increment_done(SUCCESS) is the promise that the counter is now exactly   *)
(* one larger than the value read_and_increment returned for that call.     *)
AcknowledgedExactly ==
    [][WriteDoneAcknowledge => Value' = ticket + 1]_vars

(* The write buffer is in exactly one place: with the capsule, or with the  *)
(* driver while it writes.                                                  *)
BufferConserved == buffer = (op.kind # "write")

-----------------------------------------------------------------------------
(* The pages as they were when the write in flight was issued. *)
BasePages ==
    IF op.kind = "write" THEN [pages EXCEPT ![op.page] = op.base] ELSE pages

BaseValue == CounterValue(BasePages["High"].count, BasePages["Low"].count)

(* An erase outside initialization is Rollover2: the low page, hidden by an *)
(* odd high page.                                                           *)
EraseInv ==
    op.kind = "erase" =>
        /\ task = "Initialize" \/ (op.page = "Low" /\ Odd(pages["High"].count))
        /\ op.page = "High" => task = "Initialize" /\ Empty(pages["Low"])
        /\ op.applied => Empty(pages[op.page])

(* A write is Incr1, Rollover1 or Rollover3, and its page shows no more than *)
(* what that write can have done to it.                                      *)
WriteInv ==
    op.kind = "write" =>
        /\ ~MaxedOut(op.base)
        /\ pages[op.page] \in PartlyStruck(op.base)
        /\ op.applied => pages[op.page] = Struck(op.base)
        /\ op.page = "Low" => task = "Increment" /\ ~Odd(pages["High"].count)
        /\ op.page = "High" /\ Odd(op.base.count) => Empty(pages["Low"])
        /\ op.page = "High" /\ ~Odd(op.base.count) =>
               task = "Increment" /\ MaxedOut(pages["Low"])

TaskInv ==
    /\ task = "Increment" => op.kind \in {"erase", "write"} /\ ticket = BaseValue
    /\ task = "Initialize" => floor = 0 /\ op.kind \in {"erase", "write", "lost"}
    /\ op.kind = "lost" => task = "Initialize"

(* The inductive invariant of the counter: what is promised to clients is   *)
(* below the value the pages show and below the value they show if the      *)
(* write in flight leaves no trace.                                         *)
CounterInv ==
    /\ BufferConserved
    /\ EraseInv
    /\ WriteInv
    /\ TaskInv
    /\ floor <= Value
    /\ floor <= BaseValue

-----------------------------------------------------------------------------
(* The counter as its client may rely on it: a write counts from the moment *)
(* it is complete or is given up, not while it is being made.               *)
SettledPages ==
    IF op.kind = "write" /\ ~op.applied
      THEN [pages EXCEPT ![op.page] = op.base] ELSE pages

SettledValue ==
    CounterValue(SettledPages["High"].count, SettledPages["Low"].count)

Promise == INSTANCE NvCounter WITH value <- SettledValue


(* Documented: with no task pending the flash may be idle or may be running *)
(* Rollover2 or Rollover3, and read_and_increment copes with all three.     *)
NeverPanics == ~panicked

(* Documented: whoever asked for initialization receives a callback, also   *)
(* when a flash operation was ongoing at the time of the call.              *)
InitializeAnswered == task = "Initialize" ~> task # "Initialize"

(* An accepted increment is answered: the rollover steps that are still     *)
(* ongoing when it is accepted lead on to its own write.                    *)
IncrementAnswered == task = "Increment" ~> task # "Increment"

=============================================================================
