-------------------------- MODULE NvCounterSyscall --------------------------
(***************************************************************************)
(* The system call driver of the counter (nvcounter_syscall.rs): it lets   *)
(* several processes share one counter that has room for one task.  The    *)
(* counter below it is the promise of NvCounter.tla, which FlashCounter    *)
(* is shown to keep.                                                       *)
(***************************************************************************)
EXTENDS Integers, FiniteSets, FiniteSetsExt

CONSTANTS
    AppIds,     \* the identifiers of the processes, in the order of grant.each
    MaxValue    \* the value at which the counter answers ESIZE

ASSUME AppIdsAssumption == AppIds \subseteq Nat /\ IsFiniteSet(AppIds)
ASSUME MaxValueAssumption == MaxValue \in Nat

VARIABLES
    op_ongoing,       \* op_ongoing
    current_app,      \* current_app
    init_failed,      \* init_failed
    read_value,       \* value
    wants_increment,  \* AppData.wants_increment of each process
    started,          \* processes have started: initialize is over
    count, task, ticket,   \* the counter: NvCounter's value, task and ticket
    owed,       \* history: calls that returned SUCCESS, less callbacks
    callbacks,  \* history: the callbacks of the last step, id -> <<code, value>>
    highest     \* history: the largest value of a callback with code 2

syscall == <<op_ongoing, current_app, init_failed, read_value, wants_increment>>
nvars == <<syscall, started, count, task, ticket, owed, callbacks, highest>>

Counter == INSTANCE NvCounter WITH value <- count

NTypeOK ==
    /\ op_ongoing \in BOOLEAN /\ init_failed \in BOOLEAN /\ started \in BOOLEAN
    /\ current_app \in AppIds \cup {0}
    /\ read_value \in 0 .. MaxValue /\ count \in 0 .. MaxValue /\ ticket \in 0 .. MaxValue
    /\ wants_increment \in [AppIds -> BOOLEAN]
    /\ task \in {"None", "Initialize", "Increment"}
    /\ owed \in [AppIds -> 0 .. 2]
    /\ highest \in 0 .. MaxValue

NInit ==
    /\ op_ongoing = FALSE /\ current_app = 0 /\ init_failed = FALSE /\ read_value = 0
    /\ wants_increment = [a \in AppIds |-> FALSE]
    /\ started = FALSE
    /\ count = 0 /\ task = "None" /\ ticket = 0
    /\ owed = [a \in AppIds |-> 0]
    /\ callbacks = <<>>
    /\ highest = 0

-----------------------------------------------------------------------------
(* Callbacks `cbs` (a function on some processes) are scheduled. *)
Deliver(cbs) ==
    /\ callbacks' = cbs
    /\ highest' = Max({highest} \cup {cbs[a][2] : a \in {b \in DOMAIN cbs : cbs[b][1] = 2}})

Wanting == {a \in AppIds : wants_increment[a]}

(* The counter takes an increment, or answers EBUSY or ESIZE. *)
Accepts(t) == t = "None" /\ count < MaxValue

(* read_and_increment of the counter, once accepted. *)
StartFor(app) ==
    /\ op_ongoing' = TRUE
    /\ current_app' = app
    /\ read_value' = count
    /\ Counter!ReadAndIncrement

(* Fault: a process that waits in line may ask again. *)
read_and_increment_repeats(app) ==
    /\ ~init_failed
    /\ started' = TRUE
    /\ \/ /\ ~op_ongoing /\ Accepts(task)
          /\ StartFor(app)
          /\ UNCHANGED wants_increment
       \/ /\ op_ongoing
          /\ wants_increment' = [wants_increment EXCEPT ![app] = TRUE]
          /\ UNCHANGED <<op_ongoing, current_app, read_value, count, task, ticket>>
    /\ owed' = [owed EXCEPT ![app] = @ + 1]
    /\ Deliver(<<>>)
    /\ UNCHANGED init_failed

(* The call of a process: at once if no operation is ongoing, else noted. *)
(* A process that waits in line already gets EBUSY.                        *)
read_and_increment(app) ==
    /\ ~init_failed /\ ~wants_increment[app]
    /\ started' = TRUE
    /\ \/ /\ ~op_ongoing /\ Accepts(task)
          /\ StartFor(app)
          /\ UNCHANGED wants_increment
       \/ /\ op_ongoing
          /\ wants_increment' = [wants_increment EXCEPT ![app] = TRUE]
          /\ UNCHANGED <<op_ongoing, current_app, read_value, count, task, ticket>>
    /\ owed' = [owed EXCEPT ![app] = @ + 1]
    /\ Deliver(<<>>)
    /\ UNCHANGED init_failed

(* The call returns FAIL or EBUSY. *)
read_and_increment_refused(app) ==
    /\ \/ init_failed
       \/ wants_increment[app]
       \/ ~op_ongoing /\ ~Accepts(task)
    /\ started' = TRUE
    /\ Deliver(<<>>)
    /\ UNCHANGED <<syscall, count, task, ticket, owed>>

-----------------------------------------------------------------------------

(* do_next_op: the counter has finished its task (task' = "None") with      *)
(* value count'.  The first process in line that the counter accepts gets   *)
(* the counter, those it refuses get code 0, and the process that was       *)
(* served (`served`, a set of at most one) its result.                      *)
(* The walk starts the next increment, and with it overwrites `value`,      *)
(* before it reaches the result of a process further on.                    *)
syscall_do_next_op(served, code, v, fresh) ==
    LET accepted == fresh < MaxValue /\ Wanting # {}
        first    == Min(Wanting)
        told     == [a \in served |->
                        <<code, IF accepted /\ first <= a THEN fresh ELSE v>>]
        refused  == [a \in (IF accepted THEN {} ELSE Wanting) |-> <<0, 0>>]
    IN  /\ wants_increment' = [a \in AppIds |-> wants_increment[a] /\ accepted /\ a # first]
        /\ op_ongoing' = accepted
        /\ current_app' = IF accepted THEN first ELSE current_app
        /\ read_value' = IF accepted THEN fresh ELSE v
        /\ task' = IF accepted THEN "Increment" ELSE "None"
        /\ ticket' = IF accepted THEN fresh ELSE ticket
        /\ Deliver([a \in DOMAIN told \cup DOMAIN refused |->
                        IF a \in DOMAIN told THEN told[a] ELSE refused[a]])
        /\ owed' = [a \in AppIds |->
                        owed[a] - (IF a \in served THEN 1 ELSE 0)
                                - (IF a \in DOMAIN refused THEN 1 ELSE 0)]

(* The counter's increment takes effect. *)
Commit ==
    /\ Counter!Commit
    /\ Deliver(<<>>)
    /\ UNCHANGED <<syscall, started, owed>>

(* Fault: the value before the increment is reported. *)
increment_done_old_value(success) ==
    /\ task = "Increment"
    /\ IF success THEN count = ticket + 1 /\ count' = count
                  ELSE count' \in count .. MaxValue
    /\ syscall_do_next_op({current_app}, IF success THEN 2 ELSE 1, read_value, count')
    /\ UNCHANGED <<init_failed, started>>

(* increment_done. *)
increment_done(success) ==
    /\ task = "Increment"
    /\ IF success THEN count = ticket + 1 /\ count' = count
                  ELSE count' \in count .. MaxValue
    /\ syscall_do_next_op({current_app}, IF success THEN 2 ELSE 1,
                  IF success THEN read_value + 1 ELSE read_value, count')
    /\ UNCHANGED <<init_failed, started>>

(* The kernel initializes the counter before processes start. *)
initialize ==
    /\ ~started
    /\ Counter!Initialize
    /\ started' = TRUE
    /\ Deliver(<<>>)
    /\ UNCHANGED <<syscall, owed>>

Initializing ==
    /\ count' \in 0 .. MaxValue
    /\ Counter!Initializing
    /\ Deliver(<<>>)
    /\ UNCHANGED <<syscall, started, owed>>

(* initialize_done; handle_failed_init when it failed. *)
initialize_done(success) ==
    /\ task = "Initialize"
    /\ IF success
         THEN /\ count = 0 /\ count' = 0
              /\ init_failed' = FALSE
              /\ syscall_do_next_op({}, 0, 0, 0)
         ELSE /\ count' \in 0 .. MaxValue
              /\ init_failed' = TRUE
              /\ wants_increment' = [a \in AppIds |-> FALSE]
              /\ task' = "None"
              /\ owed' = [a \in AppIds |-> owed[a] - (IF wants_increment[a] THEN 1 ELSE 0)]
              /\ Deliver([a \in Wanting |-> <<0, 0>>])
              /\ UNCHANGED <<op_ongoing, current_app, read_value, ticket>>
    /\ UNCHANGED started

(* A failure of the counter's background work may roll it forward. *)
RollForward ==
    /\ count' \in 0 .. MaxValue
    /\ Counter!RollForward
    /\ Deliver(<<>>)
    /\ UNCHANGED <<syscall, started, owed>>

(* Loss of power: the counter keeps its value, or rolls forward.  It is not *)
(* initialized again: FreshValues is about one life of the counter.         *)
PowerLoss ==
    /\ count' \in 0 .. MaxValue
    /\ Counter!Reset
    /\ op_ongoing' = FALSE /\ current_app' = 0 /\ init_failed' = FALSE /\ read_value' = 0
    /\ wants_increment' = [a \in AppIds |-> FALSE]
    /\ started' = TRUE
    /\ owed' = [a \in AppIds |-> 0]
    /\ Deliver(<<>>)

NNext ==
    \/ \E app \in AppIds : read_and_increment(app)
    \/ \E app \in AppIds : read_and_increment_refused(app)
    \/ Commit
    \/ \E success \in BOOLEAN : increment_done(success)
    \/ initialize
    \/ Initializing
    \/ \E success \in BOOLEAN : initialize_done(success)
    \/ RollForward
    \/ PowerLoss

(* The counter reports every task. *)
NFairness ==
    /\ WF_nvars(\E success \in BOOLEAN : increment_done(success))
    /\ WF_nvars(\E success \in BOOLEAN : initialize_done(success))

NSpec == NInit /\ [][NNext]_nvars /\ NFairness

-----------------------------------------------------------------------------
(* Every call that returned SUCCESS is answered by exactly one callback:    *)
(* what is owed to a process is its place in line and its operation.  Then  *)
(* op_ongoing has to agree with the counter, and the counter must not rest  *)
(* while a process waits in line.                                           *)
CallbacksExact ==
    /\ op_ongoing <=> task = "Increment"
    /\ Wanting # {} => op_ongoing
    /\ \A a \in AppIds :
          owed[a] = (IF wants_increment[a] THEN 1 ELSE 0)
                      + (IF op_ongoing /\ current_app = a THEN 1 ELSE 0)

(* The values of successful increments are handed out once: each is larger  *)
(* than all before it, whichever process gets it, across loss of power,     *)
(* although do_next_op overwrites `value` before it reports it.             *)
FreshValues ==
    [][\A a \in DOMAIN callbacks' :
          callbacks'[a][1] = 2 => callbacks'[a][2] > highest]_nvars

(* A process that waits in line is answered, if those with smaller          *)
(* identifiers, which go first, stop asking.                                *)
LineMoves ==
    \A a \in AppIds :
        <>[](\A b \in AppIds : b < a => ~wants_increment[b])
            => []<>(~wants_increment[a])

=============================================================================
