------------------------------ MODULE MuxFlash ------------------------------
(***************************************************************************)
(* The flash multiplexer (hil/flash/virtual_flash.rs): FlashUsers queue at *)
(* most one operation each, and MuxFlash passes them to the driver one at  *)
(* a time, the user nearest the head of its list first.  The driver        *)
(* behind it is the one of FlashContract.tla.                              *)
(***************************************************************************)
EXTENDS Naturals, Sequences, SequencesExt

CONSTANTS
    List,     \* mux.users, head first
    Asked,    \* the operations the clients ask for
    NoUser    \* in_flight.is_none()

Users == Range(List)
Good == {"erase", "write"}
(* Operations the driver answers with EINVAL or ESIZE: a page beyond the    *)
(* flash, a buffer of more than 32 words.                                   *)
Refused == {"bad erase", "bad write"}
Writes == {"write", "bad write"}

ASSUME ListAssumption == IsInjective(List) /\ Len(List) > 0
ASSUME AskedAssumption == Asked \subseteq Good \cup Refused
ASSUME NoUserAssumption == NoUser \notin Users

VARIABLES
    operation,  \* FlashUser.operation
    buffer,     \* where each user's write buffer is
    in_flight,  \* MuxFlash.in_flight
    driver,     \* the operation the driver executes
    effect,     \* it has taken effect
    report      \* history: the last callback each client received

vars == <<operation, buffer, in_flight, driver, effect, report>>

TypeOK ==
    /\ operation \in [Users -> Good \cup Refused \cup {"Idle"}]
    /\ buffer \in [Users -> {"client", "user", "driver", "lost"}]
    /\ in_flight \in Users \cup {NoUser}
    /\ driver \in Good \cup {"none"}
    /\ effect \in BOOLEAN
    /\ report \in [Users -> {"none", "erase", "write"} \X BOOLEAN]

Init ==
    /\ operation = [u \in Users |-> "Idle"]
    /\ buffer = [u \in Users |-> "client"]
    /\ in_flight = NoUser
    /\ driver = "none"
    /\ effect = FALSE
    /\ report = [u \in Users |-> <<"none", FALSE>>]

(* Fault: the head of the list is served, whether it asks or not. *)
FirstOfList(ops) == List[1]

(* The first user of the list with an operation queued. *)
First(ops) ==
    LET i == CHOOSE i \in DOMAIN List :
                /\ ops[List[i]] # "Idle"
                /\ \A j \in DOMAIN List : j < i => ops[List[j]] = "Idle"
    IN  List[i]

(* Nothing is handed to the driver. *)
Rest(flying, bufs) ==
    /\ in_flight' = flying
    /\ driver' = IF flying = NoUser THEN "none" ELSE driver
    /\ buffer' = bufs

(* The operation of user u is handed to the driver.  What the driver        *)
(* returns is dropped: the code, and with it a refused buffer.              *)
Hand(u, ops, bufs) ==
    /\ in_flight' = u
    /\ driver' = IF ops[u] \in Refused THEN "none" ELSE ops[u]
    /\ buffer' = CASE ops[u] = "write" -> [bufs EXCEPT ![u] = "driver"]
                   [] ops[u] = "bad write" -> [bufs EXCEPT ![u] = "lost"]
                   [] OTHER -> bufs

(* Fault: a user is put in flight while the driver is busy for another one, *)
(* and answers EBUSY.                                                       *)
do_next_op_ignores_in_flight(flying, ops, bufs) ==
    IF \A u \in Users : ops[u] = "Idle" THEN Rest(flying, bufs)
    ELSE IF flying = NoUser THEN Hand(First(ops), ops, bufs)
    ELSE in_flight' = First(ops) /\ UNCHANGED driver /\ buffer' = bufs

(* Fault: the search stops before the last user of the list. *)
do_next_op_skips_last(flying, ops, bufs) ==
    IF flying # NoUser \/ \A i \in DOMAIN List : i < Len(List) => ops[List[i]] = "Idle"
      THEN Rest(flying, bufs)
      ELSE Hand(First(ops), ops, bufs)

(* Fault: the buffer is left behind in the user. *)
do_next_op_keeps_buffer(flying, ops, bufs) ==
    IF flying # NoUser \/ \A u \in Users : ops[u] = "Idle"
      THEN Rest(flying, bufs)
      ELSE in_flight' = First(ops) /\ driver' = ops[First(ops)] /\ buffer' = bufs

(* do_next_op, with the in_flight, operations and buffers it finds. *)
do_next_op(flying, ops, bufs) ==
    IF flying # NoUser \/ \A u \in Users : ops[u] = "Idle"
      THEN Rest(flying, bufs)
      ELSE Hand(First(ops), ops, bufs)

(* FlashUser::erase and FlashUser::write.  A user with an operation queued  *)
(* answers EBUSY and changes nothing.                                       *)
Call(u, what) ==
    /\ operation[u] = "Idle"
    /\ what \in Writes => buffer[u] = "client"
    /\ operation' = [operation EXCEPT ![u] = what]
    /\ LET bufs == IF what \in Writes THEN [buffer EXCEPT ![u] = "user"] ELSE buffer
       IN  do_next_op(in_flight, operation', bufs)
    /\ report' = [report EXCEPT ![u] = <<"none", FALSE>>]
    /\ effect' = IF in_flight = NoUser THEN FALSE ELSE effect

(* MuxFlash::erase_done and write_done, through FlashUser to the client,    *)
(* which may ask for `next` before it returns, and do_next_op.              *)
Done(success, next) ==
    /\ driver # "none"
    /\ success => effect
    /\ LET u == in_flight
           bufs == IF driver = "write" THEN [buffer EXCEPT ![u] = "client"] ELSE buffer
           sent == IF next \in Writes THEN [bufs EXCEPT ![u] = "user"] ELSE bufs
       IN  /\ next \in Writes => bufs[u] = "client"
           /\ operation' = [operation EXCEPT ![u] = next]
           /\ report' = [report EXCEPT ![u] = <<driver, success>>]
           /\ do_next_op(NoUser, operation', sent)
    /\ effect' = FALSE

Program ==
    /\ driver # "none"
    /\ effect' \in BOOLEAN
    /\ UNCHANGED <<operation, buffer, in_flight, driver, report>>

Next ==
    \/ \E u \in Users, what \in Asked : Call(u, what)
    \/ \E success \in BOOLEAN, next \in Asked \cup {"Idle"} : Done(success, next)
    \/ Program

Spec == Init /\ [][Next]_vars

Finish == \E success \in BOOLEAN, next \in Asked \cup {"Idle"} : Done(success, next)

(* The driver reports every operation it executes. *)
Fairness == WF_vars(Finish)

-----------------------------------------------------------------------------
(* The driver executes the operation that the user in flight asked for, so  *)
(* that its completion goes to the right client; it never rests while an    *)
(* operation is queued; and each write buffer is where the operation of its *)
(* user says: with the client, queued, or with the driver.                  *)
MuxConsistent ==
    /\ IF in_flight = NoUser THEN driver = "none" ELSE driver = operation[in_flight]
    /\ (\E u \in Users : operation[u] # "Idle") => in_flight # NoUser
    /\ \A u \in Users :
          buffer[u] = CASE operation[u] \notin Writes -> "client"
                        [] in_flight = u -> "driver"
                        [] OTHER -> "user"

(* Every client sees a driver that keeps the contract of a flash driver, as *)
(* if it were alone.                                                        *)
Contract(u) == INSTANCE FlashContract WITH
    op     <- IF operation[u] = "Idle" THEN "none" ELSE operation[u],
    effect <- in_flight = u /\ effect,
    report <- report[u]

EachKeepsContract ==
    /\ \A u \in Users : Contract(u)!Init
    /\ [][\A u \in Users : Contract(u)!Next \/ UNCHANGED Contract(u)!vars]_vars

(* No operation stays queued forever, provided that the other clients all   *)
(* pause at once now and then.  They must: users nearer the head of the     *)
(* list that take turns in asking again are always served first.            *)
ServedWhenOthersPause ==
    \A u \in Users :
        []<>(\A v \in Users \ {u} : operation[v] = "Idle")
            => []<>(operation[u] = "Idle" \/ in_flight = u)

=============================================================================
