------------------------- MODULE FlashCounterProofs -------------------------
(***************************************************************************)
(* Proofs about FlashCounter for every page geometry: the inductive        *)
(* invariant behind NoRollback and the other invariants of the capsule.    *)
(***************************************************************************)
EXTENDS FlashCounter, TLAPS

-----------------------------------------------------------------------------
(* Arithmetic. *)

(* Multiplication by a natural number is monotone. *)
LEMMA TimesMonotone ==
    ASSUME NEW c \in Nat, NEW a \in Nat, NEW b \in Nat, a <= b
    PROVE  c * a <= c * b
<1> DEFINE d == b - a
<1>1. d \in Nat /\ b = a + d
  OBVIOUS
<1>2. c * b = c * a + c * d
  BY <1>1
<1>3. c * d \in Nat
  BY <1>1
<1> QED BY <1>2, <1>3

(* A word holds an even number of counts. *)
LEMMA WordIsEven == \E k \in Nat : CountsPerWord = 2 * k
<1>1. CountsPerWord \div 2 \in Nat /\ CountsPerWord = 2 * (CountsPerWord \div 2)
  BY CountsPerWordAssumption
<1> QED BY <1>1

(* A page holds an even, positive number of counts. *)
LEMMA CapacityFacts ==
    CountsPerPage \in Nat /\ CountsPerPage > 0 /\ CountsPerPage % 2 = 0
<1>1. PICK k \in Nat : CountsPerWord = 2 * k
  BY WordIsEven
<1>2. CountsPerPage = 2 * (k * WordsPerPage) /\ k * WordsPerPage \in Nat
  BY <1>1, WordsPerPageAssumption DEF CountsPerPage
<1>3. k > 0 /\ WordsPerPage > 0
  BY <1>1, CountsPerWordAssumption, WordsPerPageAssumption
<1>4. k * WordsPerPage > 0
  BY <1>3, WordsPerPageAssumption
<1> DEFINE m == k * WordsPerPage
<1> HIDE DEF m
<1>5. m \in Nat /\ m > 0 /\ CountsPerPage = 2 * m
  BY <1>2, <1>4 DEF m
<1> QED BY <1>5

(* The end of a word is an even count, no smaller than any count of that    *)
(* word and no larger than the page.                                        *)
LEMMA WordEndFacts ==
    ASSUME NEW n \in 1 .. CountsPerPage
    PROVE  WordEnd(n) \in n .. CountsPerPage /\ WordEnd(n) % 2 = 0
<1> DEFINE W == CountsPerWord
           q == (n - 1) \div W
           r == (n - 1) % W
<1>0. W \in Nat /\ W > 0 /\ n \in Nat /\ n - 1 \in Nat
  BY CountsPerWordAssumption, CapacityFacts
<1>1. q \in Nat /\ r \in 0 .. (W - 1) /\ n - 1 = W * q + r
  BY <1>0
<1> HIDE DEF q, r
<1>2. WordEnd(n) = W * q + W
  <2>1. WordEnd(n) = W * (q + 1)
    BY DEF WordEnd, q
  <2> QED BY <2>1, <1>0, <1>1
<1>3. W * q \in Nat
  BY <1>0, <1>1
<1>4. WordEnd(n) \in Nat /\ WordEnd(n) >= n
  BY <1>0, <1>1, <1>2, <1>3
<1>5. q < WordsPerPage
  <2>1. SUFFICES ASSUME WordsPerPage <= q PROVE FALSE
    BY <1>1, WordsPerPageAssumption
  <2>2. W * WordsPerPage <= W * q
    BY <2>1, <1>0, <1>1, WordsPerPageAssumption, TimesMonotone
  <2>3. n <= W * WordsPerPage
    BY CapacityFacts DEF CountsPerPage
  <2>4. W * WordsPerPage \in Nat
    BY <1>0, WordsPerPageAssumption
  <2> QED BY <2>2, <2>3, <2>4, <1>0, <1>1, <1>3
<1>6. WordEnd(n) <= CountsPerPage
  <2>1. W * (q + 1) <= W * WordsPerPage
    BY <1>5, <1>0, <1>1, WordsPerPageAssumption, TimesMonotone
  <2>2. W * (q + 1) = W * q + W
    BY <1>0, <1>1
  <2> QED BY <2>1, <2>2, <1>2 DEF CountsPerPage
<1>7. WordEnd(n) % 2 = 0
  <2>1. PICK k \in Nat : W = 2 * k
    BY WordIsEven
  <2>2. WordEnd(n) = 2 * (k * q + k) /\ k * q + k \in Nat
    BY <2>1, <1>1, <1>2
  <2> DEFINE m == k * q + k
  <2> HIDE DEF m
  <2>3. m \in Nat /\ WordEnd(n) = 2 * m
    BY <2>2 DEF m
  <2> QED BY <2>3
<1> QED BY <1>4, <1>6, <1>7, CapacityFacts

-----------------------------------------------------------------------------
(* The value counter_value computes is a natural number. *)
LEMMA ValueType ==
    ASSUME NEW h \in Nat, NEW l \in Nat
    PROVE  CounterValue(h, l) \in Nat
<1>1. (h + 1) \div 2 \in Nat /\ h \div 2 \in Nat
  OBVIOUS
<1> QED BY <1>1, CapacityFacts DEF CounterValue

(* An odd high count hides the low page: erasing it changes nothing. *)
LEMMA ValueOddHidesLow ==
    ASSUME NEW h \in Nat, NEW l \in Nat, NEW k \in Nat, Odd(h)
    PROVE  CounterValue(h, l) = CounterValue(h, k)
BY DEF CounterValue

(* Rollover3 leaves the value alone. *)
LEMMA ValueRollover3 ==
    ASSUME NEW h \in Nat, NEW l \in Nat, Odd(h)
    PROVE  ~Odd(h + 1) /\ CounterValue(h + 1, 0) = CounterValue(h, l)
<1>1. ~Odd(h + 1)
  BY DEF Odd
<1>2. (h + 1) \div 2 \in Nat
  OBVIOUS
<1>3. (CountsPerPage + 1) * ((h + 1) \div 2) + 0 = (CountsPerPage + 1) * ((h + 1) \div 2)
  BY <1>2, CapacityFacts
<1> QED BY <1>1, <1>3 DEF CounterValue

(* Rollover1 counts one, from an exhausted low page. *)
LEMMA ValueRollover1 ==
    ASSUME NEW h \in Nat, NEW l \in Nat, ~Odd(h)
    PROVE  Odd(h + 1) /\ CounterValue(h + 1, l) = CounterValue(h, CountsPerPage) + 1
<1>1. Odd(h + 1) /\ (h + 1 + 1) \div 2 = (h \div 2) + 1 /\ h \div 2 \in Nat
  BY DEF Odd
<1> DEFINE a == h \div 2
<1>2. a \in Nat
  BY <1>1
<1> HIDE DEF a
<1>3. (CountsPerPage + 1) * (a + 1) = (CountsPerPage + 1) * a + CountsPerPage + 1
  BY <1>2, CapacityFacts
<1>4. CounterValue(h + 1, l) = (CountsPerPage + 1) * (a + 1)
  BY <1>1 DEF CounterValue, a
<1>5. CounterValue(h, CountsPerPage) = (CountsPerPage + 1) * a + CountsPerPage
  BY DEF CounterValue, a
<1>6. (CountsPerPage + 1) * a \in Nat
  BY <1>2, CapacityFacts
<1> QED BY <1>1, <1>3, <1>4, <1>5, <1>6, CapacityFacts

(* Over an even high count the value follows the low page. *)
LEMMA ValueFollowsLow ==
    ASSUME NEW h \in Nat, NEW l \in Nat, NEW k \in Nat, ~Odd(h)
    PROVE  /\ l <= k => CounterValue(h, l) <= CounterValue(h, k)
           /\ CounterValue(h, l + 1) = CounterValue(h, l) + 1
<1>1. h \div 2 \in Nat
  OBVIOUS
<1>2. (CountsPerPage + 1) * (h \div 2) \in Nat
  BY <1>1, CapacityFacts
<1> QED BY <1>2 DEF CounterValue

(* A larger even high count never makes the value smaller. *)
LEMMA ValueGrowsWithHigh ==
    ASSUME NEW h \in Nat, NEW g \in Nat, NEW l \in Nat, h <= g, ~Odd(g),
           Odd(h) => l = 0
    PROVE  CounterValue(h, l) <= CounterValue(g, l)
<1> DEFINE a == IF Odd(h) THEN (h + 1) \div 2 ELSE h \div 2
           b == g \div 2
<1>1. a \in Nat /\ b \in Nat /\ a <= b
  BY DEF Odd
<1>2. CounterValue(h, l) = (CountsPerPage + 1) * a + l
  <2>1. CASE Odd(h)
    <3>1. (CountsPerPage + 1) * a \in Nat
      BY <1>1, CapacityFacts
    <3> QED BY <2>1, <3>1 DEF CounterValue
  <2>2. CASE ~Odd(h)
    BY <2>2 DEF CounterValue
  <2> QED BY <2>1, <2>2
<1>3. CounterValue(g, l) = (CountsPerPage + 1) * b + l
  BY DEF CounterValue
<1> HIDE DEF a, b
<1>4. (CountsPerPage + 1) * a <= (CountsPerPage + 1) * b
  BY <1>1, CapacityFacts, TimesMonotone
<1>5. (CountsPerPage + 1) * a \in Nat /\ (CountsPerPage + 1) * b \in Nat
  BY <1>1, CapacityFacts
<1> QED BY <1>2, <1>3, <1>4, <1>5

-----------------------------------------------------------------------------
(* What a write can do to a page. *)

(* Completed or not, a write of a page that is not maxed out leaves a page, *)
(* whose count is the old one, the next one, or an even one beyond.         *)
LEMMA StrikeFacts ==
    ASSUME NEW p \in Page, ~MaxedOut(p), NEW q \in PartlyStruck(p)
    PROVE  /\ q \in Page
           /\ \/ q.count = p.count
              \/ q.count = p.count + 1
              \/ q.count > p.count /\ ~Odd(q.count)
<1>1. p.count \in Nat /\ p.count < CountsPerPage /\ p.torn \in BOOLEAN
      /\ p = [count |-> p.count, torn |-> p.torn]
  BY CapacityFacts DEF Page, MaxedOut
<1>2. CASE q = p
  BY <1>2
<1>3. CASE q.count = p.count + 1 /\ q \in [count : Nat, torn : BOOLEAN]
  BY <1>1, <1>3, CapacityFacts DEF Page
<1>4. CASE /\ p.torn /\ p.count < WordEnd(p.count)
           /\ \/ q = [p EXCEPT !.torn = FALSE]
              \/ q = [count |-> WordEnd(p.count), torn |-> TRUE]
  <2>1. p.count \in 1 .. CountsPerPage
    BY <1>1, <1>4, CapacityFacts DEF Page
  <2>2. WordEnd(p.count) \in p.count .. CountsPerPage /\ WordEnd(p.count) % 2 = 0
    BY <2>1, WordEndFacts
  <2>3. CASE q = [p EXCEPT !.torn = FALSE]
    BY <1>1, <2>3, CapacityFacts DEF Page
  <2>4. CASE q = [count |-> WordEnd(p.count), torn |-> TRUE]
    BY <1>1, <1>4, <2>1, <2>2, <2>4, CapacityFacts DEF Page, Odd
  <2> QED BY <1>4, <2>3, <2>4
<1>5. \/ q = p
      \/ q = Struck(p)
      \/ q = [count |-> p.count + 1, torn |-> TRUE]
      \/ /\ p.torn /\ p.count < WordEnd(p.count)
         /\ q \in {[p EXCEPT !.torn = FALSE],
                   [count |-> WordEnd(p.count), torn |-> TRUE]}
  <2>1. CASE p.torn /\ p.count < WordEnd(p.count)
    BY <2>1, Zenon DEF PartlyStruck
  <2>2. CASE ~(p.torn /\ p.count < WordEnd(p.count))
    <3>1. PartlyStruck(p) = {p, Struck(p), [count |-> p.count + 1, torn |-> TRUE]} \cup {}
      BY <2>2, Zenon DEF PartlyStruck
    <3> QED BY <3>1, Zenon
  <2> QED BY <2>1, <2>2, Zenon
<1>6. CASE q = Struck(p) \/ q = [count |-> p.count + 1, torn |-> TRUE]
  <2>0. PICK b \in BOOLEAN : q = [count |-> p.count + 1, torn |-> b]
    BY <1>6, Zenon DEF Struck
  <2>1. q.count = p.count + 1 /\ q \in [count : Nat, torn : BOOLEAN]
    <3>1. p.count + 1 \in Nat
      BY <1>1
    <3> QED BY <2>0, <3>1, Zenon
  <2> QED BY <1>3, <2>1
<1> QED
  BY <1>2, <1>4, <1>5, <1>6

(* A completed write is among the things a write can do. *)
LEMMA StruckIsPartlyStruck ==
    ASSUME NEW p \in Page
    PROVE  Struck(p) \in PartlyStruck(p) /\ p \in PartlyStruck(p)
BY DEF PartlyStruck

(* Writing the low page under an even high page never lowers the value. *)
LEMMA StrikeLowValue ==
    ASSUME NEW h \in Nat, ~Odd(h), NEW p \in Page, ~MaxedOut(p),
           NEW q \in PartlyStruck(p)
    PROVE  CounterValue(h, p.count) <= CounterValue(h, q.count)
<1>1. p.count \in Nat /\ q.count \in Nat /\ p.count <= q.count
  BY StrikeFacts, CapacityFacts DEF Page
<1> QED BY <1>1, ValueFollowsLow

(* Nor does writing the high page, in Rollover1 (from an even count, with   *)
(* the low page exhausted) or in Rollover3 (from an odd count, with the low *)
(* page erased).                                                            *)
LEMMA StrikeHighValue ==
    ASSUME NEW p \in Page, ~MaxedOut(p), NEW q \in PartlyStruck(p),
           NEW l \in Nat,
           Odd(p.count) => l = 0, ~Odd(p.count) => l = CountsPerPage
    PROVE  /\ CounterValue(p.count, l) <= CounterValue(q.count, l)
           /\ Odd(p.count) /\ Odd(q.count) => q.count = p.count
<1>1. p.count \in Nat /\ q.count \in Nat
  BY StrikeFacts, CapacityFacts DEF Page
<1>2. CounterValue(p.count, l) \in Nat /\ CounterValue(q.count, l) \in Nat
  BY <1>1, ValueType
<1>3. CASE q.count = p.count
  BY <1>2, <1>3
<1>4. CASE q.count = p.count + 1 /\ Odd(p.count)
  BY <1>1, <1>2, <1>4, ValueRollover3
<1>5. CASE q.count = p.count + 1 /\ ~Odd(p.count)
  BY <1>1, <1>2, <1>5, ValueRollover1, CapacityFacts
<1>6. CASE q.count > p.count /\ ~Odd(q.count)
  BY <1>1, <1>6, ValueGrowsWithHigh
<1> QED BY <1>3, <1>4, <1>5, <1>6, StrikeFacts

-----------------------------------------------------------------------------
Inv == TypeOK /\ CounterInv

(* The values the invariant speaks of are natural numbers. *)
LEMMA ValuesTyped ==
    ASSUME TypeOK
    PROVE  /\ pages["High"] \in Page /\ pages["Low"] \in Page
           /\ pages["High"].count \in 0 .. CountsPerPage
           /\ pages["Low"].count \in 0 .. CountsPerPage
           /\ Value \in Nat
           /\ op.base \in Page /\ op.base.count \in 0 .. CountsPerPage
<1>1. pages["High"] \in Page /\ pages["Low"] \in Page /\ op.base \in Page
  BY DEF TypeOK, PageName
<1>2. \A p \in Page : p.count \in 0 .. CountsPerPage
  BY DEF Page
<1>3. pages["High"].count \in Nat /\ pages["Low"].count \in Nat
  BY <1>1, <1>2, CapacityFacts
<1>4. Value \in Nat
  BY <1>3, ValueType, Zenon DEF Value
<1> QED BY <1>1, <1>2, <1>4

(* BaseValue, spelled out for each kind of operation. *)
LEMMA BaseValueFacts ==
    ASSUME TypeOK
    PROVE  /\ op.kind # "write" => BaseValue = Value
           /\ op.kind = "write" /\ op.page = "Low" =>
                 BaseValue = CounterValue(pages["High"].count, op.base.count)
           /\ op.kind = "write" /\ op.page = "High" =>
                 BaseValue = CounterValue(op.base.count, pages["Low"].count)
BY DEF TypeOK, PageName, BaseValue, BasePages, Value

(* The value of the pages without the write in flight is a natural number. *)
LEMMA BaseValueTyped ==
    ASSUME TypeOK
    PROVE  BaseValue \in Nat
<1>1. /\ pages["High"].count \in Nat /\ pages["Low"].count \in Nat
      /\ op.base.count \in Nat
  BY ValuesTyped, CapacityFacts
<1>2. /\ Value \in Nat
      /\ CounterValue(pages["High"].count, op.base.count) \in Nat
      /\ CounterValue(op.base.count, pages["Low"].count) \in Nat
  BY <1>1, ValuesTyped, ValueType
<1>3. op.page \in {"High", "Low"}
  BY DEF TypeOK, PageName
<1> QED BY <1>2, <1>3, BaseValueFacts

(* A board with two erased pages satisfies the invariant. *)
LEMMA InitInv == Init => Inv
<1> SUFFICES ASSUME Init PROVE Inv
  OBVIOUS
<1>1. ErasedPage \in Page
  BY CapacityFacts DEF ErasedPage, Page
<1>2. TypeOK
  BY <1>1 DEF Init, TypeOK, NoOp, Uncalled, Task, PageName
<1>3. Value \in Nat /\ BaseValue = Value
  BY <1>2, ValuesTyped, BaseValueFacts DEF Init, NoOp
<1>4. floor <= Value /\ floor <= BaseValue
  BY <1>3 DEF Init
<1>5. BufferConserved /\ EraseInv /\ WriteInv /\ TaskInv
  BY DEF Init, NoOp, BufferConserved, EraseInv, WriteInv, TaskInv
<1> QED BY <1>2, <1>4, <1>5 DEF Inv, CounterInv

(* Idle flash operations and the ones the capsule issues are well formed. *)
LEMMA OpTyped ==
    ASSUME TypeOK, NEW pg \in PageName
    PROVE  LET Ops == [kind : {"none", "erase", "write", "lost"}, page : PageName,
                       base : Page, applied : BOOLEAN]
           IN  /\ NoOp \in Ops /\ Erase(pg) \in Ops /\ Write(pg) \in Ops
               /\ LostErase \in Ops
<1>1. ErasedPage \in Page
  BY CapacityFacts DEF ErasedPage, Page
<1>2. pages[pg] \in Page
  BY DEF TypeOK
<1> QED BY <1>1, <1>2 DEF NoOp, Erase, Write, LostErase, PageName

(* How the two values move in a step that leaves the pages alone. *)
LEMMA PagesKept ==
    ASSUME TypeOK, pages' = pages
    PROVE  /\ Value' = Value
           /\ op' = op => BaseValue' = BaseValue
           /\ op'.kind # "write" => BaseValue' = Value
           /\ \A pg \in PageName : op' = Write(pg) => BaseValue' = Value
<1>1. Value' = Value
  BY DEF Value
<1>2. op' = op => BaseValue' = BaseValue
  BY DEF BaseValue, BasePages
<1>3. op'.kind # "write" => BaseValue' = Value
  BY DEF BaseValue, BasePages, Value
<1>4. ASSUME NEW pg \in PageName, op' = Write(pg) PROVE BaseValue' = Value
  <2>1. op'.kind = "write" /\ op'.page = pg /\ op'.base = pages[pg]
    BY <1>4 DEF Write, NoOp
  <2>2. [pages EXCEPT ![pg] = pages[pg]] = pages
    BY DEF TypeOK
  <2>3. BasePages' = pages
    BY <2>1, <2>2 DEF BasePages
  <2> QED BY <2>3 DEF BaseValue, Value
<1> QED BY <1>1, <1>2, <1>3, <1>4

(* What a write that is just issued must satisfy. *)
LEMMA FreshWrite ==
    ASSUME TypeOK, NEW pg \in PageName, op' = Write(pg), pages' = pages,
           ~MaxedOut(pages[pg]),
           pg = "Low" => task' = "Increment" /\ ~Odd(pages["High"].count),
           pg = "High" /\ Odd(pages["High"].count) => Empty(pages["Low"]),
           pg = "High" /\ ~Odd(pages["High"].count) =>
               task' = "Increment" /\ MaxedOut(pages["Low"])
    PROVE  EraseInv' /\ WriteInv'
<1>1. /\ op'.kind = "write" /\ op'.page = pg /\ op'.base = pages[pg]
      /\ op'.applied = FALSE
  BY DEF Write, NoOp
<1>2. pages[pg] \in PartlyStruck(pages[pg])
  BY StruckIsPartlyStruck DEF TypeOK
<1> QED BY <1>1, <1>2 DEF EraseInv, WriteInv

(* initialize lowers the floor to zero, and starts the erase of the low page *)
(* unless the flash is busy.                                                 *)
LEMMA InitializePreserves ==
    ASSUME Inv, initialize
    PROVE  Inv'
<1> USE DEF Inv, CounterInv
<1>1. TypeOK'
  BY OpTyped DEF initialize, StartErase, TypeOK, Task, Uncalled, PageName
<1>2. Value' = Value /\ Value' \in Nat
  BY ValuesTyped DEF initialize, Value
<1>3. BaseValue' \in Nat
  <2>1. CASE Idle
    <3>1. BaseValue' = Value'
      BY <2>1 DEF initialize, StartErase, Erase, NoOp, BaseValue, BasePages, Value
    <3> QED BY <3>1, <1>2
  <2>2. CASE ~Idle
    <3>1. BaseValue' = BaseValue
      BY <2>2 DEF initialize, StartErase, BaseValue, BasePages
    <3>2. BaseValue \in Nat
      BY BaseValueTyped
    <3> QED BY <3>1, <3>2
  <2> QED BY <2>1, <2>2
<1>4. floor' <= Value' /\ floor' <= BaseValue'
  BY <1>2, <1>3 DEF initialize
<1>5. BufferConserved'
  BY DEF initialize, StartErase, Idle, Erase, NoOp, BufferConserved
<1>6. EraseInv'
  BY DEF initialize, StartErase, Idle, Erase, NoOp, EraseInv
<1>7. WriteInv'
  BY DEF initialize, StartErase, Idle, Erase, NoOp, WriteInv
<1>8. TaskInv'
  BY DEF initialize, StartErase, Idle, Erase, NoOp, TaskInv, TypeOK
<1> QED BY <1>1, <1>4, <1>5, <1>6, <1>7, <1>8

(* Accepting an increment: the ticket is the value read, which is also the *)
(* value the pages had when the operation in flight was issued.            *)
LEMMA AcceptPreserves ==
    ASSUME Inv, Accept, task = "None",
           op' \in [kind : {"none", "erase", "write", "lost"}, page : PageName,
                    base : Page, applied : BOOLEAN],
           buffer' \in BOOLEAN,
           BufferConserved', EraseInv', WriteInv',
           op'.kind \in {"erase", "write"},
           BaseValue' = Value
    PROVE  Inv'
<1> USE DEF Inv, CounterInv
<1>1. Value \in Nat /\ Value' = Value
  BY ValuesTyped, PagesKept DEF Accept
<1>2. TypeOK'
  BY <1>1 DEF Accept, TypeOK, Task, Uncalled, Larger
<1>3. floor' <= Value' /\ floor' <= BaseValue'
  BY <1>1 DEF Accept, Larger, TypeOK
<1>4. TaskInv'
  BY DEF Accept, TaskInv
<1> QED BY <1>2, <1>3, <1>4

(* read_and_increment with low erased and high odd: the erase or the write  *)
(* under way is the one that has to come next, or Rollover3 is started.     *)
LEMMA IncrementAtRollover3Preserves ==
    ASSUME Inv, IncrementAtRollover3
    PROVE  Inv'
<1> USE DEF Inv, CounterInv
<1>0. /\ task = "None" /\ Odd(pages["High"].count) /\ Empty(pages["Low"]) /\ Accept
      /\ pages' = pages /\ task' = "Increment"
  BY DEF IncrementAtRollover3, CanIncrement, Accept
<1>1. CASE buffer /\ Idle
  <2>1. op' = Write("High") /\ buffer' = FALSE
    BY <1>1 DEF IncrementAtRollover3, start_increment
  <2>2. ~MaxedOut(pages["High"])
    BY <1>0, ValuesTyped, CapacityFacts DEF MaxedOut, Odd
  <2>3. EraseInv' /\ WriteInv'
    BY <1>0, <2>1, <2>2, FreshWrite DEF PageName
  <2>4. BaseValue' = Value
    BY <1>0, <2>1, PagesKept DEF PageName
  <2>5. op'.kind = "write" /\ BufferConserved'
    BY <2>1 DEF Write, NoOp, BufferConserved
  <2> QED BY <1>0, <2>1, <2>3, <2>4, <2>5, OpTyped, AcceptPreserves DEF PageName
<1>2. CASE ~(buffer /\ Idle)
  <2>1. op' = op /\ buffer' = buffer
    BY <1>2 DEF IncrementAtRollover3, start_increment, TypeOK
  <2>2. op.kind \in {"erase", "write"}
    BY <1>0, <1>2 DEF BufferConserved, Idle, TaskInv, TypeOK
  <2>3. BaseValue = Value
    <3>1. CASE op.kind = "erase"
      BY <3>1, BaseValueFacts
    <3>2. CASE op.kind = "write"
      <4>1. op.page = "High" /\ Odd(op.base.count)
        BY <1>0, <3>2 DEF WriteInv, TypeOK, PageName
      <4>2. pages["High"].count = op.base.count
        <5>1. pages["High"] \in PartlyStruck(op.base) /\ ~MaxedOut(op.base)
          BY <3>2, <4>1 DEF WriteInv
        <5>2. op.base \in Page /\ 0 \in Nat
          BY ValuesTyped
        <5> QED BY <5>1, <5>2, <4>1, <1>0, StrikeHighValue
      <4> QED BY <3>2, <4>1, <4>2, BaseValueFacts DEF Value
    <3> QED BY <2>2, <3>1, <3>2
  <2>4. BaseValue' = Value
    BY <1>0, <2>1, <2>3, PagesKept
  <2>5. BufferConserved' /\ EraseInv' /\ WriteInv'
    BY <1>0, <2>1 DEF BufferConserved, EraseInv, WriteInv
  <2> QED BY <1>0, <2>1, <2>2, <2>4, <2>5, AcceptPreserves DEF TypeOK
<1> QED BY <1>1, <1>2

(* read_and_increment with low not erased and high odd: the erase under way *)
(* is Rollover2, or it is started.                                          *)
LEMMA IncrementAtRollover2Preserves ==
    ASSUME Inv, IncrementAtRollover2
    PROVE  Inv'
<1> USE DEF Inv, CounterInv
<1>0. /\ task = "None" /\ Odd(pages["High"].count) /\ ~Empty(pages["Low"]) /\ Accept
      /\ pages' = pages /\ task' = "Increment" /\ buffer' = buffer
  BY DEF IncrementAtRollover2, CanIncrement, Accept
<1>1. op.kind \in {"none", "erase"}
  BY <1>0 DEF WriteInv, TaskInv, TypeOK, PageName
<1>2. op' = IF Idle THEN Erase("Low") ELSE op
  BY DEF IncrementAtRollover2, StartErase
<1>3. op'.kind = "erase" /\ BufferConserved'
  BY <1>0, <1>1, <1>2 DEF Idle, Erase, NoOp, BufferConserved
<1>4. EraseInv' /\ WriteInv'
  BY <1>0, <1>1, <1>2, <1>3 DEF Idle, Erase, NoOp, EraseInv, WriteInv
<1>5. BaseValue' = Value
  BY <1>0, <1>3, PagesKept
<1>6. op' \in [kind : {"none", "erase", "write", "lost"}, page : PageName,
               base : Page, applied : BOOLEAN]
  BY <1>2, OpTyped DEF TypeOK, PageName
<1> QED BY <1>0, <1>3, <1>4, <1>5, <1>6, AcceptPreserves DEF TypeOK

(* read_and_increment with high even: the capsule has the buffer, so the    *)
(* flash can only be idle and the write of Incr1 or Rollover1 is started.   *)
LEMMA IncrementAtEvenPreserves ==
    ASSUME Inv, IncrementAtEven
    PROVE  Inv'
<1> USE DEF Inv, CounterInv
<1>0. /\ task = "None" /\ ~Odd(pages["High"].count) /\ buffer /\ Accept
      /\ pages' = pages /\ task' = "Increment"
  BY DEF IncrementAtEven, CanIncrement, Accept
<1>1. Idle
  BY <1>0 DEF Idle, BufferConserved, EraseInv, TaskInv, TypeOK
<1>2. PICK pg \in PageName :
         /\ ~MaxedOut(pages[pg])
         /\ pg = "High" => MaxedOut(pages["Low"])
         /\ start_increment(pg)
  BY DEF IncrementAtEven, PageName
<1>3. op' = Write(pg) /\ buffer' = FALSE
  BY <1>1, <1>2 DEF start_increment
<1>4. EraseInv' /\ WriteInv'
  BY <1>0, <1>2, <1>3, FreshWrite
<1>5. BaseValue' = Value
  BY <1>0, <1>3, PagesKept
<1>6. op'.kind = "write" /\ BufferConserved'
  BY <1>3 DEF Write, NoOp, BufferConserved
<1> QED BY <1>0, <1>3, <1>4, <1>5, <1>6, OpTyped, AcceptPreserves

(* The unwrap of an absent buffer changes neither flash nor promises. *)
LEMMA IncrementPanicsPreserves ==
    ASSUME Inv, IncrementPanics
    PROVE  Inv'
BY DEF Inv, CounterInv, IncrementPanics, TypeOK, BufferConserved, EraseInv,
       WriteInv, TaskInv, Value, BaseValue, BasePages

(* A callback that leaves the flash idle, or erasing for the client, and    *)
(* promises nothing new.                                                    *)
LEMMA QuietCallback ==
    ASSUME Inv, pages' = pages, floor' = floor, ticket' = ticket,
           panicked' = panicked, TypeOK', BufferConserved',
           EraseInv', TaskInv', op'.kind # "write"
    PROVE  Inv'
<1> USE DEF Inv, CounterInv
<1>1. floor' <= Value' /\ floor' <= BaseValue'
  BY PagesKept
<1>2. WriteInv'
  BY DEF WriteInv
<1> QED BY <1>1, <1>2

(* What a callback of the client leaves is well typed. *)
LEMMA TellClientTyped ==
    ASSUME TypeOK, NEW code \in {"SUCCESS", "FAIL", "EINVAL"}, TellClient(code)
    PROVE  /\ task' = "None" /\ task' \in Task
           /\ last' \in {"Uncalled", "InitializeDone", "IncrementDone"}
                       \X {"SUCCESS", "FAIL", "EINVAL"}
BY DEF TellClient, TypeOK, Task

(* erase_done with a failure ends the task and leaves the flash idle. *)
LEMMA EraseFailedPreserves ==
    ASSUME Inv, EraseFailed
    PROVE  Inv'
<1> USE DEF Inv, CounterInv
<1>1. /\ op' = NoOp /\ op'.kind = "none" /\ op.kind = "erase" /\ TellClient("FAIL")
      /\ UNCHANGED <<buffer, pages, ticket, panicked, floor>>
  BY DEF EraseFailed, Reported, NoOp
<1>2. TypeOK'
  BY <1>1, TellClientTyped, OpTyped DEF TypeOK, PageName
<1>3. BufferConserved' /\ EraseInv' /\ TaskInv'
  BY <1>1, TellClientTyped DEF BufferConserved, EraseInv, TaskInv
<1> QED BY <1>1, <1>2, <1>3, QuietCallback

(* erase_done for an initialization goes on to the high page or ends. *)
LEMMA EraseDoneInitializePreserves ==
    ASSUME Inv, EraseDoneInitialize
    PROVE  Inv'
<1> USE DEF Inv, CounterInv
<1>0. /\ op.kind = "erase" /\ op.applied /\ task = "Initialize"
      /\ UNCHANGED <<buffer, pages, ticket, panicked, floor>>
  BY DEF EraseDoneInitialize, Reported
<1>1. CASE Empty(pages["High"])
  <2>1. op' = NoOp /\ op'.kind = "none" /\ TellClient("SUCCESS")
    BY <1>1 DEF EraseDoneInitialize, NoOp
  <2>2. TypeOK'
    BY <1>0, <2>1, TellClientTyped, OpTyped DEF TypeOK, PageName
  <2>3. BufferConserved' /\ EraseInv' /\ TaskInv'
    BY <1>0, <2>1, TellClientTyped DEF BufferConserved, EraseInv, TaskInv
  <2> QED BY <1>0, <2>1, <2>2, <2>3, QuietCallback
<1>2. CASE ~Empty(pages["High"])
  <2>1. op' = Erase("High") /\ UNCHANGED <<task, last>>
    BY <1>2 DEF EraseDoneInitialize
  <2>2. op'.kind = "erase" /\ op'.page = "High" /\ op'.applied = FALSE
    BY <2>1 DEF Erase, NoOp
  <2>3. TypeOK'
    BY <1>0, <2>1, OpTyped DEF TypeOK, PageName
  <2>4. op.page = "Low" /\ Empty(pages["Low"])
    BY <1>0, <1>2 DEF EraseInv, TypeOK, PageName
  <2>5. BufferConserved' /\ EraseInv' /\ TaskInv'
    BY <1>0, <2>1, <2>2, <2>4 DEF BufferConserved, EraseInv, TaskInv
  <2> QED BY <1>0, <2>2, <2>3, <2>5, QuietCallback
<1> QED BY <1>1, <1>2

(* erase_done of Rollover2 starts Rollover3 from an odd high page over an   *)
(* erased low page.                                                         *)
LEMMA EraseDoneRollover2Preserves ==
    ASSUME Inv, EraseDoneRollover2
    PROVE  Inv'
<1> USE DEF Inv, CounterInv
<1>0. /\ op.kind = "erase" /\ op.applied /\ task # "Initialize"
      /\ UNCHANGED <<pages, ticket, floor>>
  BY DEF EraseDoneRollover2, Reported
<1>1. op.page = "Low" /\ Odd(pages["High"].count) /\ Empty(pages["Low"]) /\ buffer
  BY <1>0 DEF EraseInv, BufferConserved
<1>2. ~MaxedOut(pages["High"])
  BY <1>1, ValuesTyped, CapacityFacts DEF MaxedOut, Odd
<1>3. op' = Write("High") /\ buffer' = FALSE /\ UNCHANGED <<task, last, panicked>>
  BY <1>1, <1>2 DEF EraseDoneRollover2
<1>4. TypeOK'
  BY <1>0, <1>3, OpTyped DEF TypeOK, PageName
<1>5. EraseInv' /\ WriteInv'
  BY <1>0, <1>1, <1>2, <1>3, FreshWrite DEF PageName
<1>6. Value' = Value /\ BaseValue' = Value /\ BaseValue = Value
  BY <1>0, <1>3, PagesKept, BaseValueFacts DEF PageName
<1>7. op'.kind = "write" /\ BufferConserved'
  BY <1>3 DEF Write, NoOp, BufferConserved
<1>8. TaskInv'
  BY <1>0, <1>3, <1>6, <1>7 DEF TaskInv
<1> QED BY <1>0, <1>4, <1>5, <1>6, <1>7, <1>8

(* write_done with a failure gives the buffer back and ends the task. *)
LEMMA WriteFailedPreserves ==
    ASSUME Inv, WriteFailedIncrement \/ WriteDoneBackground
    PROVE  Inv'
<1> USE DEF Inv, CounterInv
<1>1. /\ op' = NoOp /\ op'.kind = "none" /\ op.kind = "write" /\ buffer' = TRUE
      /\ UNCHANGED <<pages, ticket, panicked, floor>>
  BY DEF WriteFailedIncrement, WriteDoneBackground, Reported, NoOp
<1>2. task' = "None" /\ TypeOK'
  <2>1. CASE WriteFailedIncrement
    <3>1. TellClient("FAIL")
      BY <2>1 DEF WriteFailedIncrement
    <3> QED BY <1>1, <3>1, TellClientTyped, OpTyped DEF TypeOK, PageName
  <2>2. CASE WriteDoneBackground
    BY <1>1, <2>2, OpTyped DEF TypeOK, PageName, WriteDoneBackground
  <2> QED BY <2>1, <2>2
<1>3. BufferConserved' /\ EraseInv' /\ TaskInv'
  BY <1>1, <1>2 DEF BufferConserved, EraseInv, TaskInv
<1> QED BY <1>1, <1>2, <1>3, QuietCallback

(* write_done for an initialization gives the buffer back; the erase it asks *)
(* for is refused or lost.                                                   *)
LEMMA WriteDoneInitializePreserves ==
    ASSUME Inv, WriteDoneInitialize
    PROVE  Inv'
<1> USE DEF Inv, CounterInv
<1>0. /\ task = "Initialize" /\ op.kind = "write" /\ buffer' = TRUE
      /\ UNCHANGED <<pages, ticket, panicked, floor>>
  BY DEF WriteDoneInitialize, Reported
<1>1. CASE Muxed
  <2>1. op' = LostErase /\ op'.kind = "lost" /\ UNCHANGED <<task, last>>
    BY <1>1 DEF WriteDoneInitialize, LostErase, NoOp
  <2>2. TypeOK'
    BY <1>0, <2>1, OpTyped DEF TypeOK, PageName
  <2>3. BufferConserved' /\ EraseInv' /\ TaskInv'
    BY <1>0, <2>1 DEF BufferConserved, EraseInv, TaskInv
  <2> QED BY <1>0, <2>1, <2>2, <2>3, QuietCallback
<1>2. CASE ~Muxed
  <2>1. op' = NoOp /\ op'.kind = "none" /\ TellClient("EINVAL")
    BY <1>2 DEF WriteDoneInitialize, NoOp
  <2>2. TypeOK'
    BY <1>0, <2>1, TellClientTyped, OpTyped DEF TypeOK, PageName
  <2>3. BufferConserved' /\ EraseInv' /\ TaskInv'
    BY <1>0, <2>1, TellClientTyped DEF BufferConserved, EraseInv, TaskInv
  <2> QED BY <1>0, <2>1, <2>2, <2>3, QuietCallback
<1> QED BY <1>1, <1>2

(* What a completed write says about the values.  With a task Increment it  *)
(* was Rollover3 if low is empty, and Incr1 or Rollover1 if it is not.      *)
LEMMA CompletedWrite ==
    ASSUME Inv, op.kind = "write", op.applied, task = "Increment"
    PROVE  /\ Empty(pages["Low"]) =>
                 Value = ticket /\ ~Odd(pages["High"].count)
           /\ ~Empty(pages["Low"]) => Value = ticket + 1
<1> USE DEF Inv, CounterInv
<1>1. /\ op.base \in Page /\ op.base.count \in Nat
      /\ pages["High"].count \in Nat /\ pages["Low"].count \in Nat
      /\ pages["Low"].count <= CountsPerPage
  BY ValuesTyped, CapacityFacts
<1>2. pages[op.page].count = op.base.count + 1
  BY DEF WriteInv, Struck
<1>3. ticket = BaseValue
  BY DEF TaskInv
<1>4. CASE op.page = "Low"
  <2>1. ~Odd(pages["High"].count) /\ ~Empty(pages["Low"])
    BY <1>1, <1>2, <1>4 DEF WriteInv, Empty
  <2>2. ticket = CounterValue(pages["High"].count, op.base.count)
    BY <1>3, <1>4, BaseValueFacts
  <2>3. Value = CounterValue(pages["High"].count, op.base.count + 1)
    BY <1>2, <1>4 DEF Value
  <2> QED BY <1>1, <2>1, <2>2, <2>3, ValueFollowsLow
<1>5. CASE op.page = "High" /\ Odd(op.base.count)
  <2>1. Empty(pages["Low"]) /\ pages["Low"].count = 0
    BY <1>5 DEF WriteInv, Empty
  <2>2. ticket = CounterValue(op.base.count, 0)
    BY <1>3, <1>5, <2>1, BaseValueFacts
  <2>3. Value = CounterValue(op.base.count + 1, 0)
    BY <1>2, <1>5, <2>1 DEF Value
  <2>4. ~Odd(op.base.count + 1) /\ CounterValue(op.base.count + 1, 0) = CounterValue(op.base.count, 0)
    BY <1>1, <1>5, ValueRollover3
  <2> QED BY <1>2, <1>5, <2>1, <2>2, <2>3, <2>4
<1>6. CASE op.page = "High" /\ ~Odd(op.base.count)
  <2>1. pages["Low"].count = CountsPerPage /\ ~Empty(pages["Low"])
    BY <1>1, <1>6, CapacityFacts DEF WriteInv, MaxedOut, Empty
  <2>2. ticket = CounterValue(op.base.count, CountsPerPage)
    BY <1>3, <1>6, <2>1, BaseValueFacts
  <2>3. Value = CounterValue(op.base.count + 1, CountsPerPage)
    BY <1>2, <1>6, <2>1 DEF Value
  <2> QED BY <1>1, <1>6, <2>1, <2>2, <2>3, ValueRollover1, CapacityFacts
<1> QED BY <1>4, <1>5, <1>6 DEF TypeOK, PageName

(* write_done of Rollover3 with an increment pending starts Incr1, and the  *)
(* value is still the one that was handed out.                              *)
LEMMA WriteDoneThenIncr1Preserves ==
    ASSUME Inv, WriteDoneThenIncr1
    PROVE  Inv'
<1> USE DEF Inv, CounterInv
<1>0. /\ op.kind = "write" /\ op.applied /\ task = "Increment" /\ Empty(pages["Low"])
      /\ op' = Write("Low") /\ buffer' = FALSE
      /\ UNCHANGED <<task, pages, ticket, last, panicked, floor>>
  BY DEF WriteDoneThenIncr1, Reported
<1>1. Value = ticket /\ ~Odd(pages["High"].count)
  BY <1>0, CompletedWrite
<1>2. TypeOK'
  BY <1>0, OpTyped DEF TypeOK, PageName
<1>3. ~MaxedOut(pages["Low"])
  BY <1>0, CapacityFacts DEF Empty, MaxedOut
<1>4. EraseInv' /\ WriteInv'
  BY <1>0, <1>1, <1>3, FreshWrite DEF PageName
<1>5. Value' = Value /\ BaseValue' = Value
  BY <1>0, PagesKept DEF PageName
<1>6. op'.kind = "write" /\ BufferConserved'
  BY <1>0 DEF Write, NoOp, BufferConserved
<1>7. TaskInv'
  BY <1>0, <1>1, <1>5, <1>6 DEF TaskInv
<1> QED BY <1>0, <1>2, <1>4, <1>5, <1>6, <1>7

(* write_done of Incr1 or Rollover1 may promise ticket + 1, since that is the *)
(* value now, and starts Rollover2 only over an odd high page.                *)
LEMMA WriteDoneAcknowledgePreserves ==
    ASSUME Inv, WriteDoneAcknowledge
    PROVE  Inv' /\ Value' = ticket + 1
<1> USE DEF Inv, CounterInv
<1>0. /\ op.kind = "write" /\ op.applied /\ task = "Increment" /\ ~Empty(pages["Low"])
      /\ op' = IF Full(pages["Low"]) /\ Odd(pages["High"].count)
                 THEN Erase("Low") ELSE NoOp
      /\ buffer' = TRUE /\ TellClient("SUCCESS")
      /\ floor' = Larger(floor, ticket + 1)
      /\ UNCHANGED <<pages, ticket, panicked>>
  BY DEF WriteDoneAcknowledge, Reported
<1>1. Value = ticket + 1
  BY <1>0, CompletedWrite
<1>2. /\ op' = NoOp \/ (op' = Erase("Low") /\ Odd(pages["High"].count))
      /\ op'.kind # "write" /\ op'.kind # "lost"
  BY <1>0 DEF Erase, NoOp
<1>3. TypeOK'
  <2>1. floor' \in Nat
    BY <1>0 DEF Larger, TypeOK
  <2> QED BY <1>0, <1>2, <2>1, TellClientTyped, OpTyped DEF TypeOK, PageName
<1>4. Value' = Value /\ BaseValue' = Value
  BY <1>0, <1>2, PagesKept
<1>5. floor' <= Value' /\ floor' <= BaseValue'
  BY <1>0, <1>1, <1>4 DEF Larger, TypeOK
<1>6. BufferConserved' /\ WriteInv'
  BY <1>0, <1>2 DEF BufferConserved, WriteInv
<1>7. EraseInv'
  BY <1>0, <1>2 DEF EraseInv, Erase, NoOp
<1>8. TaskInv'
  BY <1>0, <1>2, TellClientTyped DEF TaskInv
<1> QED BY <1>1, <1>3, <1>4, <1>5, <1>6, <1>7, <1>8

(* The flash changes the page of the operation in flight to one of the      *)
(* results that operation can have.                                         *)
LEMMA FlashStepPreserves ==
    ASSUME Inv, op.kind \in {"erase", "write"},
           NEW p, p \in PartialResults,
           pages' = [pages EXCEPT ![op.page] = p],
           op' = [op EXCEPT !.applied = op'.applied], op'.applied \in BOOLEAN,
           op'.applied => p = FullResult,
           UNCHANGED <<task, buffer, ticket, last, panicked, floor>>
    PROVE  Inv'
<1> USE DEF Inv, CounterInv
<1>0. /\ op.page \in {"High", "Low"} /\ op.base \in Page
      /\ op'.kind = op.kind /\ op'.page = op.page /\ op'.base = op.base
      /\ pages'[op.page] = p
      /\ op.page = "High" => pages'["Low"] = pages["Low"]
      /\ op.page = "Low" => pages'["High"] = pages["High"]
  BY DEF TypeOK, PageName
<1>1. p \in Page
  <2>1. CASE op.kind = "erase"
    BY <2>1 DEF PartialResults, PartlyErased
  <2>2. CASE op.kind = "write"
    <3>1. ~MaxedOut(op.base) /\ p \in PartlyStruck(op.base)
      BY <2>2 DEF WriteInv, PartialResults
    <3> QED BY <1>0, <3>1, StrikeFacts
  <2> QED BY <2>1, <2>2
<1>2. TypeOK'
  BY <1>0, <1>1 DEF TypeOK, PageName
<1>3. BufferConserved'
  BY <1>0 DEF BufferConserved
<1>6. Value' \in Nat
  <2>1. pages'["High"] \in Page /\ pages'["Low"] \in Page
    BY <1>2 DEF TypeOK, PageName
  <2>2. pages'["High"].count \in Nat /\ pages'["Low"].count \in Nat
    BY <2>1, CapacityFacts DEF Page
  <2> QED BY <2>2, ValueType, Zenon DEF Value
<1>4. CASE op.kind = "erase"
  <2>1. EraseInv' /\ WriteInv'
    <3>1. op'.applied => Empty(p)
      BY <1>4 DEF FullResult, ErasedPage, Empty
    <3> QED BY <1>0, <1>4, <3>1 DEF EraseInv, WriteInv
  <2>2. BaseValue' = Value' /\ Value' \in Nat
    BY <1>0, <1>4, <1>6 DEF BaseValue, BasePages, Value
  <2>3. CASE task = "Initialize"
    <3>1. floor' <= Value' /\ floor' <= BaseValue'
      BY <2>2, <2>3 DEF TaskInv
    <3>2. TaskInv'
      BY <1>0, <1>4, <2>3 DEF TaskInv
    <3> QED BY <1>2, <1>3, <2>1, <3>1, <3>2
  <2>4. CASE task # "Initialize"
    <3>1. op.page = "Low" /\ Odd(pages["High"].count)
      BY <1>4, <2>4 DEF EraseInv
    <3>2. Value' = Value /\ BaseValue = Value
      <4>1. p.count \in Nat /\ pages["Low"].count \in Nat /\ pages["High"].count \in Nat
        BY <1>1, ValuesTyped, CapacityFacts DEF Page
      <4> QED BY <1>0, <1>4, <3>1, <4>1, ValueOddHidesLow, BaseValueFacts DEF Value
    <3>3. TaskInv'
      BY <1>0, <1>4, <2>2, <2>4, <3>2 DEF TaskInv
    <3> QED BY <1>2, <1>3, <2>1, <2>2, <3>2, <3>3
  <2> QED BY <2>3, <2>4
<1>5. CASE op.kind = "write"
  <2>0. /\ ~MaxedOut(op.base) /\ p \in PartlyStruck(op.base)
        /\ p.count \in Nat /\ op.base.count \in Nat
        /\ pages["High"].count \in Nat /\ pages["Low"].count \in Nat
    BY <1>1, <1>5, ValuesTyped, CapacityFacts DEF WriteInv, PartialResults, Page
  <2>1. EraseInv' /\ WriteInv'
    <3>1. op'.applied => p = Struck(op.base)
      BY <1>5 DEF FullResult
    <3> QED BY <1>0, <1>5, <2>0, <3>1 DEF EraseInv, WriteInv
  <2>2. BaseValue' = BaseValue
    BY <1>0, <1>5 DEF BaseValue, BasePages, TypeOK, PageName
  <2>3. BaseValue <= Value'
    <3>1. CASE op.page = "Low"
      <4>1. ~Odd(pages["High"].count)
        BY <1>5, <3>1 DEF WriteInv
      <4> QED BY <1>0, <1>5, <2>0, <3>1, <4>1, StrikeLowValue, BaseValueFacts DEF Value
    <3>2. CASE op.page = "High"
      <4>1. /\ Odd(op.base.count) => pages["Low"].count = 0
            /\ ~Odd(op.base.count) => pages["Low"].count = CountsPerPage
        BY <1>5, <3>2, ValuesTyped, CapacityFacts DEF WriteInv, Empty, MaxedOut
      <4> QED BY <1>0, <1>5, <2>0, <3>2, <4>1, StrikeHighValue, BaseValueFacts DEF Value
    <3> QED BY <1>0, <3>1, <3>2
  <2>4. floor' <= Value' /\ floor' <= BaseValue'
    <3>1. Value' \in Nat /\ BaseValue \in Nat /\ floor \in Nat
      BY <1>6, BaseValueTyped DEF TypeOK
    <3> QED BY <2>2, <2>3, <3>1
  <2>5. TaskInv'
    BY <1>0, <1>5, <2>2 DEF TaskInv
  <2> QED BY <1>2, <1>3, <2>1, <2>4, <2>5
<1> QED BY <1>4, <1>5

(* A flash operation that takes effect, in part or in full, keeps the       *)
(* invariant.                                                               *)
LEMMA FlashPreserves ==
    ASSUME Inv, FlashPartly \/ FlashApplies
    PROVE  Inv'
<1>1. CASE FlashPartly
  <2>1. PICK p \in PartialResults : pages' = [pages EXCEPT ![op.page] = p]
    BY <1>1 DEF FlashPartly
  <2>2. /\ op.kind \in {"erase", "write"} /\ op' = op /\ op.applied = FALSE
        /\ UNCHANGED <<task, buffer, ticket, last, panicked, floor>>
    BY <1>1 DEF FlashPartly, Inv, TypeOK
  <2>3. op' = [op EXCEPT !.applied = op'.applied] /\ op'.applied \in BOOLEAN
    BY <2>2 DEF Inv, TypeOK
  <2> QED BY <2>1, <2>2, <2>3, FlashStepPreserves
<1>2. CASE FlashApplies
  <2>1. /\ op.kind \in {"erase", "write"} /\ op' = [op EXCEPT !.applied = TRUE]
        /\ pages' = [pages EXCEPT ![op.page] = FullResult]
        /\ UNCHANGED <<task, buffer, ticket, last, panicked, floor>>
    BY <1>2 DEF FlashApplies
  <2>2. op'.applied = TRUE /\ op' = [op EXCEPT !.applied = op'.applied]
    BY <2>1 DEF Inv, TypeOK
  <2>3. FullResult \in PartialResults
    <3>1. ErasedPage \in Page
      BY CapacityFacts DEF ErasedPage, Page
    <3> QED BY <3>1, StruckIsPartlyStruck
            DEF FullResult, PartialResults, PartlyErased, Inv, TypeOK
  <2> QED BY <2>1, <2>2, <2>3, FlashStepPreserves
<1> QED BY <1>1, <1>2

(* Loss of power keeps the invariant: the pages already show at least what  *)
(* was promised, with or without the write that was cut short.              *)
LEMMA ResetPreserves ==
    ASSUME Inv, Reset
    PROVE  Inv'
<1> USE DEF Inv, CounterInv
<1>1. /\ op' = NoOp /\ op'.kind = "none" /\ task' = "None" /\ buffer' = TRUE
      /\ UNCHANGED <<pages, floor>>
  BY DEF Reset, NoOp
<1>2. TypeOK'
  BY <1>1, OpTyped DEF Reset, TypeOK, Task, Uncalled, PageName
<1>3. BufferConserved' /\ EraseInv' /\ WriteInv' /\ TaskInv'
  BY <1>1 DEF BufferConserved, EraseInv, WriteInv, TaskInv
<1>4. Value' = Value /\ BaseValue' = Value
  BY <1>1, PagesKept
<1> QED BY <1>1, <1>2, <1>3, <1>4

(* The invariant is inductive. *)
LEMMA NextPreserves == Inv /\ [Next]_vars => Inv'
<1> SUFFICES ASSUME Inv, [Next]_vars PROVE Inv'
  OBVIOUS
<1>1. CASE initialize
  BY <1>1, InitializePreserves
<1>2. CASE read_and_increment
  BY <1>2, IncrementAtRollover3Preserves, IncrementAtRollover2Preserves,
     IncrementAtEvenPreserves, IncrementPanicsPreserves DEF read_and_increment
<1>3. CASE erase_done
  BY <1>3, EraseFailedPreserves, EraseDoneInitializePreserves,
     EraseDoneRollover2Preserves DEF erase_done
<1>4. CASE write_done
  BY <1>4, WriteFailedPreserves, WriteDoneInitializePreserves,
     WriteDoneThenIncr1Preserves, WriteDoneAcknowledgePreserves DEF write_done
<1>5. CASE FlashPartly \/ FlashApplies
  BY <1>5, FlashPreserves
<1>6. CASE Reset
  BY <1>6, ResetPreserves
<1>7. CASE UNCHANGED vars
  BY <1>7 DEF vars, Inv, CounterInv, TypeOK, BufferConserved, EraseInv,
              WriteInv, TaskInv, Value, BaseValue, BasePages
<1> QED BY <1>1, <1>2, <1>3, <1>4, <1>5, <1>6, <1>7 DEF Next

-----------------------------------------------------------------------------
(* The inductive invariant holds in every reachable state, for every page   *)
(* geometry, every choice of calls and faults, and both flash stacks.       *)
THEOREM CounterInvariant == Spec => [](TypeOK /\ CounterInv)
<1>1. Init => Inv
  BY InitInv
<1>2. Inv /\ [Next]_vars => Inv'
  BY NextPreserves
<1> QED BY <1>1, <1>2, PTL DEF Spec, Inv

(* Type correctness of the capsule: in particular no count ever exceeds a   *)
(* page, also when torn writes make the decoder skip to the end of a word.  *)
THEOREM TypeCorrect == Spec => []TypeOK
BY CounterInvariant, PTL

(* The counter never shows less than what read_and_increment returned or an *)
(* acknowledged increment reached, whatever fails and whenever power is     *)
(* lost.                                                                    *)
THEOREM NoRollbackHolds == Spec => []NoRollback
<1>1. CounterInv => NoRollback
  BY DEF CounterInv, NoRollback
<1> QED BY <1>1, CounterInvariant, PTL

(* The write buffer is never lost and never in two places. *)
THEOREM BufferConservedHolds == Spec => []BufferConserved
<1>1. CounterInv => BufferConserved
  BY DEF CounterInv
<1> QED BY <1>1, CounterInvariant, PTL

(* increment_done(SUCCESS) is sent exactly when the counter is one larger   *)
(* than the value handed out.                                               *)
THEOREM AcknowledgedExactlyHolds == Spec => AcknowledgedExactly
<1>1. Inv /\ [Next]_vars => [WriteDoneAcknowledge => Value' = ticket + 1]_vars
  BY WriteDoneAcknowledgePreserves
<1>2. Spec => []Inv
  BY CounterInvariant, PTL DEF Inv
<1> QED BY <1>1, <1>2, PTL DEF Spec, AcknowledgedExactly

=============================================================================
