---------------------------- MODULE CounterPage ----------------------------
(***************************************************************************)
(* One flash page used as a unary counter (nvcounter/internal.rs).  The    *)
(* page is described by what its reader can tell: the count that           *)
(* read_page_count decodes, and whether the last word written differs from *)
(* the pattern of that count because a write was cut short ("torn").       *)
(* CounterWords.tla checks this description against the words themselves.  *)
(***************************************************************************)
EXTENDS Integers

CONSTANTS
    CountsPerWord,   \* COUNTS_PER_WORD: 8 in the code
    WordsPerPage     \* WORDS_PER_PAGE: 512 in the code

ASSUME CountsPerWordAssumption ==
    CountsPerWord \in Nat \ {0} /\ CountsPerWord % 2 = 0

ASSUME WordsPerPageAssumption == WordsPerPage \in Nat \ {0}

CountsPerPage == CountsPerWord * WordsPerPage

-----------------------------------------------------------------------------
(* A page that counts nothing is erased and therefore cannot be torn. *)
Page == {p \in [count : 0 .. CountsPerPage, torn : BOOLEAN] :
             p.count = 0 => ~p.torn}

ErasedPage == [count |-> 0, torn |-> FALSE]

(* page_empty *)
Empty(p) == p.count = 0

(* low_page_full looks for an all-zero last word, so a page whose last word *)
(* was torn is counted as full by read_page_count and not by this test.     *)
Full(p) == p.count = CountsPerPage /\ ~p.torn

(* Fault: off by one at the last count of a page. *)
MaxedOutOffByOne(p) == p.count > CountsPerPage

(* The test with which start_increment refuses (ESIZE). *)
MaxedOut(p) == p.count >= CountsPerPage

(* The count at the end of the word that holds the n-th count. *)
WordEnd(n) == CountsPerWord * (((n - 1) \div CountsPerWord) + 1)

(* What a completed write of start_increment leaves. *)
Struck(p) == [count |-> p.count + 1, torn |-> FALSE]

(* What that write may leave when it is cut short.  The bits of a torn count *)
(* are rewritten together with those of the next one; if some of the next    *)
(* are cleared while some of the torn ones are not, no pattern matches and   *)
(* the decoder falls through to the full word.                               *)
PartlyStruck(p) ==
    {p, Struck(p), [count |-> p.count + 1, torn |-> TRUE]}
      \cup IF p.torn /\ p.count < WordEnd(p.count)
             THEN {[p EXCEPT !.torn = FALSE],
                   [count |-> WordEnd(p.count), torn |-> TRUE]}
             ELSE {}

(* What an erase may leave when it is cut short: bits are back to one in no *)
(* particular order, so any count is possible.                              *)
PartlyErased == Page

=============================================================================
