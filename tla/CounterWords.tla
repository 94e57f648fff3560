---------------------------- MODULE CounterWords ----------------------------
(***************************************************************************)
(* The words behind CounterPage.tla (nvcounter/internal.rs).  A word of    *)
(* the page is CountsPerWord groups of bits (four bits each in the code);  *)
(* the n-th count of a word clears its n-th group.  Flash clears the bits  *)
(* of a write, and sets the bits of an erase, in no particular order, so a *)
(* group whose bits are not all equal is "part".  The decoder is the one   *)
(* of the code; the properties say that CounterPage describes it.          *)
(***************************************************************************)
EXTENDS CounterPage, FiniteSetsExt

VARIABLES
    words,   \* the page: word -> group -> "set", "part" or "clear"
    doing,   \* "none", "write" or "erase"
    start    \* the page as decoded when the operation was issued

wvars == <<words, doing, start>>

Groups == 1 .. CountsPerWord
WordIndex == 0 .. (WordsPerPage - 1)
Bits == {"set", "part", "clear"}

ErasedWord == [g \in Groups |-> "set"]

(* WRITE_PATTERNS[k - 1] *)
Pattern(k) == [g \in Groups |-> IF g <= k THEN "clear" ELSE "set"]

(* The masks of read_page_count.  The test for k < 8 does not look at group *)
(* k itself; the first test that succeeds decides.                          *)
Matches(word, k) ==
    /\ \A g \in Groups : g < k => word[g] = "clear"
    /\ \A g \in Groups : g > k => word[g] = "set"

(* Fault: a word that matches no pattern counts as just begun. *)
DecodeUnderestimates(word) ==
    LET hits == {k \in 1 .. (CountsPerWord - 1) : Matches(word, k)}
    IN  IF hits = {} THEN 1 ELSE Min(hits)

Decode(word) ==
    LET hits == {k \in 1 .. (CountsPerWord - 1) : Matches(word, k)}
    IN  IF hits = {} THEN CountsPerWord ELSE Min(hits)

Written(page) == {i \in WordIndex : page[i] # ErasedWord}

(* read_page_count *)
Count(page) ==
    IF Written(page) = {} THEN 0
    ELSE LET i == Max(Written(page)) IN CountsPerWord * i + Decode(page[i])

(* The page as CounterPage describes it. *)
Decoded ==
    [count |-> Count(words),
     torn  |-> /\ Written(words) # {}
               /\ LET word == words[Max(Written(words))]
                  IN  word # Pattern(Decode(word))]

WTypeOK ==
    /\ words \in [WordIndex -> [Groups -> Bits]]
    /\ doing \in {"none", "write", "erase"}
    /\ start \in Page

WInit ==
    /\ words = [i \in WordIndex |-> ErasedWord]
    /\ doing = "none"
    /\ start = ErasedPage

(* The word and the pattern that start_increment writes. *)
Target == [word |-> start.count \div CountsPerWord,
           bits |-> Pattern((start.count % CountsPerWord) + 1)]

Issue(what) ==
    /\ doing = "none"
    /\ what = "write" => ~MaxedOut(Decoded)
    /\ doing' = what
    /\ start' = Decoded
    /\ UNCHANGED words

(* Some bits of the pattern are cleared. *)
ClearBits ==
    /\ doing = "write"
    /\ \E g \in Groups :
          /\ Target.bits[g] = "clear" /\ words[Target.word][g] # "clear"
          /\ \E b \in {"part", "clear"} :
                words' = [words EXCEPT ![Target.word][g] = b]
    /\ UNCHANGED <<doing, start>>

(* Some bits of the page are set again. *)
SetBits ==
    /\ doing = "erase"
    /\ \E i \in WordIndex, g \in Groups :
          /\ words[i][g] # "set"
          /\ \E b \in {"part", "set"} : words' = [words EXCEPT ![i][g] = b]
    /\ UNCHANGED <<doing, start>>

(* The operation is complete, or is given up: a reset or a failure. *)
Stop ==
    /\ doing # "none"
    /\ doing' = "none"
    /\ UNCHANGED <<words, start>>

WNext ==
    \/ Issue("write")
    \/ Issue("erase")
    \/ ClearBits
    \/ SetBits
    \/ Stop

WSpec == WInit /\ [][WNext]_wvars

WriteComplete ==
    /\ doing = "write"
    /\ \A g \in Groups : Target.bits[g] = "clear" => words[Target.word][g] = "clear"

-----------------------------------------------------------------------------
(* CounterPage describes the words.  Whatever a write has done so far, on   *)
(* whatever earlier writes and erases that were cut short have left, the    *)
(* decoder reads one of the results that CounterPage foresees: the old      *)
(* count, the next one, or the end of the word, never less.  A completed    *)
(* write is read as exactly one count more, not torn.  The tests that look  *)
(* at words instead of counts, page_empty and low_page_full, agree.         *)
WordsMatchPage ==
    /\ doing = "write" => Decoded \in PartlyStruck(start)
    /\ WriteComplete => Decoded = Struck(start)
    /\ Empty(Decoded) <=> \A i \in WordIndex : words[i] = ErasedWord
    /\ Full(Decoded) <=> words[WordsPerPage - 1] = Pattern(CountsPerWord)

=============================================================================
