-------------------------------- MODULE Trng --------------------------------
(***************************************************************************)
(* The random number generator (kernel/h1/src/trng.rs) and a client that   *)
(* takes words from the iterator it is handed until it has what it wants.  *)
(* The hardware produces words while it works and may time out; only get   *)
(* starts it again.                                                        *)
(***************************************************************************)
EXTENDS Naturals

CONSTANTS
    MaxWords,    \* words the hardware holds
    MaxWanted    \* bound: words of one request

VARIABLES
    rg_words, rg_timed_out, rg_enable, rg_pending,   \* the hardware
    rg_wanted    \* words the client still wants

rgvars == <<rg_words, rg_timed_out, rg_enable, rg_pending, rg_wanted>>

(* After init. *)
RGInit ==
    /\ rg_words = 0 /\ rg_timed_out = FALSE /\ rg_enable = FALSE /\ rg_pending = FALSE
    /\ rg_wanted = 0

(* Fault: Continue::More does not ask for another interrupt. *)
entropy_available_once(wanted, enable) ==
    LET n == IF wanted < rg_words THEN wanted ELSE rg_words
    IN  /\ rg_words' = rg_words - n
        /\ rg_wanted' = wanted - n
        /\ rg_enable' = enable

(* client.entropy_available: the client drains the iterator; with           *)
(* Continue::More the interrupt is enabled.                                 *)
entropy_available(wanted, enable) ==
    LET n == IF wanted < rg_words THEN wanted ELSE rg_words
    IN  /\ rg_words' = rg_words - n
        /\ rg_wanted' = wanted - n
        /\ rg_enable' = (enable \/ wanted > n)

(* get of a client with nothing outstanding, or again for the same request. *)
get(n) ==
    /\ rg_wanted \in {0, n}
    /\ IF rg_words = 0
       THEN /\ rg_timed_out' = FALSE
            /\ rg_enable' = TRUE
            /\ rg_wanted' = n
            /\ UNCHANGED rg_words
       ELSE entropy_available(n, rg_enable) /\ UNCHANGED rg_timed_out
    /\ UNCHANGED rg_pending

trng_handle_interrupt ==
    /\ rg_enable /\ rg_pending
    /\ rg_pending' = FALSE
    /\ entropy_available(rg_wanted, FALSE)
    /\ UNCHANGED rg_timed_out

Generate ==
    /\ ~rg_timed_out /\ rg_words < MaxWords
    /\ rg_words' = rg_words + 1
    /\ rg_pending' = TRUE
    /\ UNCHANGED <<rg_timed_out, rg_enable, rg_wanted>>

TimesOut ==
    /\ ~rg_timed_out /\ rg_words = 0
    /\ rg_timed_out' = TRUE
    /\ UNCHANGED <<rg_words, rg_enable, rg_pending, rg_wanted>>

RGNext ==
    \/ \E n \in 1 .. MaxWanted : get(n)
    \/ trng_handle_interrupt
    \/ Generate
    \/ TimesOut

-----------------------------------------------------------------------------
RGTypeOK == rg_words \in 0 .. MaxWords /\ rg_wanted \in 0 .. MaxWanted

(* A request that waits for a generator at work.  One that times out while  *)
(* a request waits is restarted only by another get: no interrupt tells the *)
(* driver.                                                                  *)
EntropyOutstanding == rg_wanted > 0 /\ ~rg_timed_out

=============================================================================
