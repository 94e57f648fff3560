---------------------------- MODULE U2fCommands ----------------------------
(***************************************************************************)
(* REGISTER and AUTHENTICATE of the U2F application (u2f.c), with what they*)
(* share: the state of the cryptography (fips.c), the touch latch          *)
(* (tock_shims.c) and the counter (fips_entropy.c).  Every system call and *)
(* every printf yields, so that the button's callback may run between any  *)
(* two steps of a command; the application is restarted at any time.       *)
(*                                                                         *)
(* A random number, a known-answer test, a derivation or a signature may   *)
(* fail; what it computes is left out, and so are commands of the wrong    *)
(* length, which are refused before they do anything.                      *)
(***************************************************************************)
EXTENDS Naturals, FiniteSets

CONSTANTS
    MaxCount,    \* -1u, where the counter ends
    MaxPresses,  \* bound on touches
    Restarts     \* the application is restarted

ASSUME CountAssumption == MaxCount \in Nat \ {0} /\ MaxPresses \in Nat
ASSUME RestartsAssumption == Restarts \in BOOLEAN

VARIABLES
    fips_fatal,   \* the flags of fips_fatal
    touch_latch,  \* touch_latch = POP_TOUCH_YES
    counter,      \* counter of fips_entropy.c
    command,      \* the command executed, where it is, and its P1 flags
    answer,       \* the last answer: whether it has data, the counter signed
    failed,       \* history: an error was thrown since initialization
    presses,      \* history: touches
    spent,        \* history: answers for which a touch was consumed
    signed        \* history: the last counter signed, ever

cvars == <<fips_fatal, touch_latch, counter, command, answer, failed, presses, spent, signed>>

Errors == {"TRNG", "KAT", "ECDSA", "TOO_MANY_KEYS"}
INITIALIZED == {"INITIALIZED"}
NoAnswer == [data |-> FALSE, ctr |-> 0]
Waiting == [ins |-> "none", step |-> "receive", tup |-> FALSE, consume |-> FALSE, ctr |-> 0]
Booting == [Waiting EXCEPT !.step = "init_fips"]

CTypeOK ==
    /\ fips_fatal \subseteq Errors \cup {"INITIALIZED", "UNINITIALIZED"}
    /\ touch_latch \in BOOLEAN /\ failed \in BOOLEAN
    /\ counter \in 0 .. MaxCount /\ signed \in 0 .. MaxCount
    /\ command \in [ins : {"none", "register", "authenticate"},
                    step : {"init_fips", "setup", "receive", "handle", "keys", "sign"},
                    tup : BOOLEAN, consume : BOOLEAN, ctr : 0 .. MaxCount]
    /\ answer \in [data : BOOLEAN, ctr : 0 .. MaxCount]
    /\ presses \in 0 .. MaxPresses /\ spent \in 0 .. MaxPresses + 1

CInit ==
    /\ fips_fatal = {"UNINITIALIZED"} /\ touch_latch = FALSE /\ counter = 0
    /\ command = Booting /\ answer = NoAnswer
    /\ failed = FALSE /\ presses = 0 /\ spent = 0 /\ signed = 0

-----------------------------------------------------------------------------
(* Errors accumulate. *)
throw_fips_err(err) == fips_fatal' = fips_fatal \cup {err} /\ failed' = TRUE

(* Random numbers pass the continuous health tests, or do not. *)
rand_bytes == UNCHANGED <<fips_fatal, failed>> \/ throw_fips_err("TRNG")

(* The known-answer tests at the start of the application.  When they pass  *)
(* the flags are overwritten.  u2fhid_response_msg would repeat them for an *)
(* application that has not run them yet, which there is none.              *)
init_fips ==
    /\ command.step = "init_fips"
    /\ \/ fips_fatal' = INITIALIZED /\ failed' = FALSE
       \/ throw_fips_err("KAT")
    /\ command' = [command EXCEPT !.step = "setup"]
    /\ UNCHANGED <<touch_latch, counter, answer, presses, spent, signed>>

(* Key ladder, factory entropy, personality. *)
check_device_setup ==
    /\ command.step = "setup"
    /\ rand_bytes
    /\ command' = Waiting
    /\ UNCHANGED <<touch_latch, counter, answer, presses, spent, signed>>

tock_pop_set ==
    /\ command.step # "init_fips"
    /\ presses < MaxPresses
    /\ touch_latch' = TRUE
    /\ presses' = presses + 1
    /\ UNCHANGED <<fips_fatal, counter, command, answer, failed, spent, signed>>

(* Fault: the latch is not cleared. *)
pop_check_presence_kept(c) == touch_latch' = touch_latch

pop_check_presence(c) == touch_latch' = (touch_latch /\ ~c.consume)

Untouched(c) == c.tup /\ ~touch_latch


(* apdu_rcv drops the data if anything went wrong in the cryptography. *)
Answer(data) ==
    LET sent == data /\ fips_fatal' = INITIALIZED
    IN  /\ command' = Waiting
        /\ answer' = [data |-> sent, ctr |-> IF sent THEN command.ctr ELSE 0]
        /\ signed' = IF sent /\ command.ins = "authenticate" THEN command.ctr ELSE signed
        /\ spent' = IF sent /\ command.tup /\ command.consume THEN spent + 1 ELSE spent

Proceed(c) == command' = c /\ answer' = NoAnswer /\ UNCHANGED <<spent, signed>>

(* REGISTER: presence, then the state of the cryptography. *)
u2f_register(tup, consume) ==
    LET c == [ins |-> "register", step |-> "keys", tup |-> tup, consume |-> consume, ctr |-> 0]
    IN  /\ command.step = "receive"
        /\ pop_check_presence(c)
        /\ IF Untouched(c) \/ fips_fatal # INITIALIZED THEN Answer(FALSE) ELSE Proceed(c)
        /\ UNCHANGED <<fips_fatal, counter, failed, presses>>

flash_ctr_incr == counter < MaxCount /\ counter' = counter + 1

(* It may find no private key; otherwise the counter is incremented, which  *)
(* may be once too often, and the new keys tested.                          *)
fips_keygen ==
    \/ rand_bytes /\ UNCHANGED counter
    \/ /\ flash_ctr_incr
       /\ IF counter' = MaxCount THEN throw_fips_err("TOO_MANY_KEYS")
          ELSE rand_bytes \/ throw_fips_err("ECDSA")

(* origin_keypair for a new key.  It fails when the key ladder does.  What  *)
(* fips_keygen returns is ignored; the errors it throws are not.            *)
RegisterKeys ==
    /\ command.ins = "register" /\ command.step = "keys"
    /\ \/ rand_bytes /\ Answer(FALSE) /\ UNCHANGED counter
       \/ fips_keygen /\ Proceed([command EXCEPT !.step = "sign"])
    /\ UNCHANGED <<touch_latch, presses>>

(* AUTHENTICATE: the state of the cryptography, *)
u2f_authenticate(tup, consume) ==
    /\ command.step = "receive"
    /\ IF fips_fatal # INITIALIZED THEN Answer(FALSE)
       ELSE Proceed([ins |-> "authenticate", step |-> "handle", tup |-> tup,
                     consume |-> consume, ctr |-> 0])
    /\ UNCHANGED <<fips_fatal, touch_latch, counter, failed, presses>>

(* the key handle, which may be of another origin or only be checked,       *)
(* presence, and the counter.                                               *)
AuthenticateHandle ==
    /\ command.step = "handle"
    /\ rand_bytes
    /\ \/ Answer(FALSE) /\ UNCHANGED <<touch_latch, counter>>
       \/ /\ pop_check_presence(command)
          /\ IF Untouched(command) THEN Answer(FALSE) /\ UNCHANGED counter
             ELSE /\ flash_ctr_incr
                  /\ Proceed([command EXCEPT !.step = "sign", !.ctr = counter'])
    /\ UNCHANGED presses

(* Attestation and signature. *)
Sign ==
    /\ command.step = "sign"
    /\ rand_bytes
    /\ \E data \in BOOLEAN : Answer(data)
    /\ UNCHANGED <<touch_latch, counter, presses>>

Restart ==
    /\ Restarts
    /\ fips_fatal' = {"UNINITIALIZED"} /\ touch_latch' = FALSE /\ counter' = 0
    /\ command' = Booting /\ answer' = NoAnswer /\ failed' = FALSE
    /\ UNCHANGED <<presses, spent, signed>>

CNext ==
    \/ init_fips
    \/ check_device_setup
    \/ tock_pop_set
    \/ \E tup, consume \in BOOLEAN : u2f_register(tup, consume)
    \/ RegisterKeys
    \/ \E tup, consume \in BOOLEAN : u2f_authenticate(tup, consume)
    \/ AuthenticateHandle
    \/ Sign
    \/ Restart

CSpec == CInit /\ [][CNext]_cvars

-----------------------------------------------------------------------------
(* A touch is spent once: commands that require and consume presence are    *)
(* answered with data no more often than the button was pressed, although   *)
(* presses arrive in the middle of commands and commands fail half way.     *)
TouchSpentOnce == spent <= presses

(* "If set, FIPS crypto is disabled": once any error was thrown after       *)
(* initialization, by a health test, a consistency check or the counter,    *)
(* and be it in the middle of the command whose return codes ignore it, no  *)
(* REGISTER or AUTHENTICATE is answered with data.                          *)
FailedMeansSilent == answer.data => ~failed

(* "Increment-only counter in flash": a signed counter is larger than all   *)
(* the ones signed before.                                                  *)
CounterOnlyIncrements == [][signed' # signed => signed' > signed]_cvars

=============================================================================
