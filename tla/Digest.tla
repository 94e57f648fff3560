------------------------------- MODULE Digest -------------------------------
(***************************************************************************)
(* The SHA engine (crypto/sha.rs) and its system call driver               *)
(* (h1_syscalls/src/digest.rs), used by processes through the library      *)
(* calls tock_digest_hash_easy and tock_digest_with_cert of libh1: a call  *)
(* allows its two buffers, then commands initialize, update and finalize,  *)
(* and returns at the first error.                                         *)
(*                                                                         *)
(* Data fed to the engine is the process it came from.                     *)
(***************************************************************************)
EXTENDS Naturals, Sequences

CONSTANTS
    Hashers,     \* processes that use the digest driver
    Nobody,      \* current_user is None
    MaxPieces    \* bound: pieces in one unfinished message

VARIABLES
    dg_user,     \* DigestDriver.current_user
    dg_mode,     \* ShaEngine.current_mode
    dg_engine,   \* the engine: configuration, streaming or not, message, use_cert
    dg_call,     \* per process: the library call it is in, with its buffers
    dg_last      \* history: what the last command returned to the library

dgvars == <<dg_user, dg_mode, dg_engine, dg_call, dg_last>>

DigestMode == {"Sha1", "Sha256", "Sha256Hmac"}
HMAC_KEY_SIZE_BYTES == 32

output_size(mode) == IF mode = "Sha1" THEN 20 ELSE 32

(* What a process may ask for: the mode and the lengths of the buffers it   *)
(* allows, long enough or not.  A certificate may come without buffers.     *)
NoBuffer == 0
DigestAsks ==
    [mode : {"Sha1"}, input : {32}, output : {20}]
        \union [mode : {"Sha256", "unknown"}, input : {32}, output : {20, 32}]
        \union [mode : {"Sha256Hmac"}, input : {20, 32}, output : {20, 32}]
        \union [mode : {"cert"}, input : {NoBuffer, 32}, output : {NoBuffer, 32}]

DGIdle(failed) == [at |-> "idle", failed |-> failed]

DGInit ==
    /\ dg_user = Nobody
    /\ dg_mode = "None"
    /\ dg_engine = [config |-> "none", streaming |-> FALSE, message |-> <<>>,
                    use_cert |-> FALSE]
    /\ dg_call = [p \in Hashers |-> DGIdle(FALSE)]
    /\ dg_last = <<"none">>

-----------------------------------------------------------------------------
(* The engine.  Go with a new configuration while it is streaming may or    *)
(* may not begin a new message.                                             *)
EngineGo(e, config) ==
    { [e EXCEPT !.config = config, !.streaming = TRUE, !.message = m] :
        m \in IF e.streaming THEN {<<>>, e.message} ELSE {<<>>} }

(* The data goes to the input FIFO. *)
EngineUpdate(e, p) == [e EXCEPT !.message = Append(@, p)]

(* Whether finalize finds room for the digest; finalize_hidden needs none. *)
FinalizeFits(output) == output = NoBuffer \/ output >= output_size(dg_mode)

(* Trigger Stop: the engine finishes its message. *)
EngineStop(e) ==
    [e EXCEPT !.config = "none", !.streaming = FALSE, !.message = <<>>]

-----------------------------------------------------------------------------
(* The end of a command of process p: the library goes on, or returns.      *)
(* The buffers stay allowed, but every call replaces them before it uses    *)
(* them.                                                                    *)
DGContinue(p, next) ==
    dg_call' = [dg_call EXCEPT ![p].at = next] /\ dg_last' = <<"none">>
DGReturns(p, result) ==
    dg_call' = [dg_call EXCEPT ![p] = DGIdle(FALSE)] /\ dg_last' = result
DGFails(p) ==
    dg_call' = [dg_call EXCEPT ![p] = DGIdle(TRUE)] /\ dg_last' = <<"error">>

(* The library call begins: allow of the input and of the output buffer. *)
digest_allow(p, ask) ==
    /\ dg_call[p].at = "idle"
    /\ dg_call' = [dg_call EXCEPT ![p] = [at |-> "initialize", ask |-> ask, clean |-> FALSE]]
    /\ dg_last' = <<"none">>
    /\ UNCHANGED <<dg_user, dg_mode, dg_engine>>

(* COMMAND_INITIALIZE and COMMAND_CERTIFICATE_INIT of an engine in use. *)
digest_init_busy(p) ==
    /\ dg_call[p].at = "initialize" /\ dg_user # Nobody
    /\ DGFails(p)
    /\ UNCHANGED <<dg_user, dg_mode, dg_engine>>

InitAsked(p, modes) ==
    dg_call[p].at = "initialize" /\ dg_call[p].ask.mode \in modes /\ dg_user = Nobody

(* The engine has been started for p; clean (history) when nothing of an    *)
(* earlier call can reach the message.                                      *)
ShaBegun(p, before) ==
    /\ dg_call' = [dg_call EXCEPT ![p].at = "update",
                       ![p].clean = ~before.streaming /\ ~before.use_cert]
    /\ dg_last' = <<"none">>

(* Fault: an engine left streaming by a failed finalize is not stopped. *)
sha_initialize_no_stop(p) ==
    /\ InitAsked(p, {"Sha1", "Sha256"})
    /\ dg_user' = p
    /\ dg_mode' = dg_call[p].ask.mode
    /\ dg_engine' \in EngineGo(dg_engine, dg_mode')
    /\ ShaBegun(p, EngineStop(dg_engine))

(* COMMAND_INITIALIZE: the claim is made before the arguments are checked   *)
(* and outlives a check that fails.                                         *)
sha_initialize(p) ==
    /\ InitAsked(p, {"Sha1", "Sha256"})
    /\ dg_user' = p
    /\ dg_mode' = dg_call[p].ask.mode
    /\ dg_engine' \in EngineGo(EngineStop(dg_engine), dg_mode')
    /\ ShaBegun(p, EngineStop(dg_engine))

sha_initialize_hmac(p) ==
    /\ InitAsked(p, {"Sha256Hmac"})
    /\ dg_user' = p
    /\ dg_mode' = "Sha256Hmac"
    /\ IF dg_call[p].ask.input < HMAC_KEY_SIZE_BYTES
       THEN DGFails(p) /\ UNCHANGED dg_engine
       ELSE ShaBegun(p, dg_engine) /\ dg_engine' \in EngineGo(dg_engine, "Sha256Hmac")

sha_initialize_unknown(p) ==
    /\ InitAsked(p, {"unknown"})
    /\ dg_user' = p
    /\ DGFails(p)
    /\ UNCHANGED <<dg_mode, dg_engine>>

(* Fault: a certificate without input keeps the engine. *)
ClaimOfCertificateKept(p) == p

(* Without an input buffer there will be no finalize. *)
ClaimOfCertificate(p) == IF dg_call[p].ask.input = NoBuffer THEN Nobody ELSE p

(* COMMAND_CERTIFICATE_INIT: current_mode stays what it was. *)
sha_initialize_certificate(p) ==
    /\ InitAsked(p, {"cert"})
    /\ dg_user' = ClaimOfCertificate(p)
    /\ dg_engine' \in EngineGo([dg_engine EXCEPT !.use_cert = TRUE], "cert")
    /\ IF dg_call[p].ask.input = NoBuffer
       THEN DGReturns(p, <<"hidden">>) ELSE DGContinue(p, "update")
    /\ UNCHANGED dg_mode

(* COMMAND_UPDATE with the length of the input buffer. *)
sha_update(p) ==
    /\ dg_call[p].at = "update"
    /\ IF dg_user # p \/ dg_mode = "None"
       THEN DGFails(p) /\ UNCHANGED dg_engine
       ELSE /\ Len(dg_engine.message) < MaxPieces
            /\ dg_engine' = EngineUpdate(dg_engine, p)
            /\ DGContinue(p, "finalize")
    /\ UNCHANGED <<dg_user, dg_mode>>

(* COMMAND_FINALIZE: the claim ends first.  An output buffer that is too    *)
(* small leaves the engine streaming; without one nothing is copied out.    *)
(* The wait for the done flag ends only if the engine was streaming.        *)
sha_finalize(p) ==
    LET call == dg_call[p]
    IN  /\ call.at = "finalize"
        /\ IF dg_user # p
           THEN DGFails(p) /\ UNCHANGED <<dg_user, dg_engine>>
           ELSE /\ dg_user' = Nobody
                /\ IF ~FinalizeFits(call.ask.output)
                   THEN DGFails(p) /\ UNCHANGED dg_engine
                   ELSE /\ dg_engine' = EngineStop(dg_engine)
                        /\ DGReturns(p, IF ~dg_engine.streaming THEN <<"spins">>
                              ELSE IF call.ask.output = NoBuffer THEN <<"hidden">>
                              ELSE <<"digest", p, call, dg_mode, dg_engine>>)
        /\ UNCHANGED dg_mode

(* COMMAND_BUSY, as tock_digest_busy reports it. *)
digest_busy == dg_user # Nobody

DGNext ==
    \E p \in Hashers :
        \/ \E ask \in DigestAsks : digest_allow(p, ask)
        \/ digest_init_busy(p)
        \/ sha_initialize(p)
        \/ sha_initialize_hmac(p)
        \/ sha_initialize_unknown(p)
        \/ sha_initialize_certificate(p)
        \/ sha_update(p)
        \/ sha_finalize(p)

-----------------------------------------------------------------------------
DGTypeOK ==
    /\ dg_user \in Hashers \union {Nobody}
    /\ dg_mode \in DigestMode \union {"None"}
    /\ dg_engine.config \in DigestMode \union {"none", "cert"}
    /\ dg_engine.message \in UNION { [1 .. n -> Hashers] : n \in 0 .. MaxPieces }
    /\ \A p \in Hashers : dg_call[p].at \in {"idle", "initialize", "update", "finalize"}

(* A digest that tock_digest_hash_easy returns is that of its caller's      *)
(* input alone, in the mode the caller asked for, and the kernel never      *)
(* waits for an engine that is not running, however the calls of several    *)
(* processes interleave.  Two things the driver leaves behind are excepted: *)
(* an HMAC begun on an engine that a failed finalize left streaming, and    *)
(* any call after a certificate, which nothing deselects.                   *)
DigestIsOwn ==
    /\ dg_last # <<"spins">>
    /\ dg_last[1] = "digest" =>
          LET p == dg_last[2]
              call == dg_last[3]
              engine == dg_last[5]
          IN  call.ask.mode # "cert" /\ call.clean =>
                  /\ {dg_last[4], engine.config} = {call.ask.mode}
                  /\ engine.message = <<p>>

(* The engine is reported busy while no call is in progress only when a     *)
(* call of the process that holds it has failed: current_user is set        *)
(* before the arguments are checked, and the library does not finalize      *)
(* after an error.                                                          *)
HeldOnlyAfterFailure ==
    digest_busy /\ dg_call[dg_user].at = "idle" => dg_call[dg_user].failed

=============================================================================
