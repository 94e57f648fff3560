-------------------------------- MODULE Aes ---------------------------------
(***************************************************************************)
(* The AES engine (crypto/aes.rs) and its system call driver               *)
(* (h1_syscalls/src/aes.rs).  A process works through libh1: it allows its *)
(* key once and then, for every block, subscribes, allows the block and    *)
(* the counter, commands the operation and yields until the callback.      *)
(*                                                                         *)
(* A block is who it came from and what was done to it.  The engine takes  *)
(* mode, key and counter when the block is written to its FIFO.            *)
(***************************************************************************)
EXTENDS Naturals, Sequences

CONSTANTS
    Ciphers,     \* processes that use the AES driver
    CipherModes, \* modes with direction that are asked for
    NoCipher     \* current_user is None

VARIABLES
    ae_user,     \* AesDriver.current_user
    ae_buffer,   \* where the kernel buffer is: with the driver or the engine
    ae_ctrl,     \* registers of the engine: control, key, ctr
    ae_fifo,     \* blocks in the read FIFO
    ae_done,     \* the done interrupt is pending
    ae_app,      \* per process: what it has allowed
    ae_call,     \* per process: the library call it is in, with its block
    ae_upcall,   \* per process: the count of the scheduled callback, or none
    ae_last      \* history: the call that returned last

aevars == <<ae_user, ae_buffer, ae_ctrl, ae_fifo, ae_done, ae_app, ae_call, ae_upcall, ae_last>>

AES128_BLOCK_SIZE == 16
NoUpcall == 99
MaxBlocks == 2      \* bound: blocks left in the read FIFO

(* Registers and masks are the sets of their bits.  In the control register *)
(* bits 3 and 4 select the mode, 5 the direction, 6 the order of the bytes  *)
(* of the counter; 7 enables the engine.                                    *)
CipherMode == [Ecb |-> {}, Ctr |-> {3}, Cbc |-> {4}, Gcm |-> {3, 4}]
Encrypt == 5
Enable == 7
SelectedMode(control) == CHOOSE mode \in DOMAIN CipherMode : CipherMode[mode] = control \cap {3, 4}

(* The values of CipherMode are those of the bits in place, and are shifted *)
(* by three once more: whatever the mode, bits 3 and 4 end up clear.        *)
set_cipher_mode(control, mode) == (control \ {3, 4}) \union {bit + 3 : bit \in CipherMode[mode]}
set_encrypt_mode(control, encrypt) ==
    IF encrypt THEN control \union {Encrypt} ELSE control \ {Encrypt}

(* The commands 1 to 6; counter mode is the same both ways. *)
Ciphering(mode, encrypt) == [mode |-> mode, encrypt |-> encrypt]
AesCommand ==
    [EcbEnc |-> Ciphering("Ecb", TRUE), EcbDec |-> Ciphering("Ecb", FALSE), Ctr |-> Ciphering("Ctr", TRUE),
     CbcEnc |-> Ciphering("Cbc", TRUE), CbcDec |-> Ciphering("Cbc", FALSE)]

(* Blocks as libh1 asks for them, and by a client of its own: with an       *)
(* output buffer, or without a counter.                                     *)
BlockAsks ==
    [mode : CipherModes, iv : {TRUE}, output : {FALSE}]
        \union {[mode |-> "EcbDec", iv |-> FALSE, output |-> TRUE],
                [mode |-> "Ctr", iv |-> FALSE, output |-> FALSE]}

Resting == [at |-> "idle"]

AEInit ==
    /\ ae_user = NoCipher
    /\ ae_buffer = "driver"
    /\ ae_ctrl = [control |-> {Enable}, key |-> NoCipher, ctr |-> NoCipher]
    /\ ae_fifo = <<>>
    /\ ae_done = FALSE
    /\ ae_app = [p \in Ciphers |-> [key |-> FALSE, output |-> FALSE, input |-> FALSE]]
    /\ ae_call = [p \in Ciphers |-> Resting]
    /\ ae_upcall = [p \in Ciphers |-> NoUpcall]
    /\ ae_last = <<"none">>

-----------------------------------------------------------------------------
(* tock_aes_set_key: allow of a key of the right length. *)
aes_allow_key(p) ==
    /\ ae_call[p].at = "idle" /\ ~ae_app[p].key
    /\ ae_app' = [ae_app EXCEPT ![p].key = TRUE]
    /\ ae_last' = <<"none">>
    /\ UNCHANGED <<ae_user, ae_buffer, ae_ctrl, ae_fifo, ae_done, ae_call, ae_upcall>>

(* A block call begins: subscribe, and allow of the block and the counter. *)
aes_prepare(p, ask) ==
    /\ ae_call[p].at = "idle"
    /\ ae_call' = [ae_call EXCEPT ![p] = 
                    [at |-> "command", ask |-> ask, own |-> FALSE, block |-> <<"plain">>]]
    /\ ae_app' = [ae_app EXCEPT ![p].input = TRUE, ![p].output = ask.output]
    /\ ae_last' = <<"none">>
    /\ UNCHANGED <<ae_user, ae_buffer, ae_ctrl, ae_fifo, ae_done, ae_upcall>>

(* Fault: a claim is taken over by whoever asks. *)
ClaimTakenOver(p) == p

(* Every command claims the driver if it is free. *)
Claim(p) == IF ae_user = NoCipher THEN p ELSE ae_user

set_iv(p, ctrl) == [ctrl EXCEPT !.ctr = p]

(* set_mode_*, and set_iv in counter mode only. *)
SetMode(p, ask) ==
    LET command == AesCommand[ask.mode]
        ctrl == [ae_ctrl EXCEPT
                   !.control = set_encrypt_mode(set_cipher_mode(@, command.mode), command.encrypt)]
    IN  IF command.mode = "Ctr" /\ ask.iv THEN set_iv(p, ctrl) ELSE ctrl

(* Fault: an engine that has a key keeps it. *)
KeyOnce(p, ctrl) == [ctrl EXCEPT !.key = IF @ = NoCipher THEN p ELSE @]

(* set_key and install_key. *)
SetKey(p, ctrl) == [ctrl EXCEPT !.key = p]

(* run_aes finds the input, the key and the kernel buffer, and the iv is    *)
(* there when the mode takes it.                                            *)
Runs(p) ==
    /\ ae_call[p].ask.mode = "Ctr" => ae_call[p].ask.iv
    /\ ae_app[p].key
    /\ ae_buffer = "driver"

(* crypt: the block is written to the FIFO of the engine. *)
EngineCrypt(p, ctrl) == Append(ae_fifo, [of |-> p, by |-> ctrl])

(* Commands 1 to 6, accepted: the key is installed and the block goes to    *)
(* the engine.  own (history): the completion will find this process.       *)
aes_command_runs(p) ==
    /\ ae_call[p].at = "command" /\ Runs(p)
    /\ ae_user' = Claim(p)
    /\ ae_ctrl' = SetKey(p, SetMode(p, ae_call[p].ask))
    /\ ae_fifo' = EngineCrypt(p, ae_ctrl')
    /\ ae_buffer' = "engine"
    /\ ae_call' = [ae_call EXCEPT ![p].at = "yield",
                                  ![p].own = /\ ae_user' = p /\ ae_fifo = <<>>
                                             /\ ae_upcall[p] = NoUpcall]
    /\ ae_last' = <<"none">>
    /\ UNCHANGED <<ae_done, ae_app, ae_upcall>>

(* Commands 1 to 6, refused: the mode and the claim have changed already. *)
aes_command_fails(p) ==
    /\ ae_call[p].at = "command" /\ ~Runs(p)
    /\ ae_user' = Claim(p)
    /\ ae_ctrl' = SetMode(p, ae_call[p].ask)
    /\ ae_call' = [ae_call EXCEPT ![p] = Resting]
    /\ ae_last' = <<"none">>
    /\ UNCHANGED <<ae_buffer, ae_fifo, ae_done, ae_app, ae_upcall>>

(* Command 0: tock_aes_check. *)
aes_check(p) ==
    /\ ae_call[p].at = "idle"
    /\ ae_user' = Claim(p)
    /\ ae_last' = <<"none">>
    /\ UNCHANGED <<ae_buffer, ae_ctrl, ae_fifo, ae_done, ae_app, ae_call, ae_upcall>>

(* Command 7 installs the caller's key. *)
aes_install_key(p) ==
    /\ ae_call[p].at = "idle"
    /\ ae_user' = Claim(p)
    /\ ae_ctrl' = IF ae_app[p].key THEN SetKey(p, ae_ctrl) ELSE ae_ctrl
    /\ ae_last' = <<"none">>
    /\ UNCHANGED <<ae_buffer, ae_fifo, ae_done, ae_app, ae_call, ae_upcall>>

(* Any other command drops the claim, whoever holds it. *)
aes_command_unknown(p) ==
    /\ ae_call[p].at = "idle"
    /\ Len(ae_fifo) < MaxBlocks
    /\ ae_user' = NoCipher
    /\ ae_call' = [q \in Ciphers |->
                     IF ae_call[q].at = "yield" THEN [ae_call[q] EXCEPT !.own = FALSE]
                     ELSE ae_call[q]]
    /\ ae_last' = <<"none">>
    /\ UNCHANGED <<ae_buffer, ae_ctrl, ae_fifo, ae_done, ae_app, ae_upcall>>

-----------------------------------------------------------------------------
(* The engine has finished the block. *)
EngineDone ==
    /\ ae_buffer = "engine" /\ ~ae_done
    /\ ae_done' = TRUE
    /\ ae_last' = <<"none">>
    /\ UNCHANGED <<ae_user, ae_buffer, ae_ctrl, ae_fifo, ae_app, ae_call, ae_upcall>>

(* read_data takes blocks out of the FIFO, one for each buffer. *)
read_data(fifo, n) == SubSeq(fifo, n + 1, Len(fifo))

(* handle_interrupt and crypt_done: the blocks in the FIFO go to the holder *)
(* of the claim, first to its output and then to its input buffer, and its  *)
(* callback gets the count of the latter.  A callback that is scheduled     *)
(* while one is pending is merged with it.                                  *)
crypt_done ==
    /\ ae_done
    /\ ae_done' = FALSE
    /\ ae_buffer' = "driver"
    /\ ae_user' = NoCipher
    /\ ae_last' = <<"none">>
    /\ IF ae_user = NoCipher
       THEN UNCHANGED <<ae_fifo, ae_call, ae_upcall>>
       ELSE LET app == ae_app[ae_user]
                to_output == IF app.output THEN 1 ELSE 0
                to_input == IF app.input /\ Len(ae_fifo) > to_output THEN 1 ELSE 0
            IN  /\ ae_fifo' = read_data(ae_fifo, to_output + to_input)
                /\ ae_call' = IF to_input = 0 \/ ae_call[ae_user].at = "idle" THEN ae_call
                              ELSE [ae_call EXCEPT ![ae_user].block = <<ae_fifo[to_output + 1]>>]
                /\ ae_upcall' = IF ~app.input THEN ae_upcall
                                ELSE [ae_upcall EXCEPT ![ae_user] = to_input * AES128_BLOCK_SIZE]
    /\ UNCHANGED <<ae_ctrl, ae_app>>

(* yield_for: the callback runs and the library call returns. *)
aes_yield(p) ==
    /\ ae_call[p].at = "yield" /\ ae_upcall[p] # NoUpcall
    /\ ae_upcall' = [ae_upcall EXCEPT ![p] = NoUpcall]
    /\ ae_call' = [ae_call EXCEPT ![p] = Resting]
    /\ ae_last' = <<"block", p, ae_call[p], ae_upcall[p]>>
    /\ UNCHANGED <<ae_user, ae_buffer, ae_ctrl, ae_fifo, ae_done, ae_app>>

AENext ==
    \/ \E p \in Ciphers :
          \/ aes_allow_key(p)
          \/ \E ask \in BlockAsks : aes_prepare(p, ask)
          \/ aes_command_runs(p)
          \/ aes_command_fails(p)
          \/ aes_check(p)
          \/ aes_install_key(p)
          \/ aes_command_unknown(p)
          \/ aes_yield(p)
    \/ EngineDone
    \/ crypt_done

(* The engine finishes a block, its interrupt is served, and a process that *)
(* yields gets its callback.                                                *)
AEFairness ==
    /\ WF_aevars(EngineDone)
    /\ WF_aevars(crypt_done)
    /\ \A p \in Ciphers : WF_aevars(aes_yield(p))

-----------------------------------------------------------------------------
Blocks ==
    [of : Ciphers,
     by : [control : SUBSET (3 .. 7), key : Ciphers, ctr : Ciphers \union {NoCipher}]]

AETypeOK ==
    /\ ae_user \in Ciphers \union {NoCipher}
    /\ ae_buffer \in {"driver", "engine"}
    /\ ae_ctrl.control \in SUBSET (3 .. 7)
    /\ \A i \in 1 .. Len(ae_fifo) : ae_fifo[i] \in Blocks
    /\ ae_upcall \in [Ciphers -> {0, AES128_BLOCK_SIZE, NoUpcall}]

(* A block call that returns has its own block, processed in the direction, *)
(* with the key and the counter of its caller, however other processes use  *)
(* the driver meanwhile: their commands change the control register and the *)
(* counter before they are refused.  It takes that the driver was not       *)
(* claimed by another process when the call began, and that no unknown      *)
(* command dropped the claim.  A client with an output buffer is told that  *)
(* 0 bytes were done.                                                       *)
BlockIsOwn ==
    ae_last[1] = "block" =>
        LET p == ae_last[2]
            call == ae_last[3]
            block == call.block[1]
        IN  call.own =>
              /\ ae_last[4] = (IF call.ask.output THEN 0 ELSE AES128_BLOCK_SIZE)
              /\ ~call.ask.output =>
                    /\ block.of = p /\ block.by.key = p
                    /\ Encrypt \in block.by.control <=> AesCommand[call.ask.mode].encrypt
                    /\ AesCommand[call.ask.mode].mode = "Ecb" =>
                          SelectedMode(block.by.control) = "Ecb"
                    /\ call.ask.mode = "Ctr" => block.by.ctr = p

(* A call that waits for such a block. *)
BlockOutstanding(p) == ae_call[p].at = "yield" /\ ae_call[p].own

=============================================================================
