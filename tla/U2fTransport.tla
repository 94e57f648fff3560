---------------------------- MODULE U2fTransport ----------------------------
(***************************************************************************)
(* The U2FHID transport of the U2F application (u2f_transport.c): messages *)
(* of several host programs, cut into frames, arrive interleaved on one    *)
(* pipe; each program has a channel.  A frame is handled to the end,       *)
(* replies included, before the application asks for the next one.         *)
(*                                                                         *)
(* The data of a message is a chunk per frame; all the model knows of a    *)
(* chunk is whose message it is from.  Commands that only compute an       *)
(* answer from the data (MSG, PING, WINK, PROMPT, SYSINFO) are one: "data".*)
(***************************************************************************)
EXTENDS Integers, FiniteSets, TLC

CONSTANTS
    Clients,     \* the programs of the host
    Broadcast,   \* CID_BROADCAST: 0xffffffff
    InitData,    \* data bytes of an INIT frame: 57
    ContData,    \* data bytes of a CONT frame: 59
    MaxConts,    \* CONT frames of the longest message: 39
    Lengths      \* the lengths of messages that programs send

ASSUME ChannelsAssumption ==
    Broadcast \in Nat /\ IsFiniteSet(Clients) /\ Cardinality(Clients) < Broadcast
ASSUME FramesAssumption ==
    InitData \in Nat \ {0} /\ ContData \in Nat \ {0} /\ MaxConts \in Nat
ASSUME LengthsAssumption == Lengths \subseteq Nat

MAX_BCNT == InitData + MaxConts * ContData

VARIABLES
    next_CID, lock_CID, timeout_CID,
    pending,     \* pending: cid, cmd, seqno, bcnt
    rx_buffer,   \* whose message each chunk is from, "old" if an earlier one
    nonzero,     \* rx_buffer[0] # 0
    channel,     \* host: the channel of each program, 0 before it has one
    message,     \* host: the message each program sends, and frames sent of it
    reply,       \* the reply to the last frame
    answered     \* history: a reply came since the program began its message

device == <<next_CID, lock_CID, timeout_CID, pending, rx_buffer, nonzero>>
tvars == <<device, channel, message, reply, answered>>

Commands == {"data", "lock", "unknown"}
CIDs == 0 .. Broadcast

NoPending == [cid |-> 0, cmd |-> "none", seqno |-> 0, bcnt |-> 0]
NoReply == [cid |-> 0, what |-> "none", bcnt |-> 0]
NoMessage == [len |-> 0, sent |-> 0, lost |-> FALSE]

(* Frames of a message of `len` bytes, and how many of them carry data. *)
Frames(len) ==
    IF len <= InitData THEN 1 ELSE 1 + ((len - InitData + ContData - 1) \div ContData)
Chunks(len) == IF len = 0 THEN 0 ELSE Frames(len)

Errors == {"INVALID_CMD", "INVALID_LEN", "INVALID_SEQ", "CHANNEL_BUSY", "INVALID_CID"}

TTypeOK ==
    /\ next_CID \in 1 .. (Broadcast - 1)
    /\ lock_CID \in CIDs \ {Broadcast} /\ timeout_CID \in CIDs \ {Broadcast}
    /\ pending \in [cid : CIDs \ {Broadcast}, cmd : Commands \cup {"none"},
                    seqno : 0 .. MaxConts, bcnt : 0 .. MAX_BCNT]
    /\ rx_buffer \in [0 .. MaxConts -> Clients \cup {"old"}]
    /\ nonzero \in BOOLEAN
    /\ channel \in [Clients -> CIDs \ {Broadcast}]
    /\ message \in [Clients -> [len : Lengths \cup {0}, sent : 0 .. Frames(MAX_BCNT + 1),
                                 lost : BOOLEAN]]
    /\ reply.what \in Errors \cup Commands \cup {"none", "init"}
    /\ answered \in [Clients -> BOOLEAN]

TInit ==
    /\ next_CID = 1 /\ lock_CID = 0 /\ timeout_CID = 0
    /\ pending = NoPending
    /\ rx_buffer = [i \in 0 .. MaxConts |-> "old"]
    /\ nonzero = FALSE
    /\ channel = [c \in Clients |-> 0]
    /\ message = [c \in Clients |-> NoMessage]
    /\ reply = NoReply
    /\ answered = [c \in Clients |-> FALSE]

-----------------------------------------------------------------------------
(* The device.  A frame has a cid, a type, a command (of an INIT frame) or  *)
(* a sequence number (of a CONT frame), and data.                           *)

u2fhid_err(cid, code) == reply' = [cid |-> cid, what |-> code, bcnt |-> 0]

clear_pending == pending' = NoPending /\ timeout_CID' = 0

(* u2fhid_response_msg for the request `p`, with p.bcnt bytes of rx_buffer, *)
(* the first of which says whether a lock is set or cancelled.              *)
u2fhid_response_msg(p, first) ==
    /\ clear_pending
    /\ IF p.cmd = "unknown"
         THEN u2fhid_err(p.cid, "INVALID_CMD")
         ELSE reply' = [cid |-> p.cid, what |-> p.cmd, bcnt |-> p.bcnt]
    /\ lock_CID' = CASE p.cmd = "lock" /\ first  -> p.cid
                     [] p.cmd = "lock" /\ ~first -> 0
                     [] OTHER -> lock_CID

InvalidChannel(f) == f.cid = 0 \/ (f.cid = Broadcast /\ f.cmd # "init")

(* U2FHID_INIT: aborts what is pending on the channel, allocates a channel  *)
(* if it comes on the broadcast channel.                                    *)
u2fhid_cmd_init(f) ==
    /\ IF f.cid = pending.cid THEN clear_pending ELSE UNCHANGED <<pending, timeout_CID>>
    /\ next_CID' = CASE f.cid # Broadcast -> next_CID
                     [] next_CID + 1 = Broadcast -> 1
                     [] OTHER -> next_CID + 1
    /\ reply' = [cid |-> f.cid, what |-> "init", bcnt |-> 0]
    /\ UNCHANGED <<lock_CID, rx_buffer, nonzero>>

Locked(f) == lock_CID > 0 /\ f.cid # lock_CID

(* An INIT frame that starts a message. *)
BeginMessage(f) ==
    LET p  == [cid |-> f.cid, cmd |-> f.cmd, seqno |-> 0, bcnt |-> f.len]
        rx == [i \in DOMAIN rx_buffer |-> CASE i = 0 /\ f.len > 0 -> f.chunk
                                            [] rx_buffer[i] = f.chunk -> "old"
                                            [] OTHER -> rx_buffer[i]]
        first == IF f.len = 0 THEN nonzero ELSE f.nonzero
    IN  /\ rx_buffer' = rx
        /\ nonzero' = first
        /\ IF f.len <= InitData
             THEN u2fhid_response_msg(p, first)
             ELSE pending' = p /\ timeout_CID' = f.cid /\ reply' = NoReply /\ UNCHANGED lock_CID
        /\ UNCHANGED next_CID

(* Fault: the length is not checked. *)
InitFrameAnyLength(f) ==
    \/ /\ pending.cid # 0
       /\ u2fhid_err(f.cid, IF pending.cid = f.cid THEN "INVALID_SEQ" ELSE "CHANNEL_BUSY")
       /\ IF pending.cid = f.cid THEN clear_pending ELSE UNCHANGED <<pending, timeout_CID>>
       /\ UNCHANGED <<next_CID, lock_CID, rx_buffer, nonzero>>
    \/ /\ pending.cid = 0
       /\ BeginMessage(f)

InitFrame(f) ==
    \/ /\ pending.cid \notin {0, f.cid}
       /\ u2fhid_err(f.cid, "CHANNEL_BUSY")
       /\ UNCHANGED device
    \/ /\ pending.cid = f.cid
       /\ u2fhid_err(f.cid, "INVALID_SEQ")
       /\ clear_pending
       /\ UNCHANGED <<next_CID, lock_CID, rx_buffer, nonzero>>
    \/ /\ pending.cid = 0 /\ f.len > MAX_BCNT
       /\ u2fhid_err(f.cid, "INVALID_LEN")
       /\ UNCHANGED device
    \/ /\ pending.cid = 0 /\ f.len <= MAX_BCNT
       /\ BeginMessage(f)

(* Fault: the frame that brings the message to its length is not the last. *)
consume_frame_late(f) ==
    LET last == InitData + (pending.seqno + 1) * ContData > pending.bcnt
    IN  /\ rx_buffer' = (pending.seqno + 1 :> f.chunk) @@ rx_buffer
        /\ IF last THEN u2fhid_response_msg(pending, nonzero)
           ELSE /\ pending' = [pending EXCEPT !.seqno = @ + 1]
                /\ timeout_CID' = f.cid /\ reply' = NoReply /\ UNCHANGED lock_CID
        /\ UNCHANGED <<next_CID, nonzero>>

(* The data goes where pending.seqno says, inside rx_buffer or not. *)
consume_frame(f) ==
    LET last == InitData + (pending.seqno + 1) * ContData >= pending.bcnt
    IN  /\ rx_buffer' = (pending.seqno + 1 :> f.chunk) @@ rx_buffer
        /\ IF last THEN u2fhid_response_msg(pending, nonzero)
           ELSE /\ pending' = [pending EXCEPT !.seqno = @ + 1]
                /\ timeout_CID' = f.cid /\ reply' = NoReply /\ UNCHANGED lock_CID
        /\ UNCHANGED <<next_CID, nonzero>>

(* Fault: a CONT frame of any channel continues the pending message. *)
ContFrameAnyChannel(f) ==
    \/ /\ pending.cid = 0
       /\ reply' = NoReply
       /\ UNCHANGED device
    \/ /\ pending.cid # 0 /\ f.seq # pending.seqno
       /\ u2fhid_err(f.cid, "INVALID_SEQ")
       /\ clear_pending
       /\ UNCHANGED <<next_CID, lock_CID, rx_buffer, nonzero>>
    \/ /\ pending.cid # 0 /\ f.seq = pending.seqno
       /\ consume_frame(f)

ContFrame(f) ==
    \/ /\ pending.cid # f.cid
       /\ reply' = NoReply
       /\ UNCHANGED device
    \/ /\ pending.cid = f.cid /\ f.seq # pending.seqno
       /\ u2fhid_err(f.cid, "INVALID_SEQ")
       /\ clear_pending
       /\ UNCHANGED <<next_CID, lock_CID, rx_buffer, nonzero>>
    \/ /\ pending.cid = f.cid /\ f.seq = pending.seqno
       /\ consume_frame(f)

IsInitCommand(f) == f.type = "init" /\ f.cmd = "init"

u2fhid_process_frame(f) ==
    IF InvalidChannel(f) THEN u2fhid_err(f.cid, "INVALID_CID") /\ UNCHANGED device
    ELSE IF IsInitCommand(f) THEN u2fhid_cmd_init(f)
    ELSE IF Locked(f) THEN u2fhid_err(f.cid, "CHANNEL_BUSY") /\ UNCHANGED device
    ELSE IF f.type = "init" THEN InitFrame(f)
    ELSE ContFrame(f)

-----------------------------------------------------------------------------
(* The programs of the host. *)

Frame(cid, type, cmd) ==
    [cid |-> cid, type |-> type, cmd |-> cmd, len |-> 0, seq |-> 0,
     chunk |-> "old", nonzero |-> FALSE]

(* Replies go to the channel; a program that begins a message starts anew. *)
Listen(beginning) ==
    answered' = [c \in Clients |->
        \/ answered[c] /\ c \notin beginning
        \/ reply'.what # "none" /\ channel[c] # 0 /\ reply'.cid = channel[c]]

Sending(c) == message[c].sent \in 1 .. (Frames(message[c].len) - 1)

(* A program asks for a channel, the first time or again.  Channels come    *)
(* round after 2^32 - 2 of them, when their former owners are gone.         *)
Open(c) ==
    /\ \A d \in Clients \ {c} : channel[d] # next_CID
    /\ u2fhid_process_frame(Frame(Broadcast, "init", "init"))
    /\ channel' = [channel EXCEPT ![c] = next_CID]
    /\ message' = [message EXCEPT ![c] = NoMessage]
    /\ answered' = [answered EXCEPT ![c] = FALSE]

Resync(c) ==
    /\ channel[c] # 0
    /\ u2fhid_process_frame(Frame(channel[c], "init", "init"))
    /\ message' = [message EXCEPT ![c] = NoMessage]
    /\ answered' = [answered EXCEPT ![c] = FALSE]
    /\ UNCHANGED channel

(* A program begins a message, with the previous one finished or abandoned. *)
Begin(c, cmd, len, first) ==
    /\ channel[c] # 0 /\ ~Sending(c)
    /\ message' = [message EXCEPT ![c] = [len |-> len, sent |-> 1, lost |-> FALSE]]
    /\ u2fhid_process_frame([Frame(channel[c], "init", cmd) EXCEPT
          !.len = len, !.chunk = c, !.nonzero = first])
    /\ Listen({c})
    /\ UNCHANGED channel

(* It goes on, whether or not it has seen a reply. *)
Continue(c) ==
    /\ Sending(c)
    /\ message' = [message EXCEPT ![c].sent = @ + 1]
    /\ u2fhid_process_frame([Frame(channel[c], "cont", "none") EXCEPT
          !.seq = message[c].sent - 1, !.chunk = c])
    /\ Listen({})
    /\ UNCHANGED channel

(* The frame does not reach u2fhid_process_frame (the endpoint had no buffer for it). *)
Lose(c) ==
    /\ Sending(c)
    /\ message' = [message EXCEPT ![c].sent = @ + 1, ![c].lost = TRUE]
    /\ reply' = NoReply
    /\ UNCHANGED <<device, channel, answered>>

(* It gives the message up: it crashed, or saw an error. *)
Abandon(c) ==
    /\ Sending(c)
    /\ message' = [message EXCEPT ![c] = NoMessage]
    /\ reply' = NoReply
    /\ UNCHANGED <<device, channel, answered>>

(* A frame on no one's channel.  A CONT frame whose number is the code of   *)
(* U2FHID_INIT passes for that command in the test of the broadcast channel.*)
Stray(f) ==
    /\ u2fhid_process_frame(f)
    /\ Listen({})
    /\ UNCHANGED <<channel, message>>

Strays == {Frame(0, "init", "ping"), Frame(Broadcast, "init", "ping"),
           Frame(Broadcast, "cont", "init")}

TNext ==
    \/ \E c \in Clients :
          \/ Open(c)
          \/ Resync(c)
          \/ \E cmd \in Commands, len \in Lengths, first \in BOOLEAN : Begin(c, cmd, len, first)
          \/ Continue(c)
          \/ Lose(c)
          \/ Abandon(c)
    \/ \E f \in Strays : Stray(f)

(* A program that has not given its message up sends it to the end. *)
TFairness == \A c \in Clients : WF_tvars(Continue(c) \/ Lose(c) \/ Abandon(c))

TSpec == TInit /\ [][TNext]_tvars /\ TFairness

-----------------------------------------------------------------------------
(* Commands are executed on whole messages: the bytes of rx_buffer that     *)
(* u2fhid_response_msg hands to a command are those of the message that the *)
(* owner of the channel has just finished, all of it and in order, whatever *)
(* other programs sent in between and wherever frames were lost or messages *)
(* given up.                                                                *)
WholeMessages ==
    reply.what \in Commands =>
        \E c \in Clients :
            /\ channel[c] = reply.cid
            /\ message[c] = [len |-> reply.bcnt, sent |-> Frames(reply.bcnt), lost |-> FALSE]
            /\ \A i \in 0 .. (Chunks(reply.bcnt) - 1) : rx_buffer[i] = c

(* No program waits in vain: when the last frame of a message has been      *)
(* handled, its program has been answered or refused.  While a lock is held *)
(* only its holder has a message pending, and timeout_CID is the channel of *)
(* the pending message.                                                     *)
EveryMessageAnswered ==
    /\ \A c \in Clients :
          message[c].sent = Frames(message[c].len) /\ ~message[c].lost => answered[c]
    /\ lock_CID # 0 => pending.cid \in {0, lock_CID}
    /\ timeout_CID = pending.cid

(* Documented: a message is assembled until it is complete or the           *)
(* transaction times out.                                                   *)
TransactionEnds == pending.cid # 0 ~> pending.cid = 0

=============================================================================
