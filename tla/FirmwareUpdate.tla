--------------------------- MODULE FirmwareUpdate ---------------------------
(***************************************************************************)
(* The firmware update of the papa board, from the requests of the host to *)
(* the flash: the handlers of spi_processor.rs, FirmwareController and the *)
(* Flash client of otpilot, the FlashSyscalls capsule of h1_syscalls, and  *)
(* a flash that keeps the promise of FlashContract.tla.                    *)
(*                                                                         *)
(* The application is the only process of the board and waits for each     *)
(* operation; the callback of the kernel reaches it when it yields.        *)
(***************************************************************************)
EXTENDS Integers, FiniteSetsExt

CONSTANTS
    BufferWords,   \* the static buffer of FlashSyscalls (32 words)
    PageWords,     \* words of a flash page
    Pages,         \* pages of flash
    Segments,      \* the inactive segments, each a set of consecutive pages
    Data           \* what a host may ask to be written

ASSUME SegmentsAssumption ==
    /\ BufferWords \in Nat \ {0} /\ PageWords \in Nat \ {0} /\ Pages \in Nat \ {0}
    /\ \A segment \in Segments :
          segment # {} /\ segment = Min(segment) .. Max(segment) /\ Max(segment) < Pages

VARIABLES
    pc,            \* what the application is doing
    segment,       \* FirmwareController.erase_segment or write_segment
    erase_page,    \* FirmwareController.erase_page
    chunk,         \* write_offset (as a word of flash), write_length, WRITE_BUF
    done, result,  \* FlashImpl.operation_done and operation_result
    upcall,        \* the callback the kernel has scheduled for the process
    write_buffer,  \* length of FlashSyscalls.write_buffer, 0 while it is away
    device,        \* the operation of the flash
    content,       \* the words of flash
    answer         \* what the last call of the controller returned

capsule == <<upcall, write_buffer, device>>
uvars == <<pc, segment, erase_page, chunk, done, result, capsule, content, answer>>

Words == 0 .. (Pages * PageWords - 1)
WordsOf(page) == (page * PageWords) .. (page * PageWords + PageWords - 1)
SegmentWords(s) == UNION {WordsOf(page) : page \in s}
ChunkWords == chunk.offset .. (chunk.offset + chunk.length - 1)
Codes == {"SUCCESS", "FAIL"}

NoChunk == [offset |-> 0, length |-> 0, data |-> CHOOSE x \in Data : TRUE]
NoOperation == [kind |-> "none", at |-> 0, words |-> 0, applied |-> FALSE]

UTypeOK ==
    /\ pc \in {"ready", "erasing", "writing"}
    /\ segment \in Segments \cup {{}}
    /\ erase_page \in 0 .. (Pages - 1)
    /\ chunk \in [offset : Words, length : 0 .. BufferWords, data : Data]
    /\ done \in BOOLEAN /\ result \in Codes
    /\ upcall \in Codes \cup {"none"}
    /\ write_buffer \in 0 .. BufferWords
    /\ device \in [kind : {"none", "erase", "write"}, at : Words,
                   words : 0 .. BufferWords, applied : BOOLEAN]
    /\ content \in [Words -> Data \cup {"old", "erased", "mixed"}]
    /\ answer \in {"none", "erased", "error", "verified", "differs"}

(* The state of the RAM after a start.  The client's result starts at -1,   *)
(* which it treats as a failure.                                            *)
Start(p, s, page, c, d, r, u, buffer, dev, ans) ==
    /\ p = "ready" /\ s = {} /\ page = 0
    /\ c = NoChunk
    /\ d = FALSE /\ r = "FAIL" /\ u = "none"
    /\ buffer = BufferWords
    /\ dev = NoOperation
    /\ ans = "none"

UInit ==
    /\ Start(pc, segment, erase_page, chunk, done, result, upcall, write_buffer, device, answer)
    /\ content = [w \in Words |-> "old"]

-----------------------------------------------------------------------------
(* The capsule answers EBUSY while the device works.  A controller that     *)
(* waits never meets that answer (CompletionIsCurrent).                     *)

(* FlashSyscalls::erase, and the client that clears its flags before. *)
CommandErase(page) ==
    /\ device.kind = "none"
    /\ device' = [NoOperation EXCEPT !.kind = "erase", !.at = page * PageWords]
    /\ done' = FALSE /\ result' = "FAIL"
    /\ UNCHANGED <<upcall, write_buffer>>

(* FlashSyscalls::write, and the client.  The device is handed the slice of *)
(* the static buffer that this write fills; that slice is what comes back.  *)
CommandWrite(offset, length) ==
    /\ device.kind = "none" /\ write_buffer > 0
    /\ device' = [NoOperation EXCEPT !.kind = "write", !.at = offset,
                                     !.words = Min({write_buffer, length})]
    /\ write_buffer' = 0
    /\ done' = FALSE /\ result' = "FAIL"
    /\ UNCHANGED upcall

-----------------------------------------------------------------------------
(* The requests of the host, one at a time.  What the controller still has  *)
(* of an earlier request of the other kind is not used again: it is         *)
(* forgotten.                                                               *)

(* UpdatePrepare: erase_segment_start. *)
process_firmware_update_prepare(s) ==
    /\ pc = "ready"
    /\ pc' = "erasing" /\ answer' = "none"
    /\ segment' = s
    /\ erase_page' = Min(s)
    /\ chunk' = NoChunk
    /\ CommandErase(Min(s))
    /\ UNCHANGED content

(* WriteChunk, once it is known to lie in the segment: write_segment_chunk. *)
process_firmware_write_chunk(s, offset, length, data) ==
    /\ pc = "ready"
    /\ offset .. (offset + length - 1) \subseteq SegmentWords(s)
    /\ pc' = "writing" /\ answer' = "none"
    /\ segment' = s
    /\ chunk' = [offset |-> offset, length |-> length, data |-> data]
    /\ erase_page' = 0
    /\ CommandWrite(offset, length)
    /\ UNCHANGED content

(* The call of the controller ends; check_operation_result has cleared the  *)
(* client's flag.                                                           *)
Return(what) ==
    /\ pc' = "ready" /\ answer' = what
    /\ done' = FALSE
    /\ UNCHANGED <<segment, erase_page, chunk, result, capsule, content>>

OperationFailed ==
    /\ pc # "ready" /\ done /\ result = "FAIL"
    /\ Return("error")

ErasePage(page) ==
    /\ erase_page' = page
    /\ CommandErase(page)
    /\ UNCHANGED <<pc, segment, chunk, content, answer>>

(* Fault: the last page of the segment is left out. *)
erase_segment_continue_short ==
    /\ pc = "erasing" /\ done /\ result = "SUCCESS"
    /\ IF erase_page >= Max(segment) - 1
         THEN Return("erased")
         ELSE ErasePage(erase_page + 1)

(* Fault: one page too many. *)
erase_segment_continue_long ==
    /\ pc = "erasing" /\ done /\ result = "SUCCESS"
    /\ IF erase_page > Max(segment)
         THEN Return("erased")
         ELSE ErasePage(erase_page + 1)

erase_segment_continue ==
    /\ pc = "erasing" /\ done /\ result = "SUCCESS"
    /\ IF erase_page >= Max(segment)
         THEN Return("erased")
         ELSE ErasePage(erase_page + 1)

(* Fault: only as much as the capsule's buffer holds is compared. *)
verify_segment_chunk_short ==
    /\ pc = "writing" /\ done /\ result = "SUCCESS"
    /\ Return(IF \A w \in ChunkWords : w < chunk.offset + write_buffer => content[w] = chunk.data
                THEN "verified" ELSE "differs")

verify_segment_chunk ==
    /\ pc = "writing" /\ done /\ result = "SUCCESS"
    /\ Return(IF \A w \in ChunkWords : content[w] = chunk.data
                THEN "verified" ELSE "differs")

(* Fault: wait_operation_done yields once and does not look at the flag. *)
wait_operation_done_once ==
    /\ pc # "ready" /\ ~done
    /\ done' = TRUE
    /\ result' = IF upcall = "none" THEN result ELSE upcall
    /\ upcall' = "none"
    /\ UNCHANGED <<pc, segment, erase_page, chunk, write_buffer, device, content, answer>>

(* The process yields until the callback, operation_done, has run. *)
wait_operation_done ==
    /\ pc # "ready" /\ ~done
    /\ upcall # "none"
    /\ done' = TRUE
    /\ result' = upcall
    /\ upcall' = "none"
    /\ UNCHANGED <<pc, segment, erase_page, chunk, write_buffer, device, content, answer>>

-----------------------------------------------------------------------------
(* The flash. *)

Touched ==
    IF device.kind = "erase"
      THEN WordsOf(device.at \div PageWords)
      ELSE device.at .. (device.at + device.words - 1)

(* Writing clears bits: it works on an erased word. *)
Programmed(w) ==
    IF device.kind = "erase" THEN "erased"
    ELSE IF content[w] \in {"erased", chunk.data} THEN chunk.data
    ELSE "mixed"

FlashApplies ==
    /\ device.kind # "none" /\ ~device.applied
    /\ content' = [w \in Words |-> IF w \in Touched THEN Programmed(w) ELSE content[w]]
    /\ device' = [device EXCEPT !.applied = TRUE]
    /\ UNCHANGED <<pc, segment, erase_page, chunk, done, result, upcall, write_buffer, answer>>

(* The words are in no particular state while the operation is under way:   *)
(* a later step completes it, or never does.                                *)
FlashPartly ==
    /\ device.kind # "none" /\ ~device.applied
    /\ \E w \in Touched : content[w] # "mixed"
    /\ content' = [w \in Words |-> IF w \in Touched THEN "mixed" ELSE content[w]]
    /\ UNCHANGED <<pc, segment, erase_page, chunk, done, result, capsule, answer>>


(* FlashSyscalls::erase_done and write_done. *)
operation_done(code) ==
    /\ device.kind # "none"
    /\ code = "SUCCESS" => device.applied
    /\ write_buffer' = IF device.kind = "write" THEN device.words ELSE write_buffer
    /\ upcall' = code
    /\ device' = NoOperation
    /\ UNCHANGED <<pc, segment, erase_page, chunk, done, result, content, answer>>

(* Loss of power, or the reboot that the host asks for. *)
PapaReset ==
    /\ Start(pc', segment', erase_page', chunk', done', result', upcall', write_buffer',
             device', answer')
    /\ UNCHANGED content

UNext ==
    \/ \E s \in Segments :
          \/ process_firmware_update_prepare(s)
          \/ \E offset \in Words, length \in 1 .. BufferWords, data \in Data :
                process_firmware_write_chunk(s, offset, length, data)
    \/ OperationFailed
    \/ erase_segment_continue
    \/ verify_segment_chunk
    \/ wait_operation_done
    \/ FlashApplies
    \/ FlashPartly
    \/ \E code \in Codes : operation_done(code)
    \/ PapaReset

(* The process runs when it has something to do, and the flash reports the  *)
(* end of every operation.                                                  *)
UFairness ==
    /\ WF_uvars(OperationFailed \/ erase_segment_continue \/ verify_segment_chunk
                  \/ wait_operation_done)
    /\ WF_uvars(\E code \in Codes : operation_done(code))

USpec == UInit /\ [][UNext]_uvars /\ UFairness

-----------------------------------------------------------------------------
(* The completion the client sees is that of the operation it waits for.    *)
(* When the controller is ready no operation, callback or completion of an  *)
(* earlier request is left over, a completion excludes another one, and the *)
(* capsule has its write buffer unless a write is under way.                *)
CompletionIsCurrent ==
    /\ (write_buffer = 0) = (device.kind = "write")
    /\ pc = "ready" => ~done /\ upcall = "none" /\ device.kind = "none"
    /\ done => upcall = "none" /\ device.kind = "none"
    /\ upcall # "none" => device.kind = "none"

(* A segment that UpdatePrepare reports as erased is erased to its last     *)
(* page, whatever failed before.                                            *)
ErasedMeansErased ==
    answer = "erased" => \A w \in SegmentWords(segment) : content[w] = "erased"

(* A chunk that WriteChunk reports as a success is in flash to its last     *)
(* word, also when the capsule wrote less than it was asked to.             *)
VerifiedMeansWritten ==
    answer = "verified" => \A w \in ChunkWords : content[w] = chunk.data


(* Documented for Flash::write: `len` is the number of bytes to write.  A   *)
(* write that ended with SUCCESS has left no word of its chunk erased.      *)
WriteCoversLength ==
    pc = "writing" /\ done /\ result = "SUCCESS"
        => \A w \in ChunkWords : content[w] # "erased"

=============================================================================
