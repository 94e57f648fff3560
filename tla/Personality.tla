---------------------------- MODULE Personality ----------------------------
(***************************************************************************)
(* The attestation data page: PersonalityDriver (h1/src/personality.rs)    *)
(* and the PersonalitySyscall (h1_syscalls/src/personality.rs) on top of   *)
(* it.  The operations they ask of their FlashUser are the operators       *)
(* set_u8_asks and erase_done_asks; Golf2Storage.tla hands them on.        *)
(***************************************************************************)

CONSTANTS
    Apps,    \* the processes
    NoApp    \* current_user.is_none()

VARIABLES
    state,         \* PersonalityDriver.state
    page_buffer,   \* PersonalityDriver.write_buffer.is_some()
    current_user,  \* PersonalitySyscall.current_user
    page           \* the page of flash: "data", "erased" or "partial"

pvars == <<state, page_buffer, current_user, page>>

PTypeOK ==
    /\ state \in {"Idle", "ErasingU8", "WritingU8"}
    /\ page_buffer \in BOOLEAN
    /\ current_user \in Apps \cup {NoApp}
    /\ page \in {"data", "erased", "partial"}

PInit ==
    /\ state = "Idle"
    /\ page_buffer = TRUE
    /\ current_user = NoApp
    /\ page = "data"

(* set_u8 gets as far as the flash and the flash takes the erase: it is     *)
(* refused for a short slice (ESIZE) and while busy (EBUSY).                *)
set_u8_starts(long, flash_idle) == long /\ state = "Idle" /\ flash_idle

set_u8_asks(long, flash_idle) == IF set_u8_starts(long, flash_idle) THEN "erase" ELSE "Idle"

(* Fault: the state is set whatever the flash answers. *)
set_u8_ignores_busy(long, flash_idle) ==
    state' = IF long THEN "ErasingU8" ELSE state

(* set_u8 erases the page first.  It fills the buffer, and leaves Idle,     *)
(* only if it has the buffer.                                               *)
set_u8(long, flash_idle) ==
    state' = IF set_u8_starts(long, flash_idle) /\ page_buffer THEN "ErasingU8" ELSE state

(* COMMAND_WRITE.  What set_u8 returns is dropped, and the process is the   *)
(* one to be called back in any case.  `busy` is never set.                 *)
command_write(app, long, flash_idle) ==
    /\ set_u8(long, flash_idle)
    /\ current_user' = app
    /\ UNCHANGED <<page_buffer, page>>

(* Fault: the state of a write of the structure is entered. *)
erase_done_enters_struct ==
    /\ state = "ErasingU8"
    /\ state' = "WritingStruct"
    /\ page_buffer' = FALSE
    /\ UNCHANGED <<current_user, page>>

(* erase_done looks at no return code.  start_write hands the buffer of     *)
(* PAGE_SIZE_U32 words to the FlashUser, which takes it; the driver behind  *)
(* it takes no more than MAX_WRITE_SIZE (32) words.                         *)
erase_done_asks == "bad write"

erase_done_u8 ==
    /\ state = "ErasingU8"
    /\ state' = "WritingU8"
    /\ page_buffer' = FALSE
    /\ UNCHANGED <<current_user, page>>

(* The erase shows in the page, in part or in full. *)
PageErases ==
    /\ page' \in {"erased", "partial"} \ {page}
    /\ UNCHANGED <<state, page_buffer, current_user>>

(* RAM is lost, the page is not. *)
PReset ==
    /\ state' = "Idle"
    /\ page_buffer' = TRUE
    /\ current_user' = NoApp
    /\ UNCHANGED page
=============================================================================
