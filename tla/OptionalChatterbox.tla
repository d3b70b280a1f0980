-------------------------- MODULE OptionalChatterbox --------------------------
(***************************************************************************)
(* The optional speech runtime on disk: OptionalChatterboxManager of       *)
(* apps/desktop/src-tauri/src/tts_optional_chatterbox.rs, which downloads, *)
(* verifies, promotes and removes it.                                      *)
(*                                                                         *)
(* Every command runs on a thread of its own.  The operation record says   *)
(* what is under way; its lock is held for a moment, and by a promotion    *)
(* from its last look at the cancellation to its commit.  The runtime's    *)
(* lock guards the installed directory and is held by a promotion from its *)
(* verification to the end.  The application may crash between any two     *)
(* steps: directories stay, everything else is lost.                       *)
(*                                                                         *)
(* A directory is absent, partial (whatever does not verify) or complete.  *)
(* Deleting fails before it begins or half way.  Left out: the contents of *)
(* downloads, progress, what a snapshot shows, and the directories of      *)
(* older versions and of the cache.                                        *)
(***************************************************************************)
EXTENDS Naturals, FiniteSets

CONSTANTS
    MaxThreads,     \* bound: commands under way at a time
    MaxAttempts,    \* bound: acquisitions confirmed
    MaxCrashes      \* bound: crashes of the application

ASSUME BoundsAssumption ==
    MaxThreads \in Nat \ {0} /\ MaxAttempts \in Nat /\ MaxCrashes \in Nat

Threads == 1 .. MaxThreads

Nobody == 0

NoAttempt == 0

VARIABLES
    operation,  \* the operation record; an attempt is its cancellation token
    cancelled,  \* attempts whose token was set
    lock,       \* the thread that holds the runtime's lock
    work,       \* where each thread is
    package,    \* the installed directory
    backup,     \* the previous one, set aside by a promotion
    staging,    \* the acquisition's directory
    attempts,   \* attempts confirmed so far
    installed,  \* a runtime was installed and nobody asked to remove it
    promoted,   \* attempts that were installed
    crashes     \* crashes so far

directories == <<package, backup, staging>>

history == <<attempts, installed, promoted, crashes>>

vars == <<operation, cancelled, lock, work, directories, history>>

NoOperation ==
    [state |-> "none", active |-> FALSE, token |-> NoAttempt, cleanup |-> FALSE]

\* moved: a promotion set the installed runtime aside; error: why it failed.
Idle == [at |-> "idle", token |-> NoAttempt, moved |-> FALSE, error |-> "none"]

\* The application starts over what an earlier session, which may have crashed,
\* left: also with the installed runtime still set aside.
Init ==
    /\ operation = NoOperation /\ cancelled = {} /\ lock = Nobody
    /\ work = [t \in Threads |-> Idle]
    /\ package \in {"absent", "complete"} /\ backup \in {"absent", "complete"}
    /\ staging = "absent"
    /\ attempts = 0 /\ crashes = 0 /\ promoted = {}
    /\ installed = (package = "complete" \/ backup = "complete")

-----------------------------------------------------------------------------
(* Locks, the record and the disk *)

\* The record's lock is held by a promotion that commits.
OperationFree == \A t \in Threads : work[t].at \notin {"displacing", "replacing"}

LockFree == lock = Nobody

\* The thread goes on.
Goto(t, at) == work' = [work EXCEPT ![t].at = at]

Return(t) == work' = [work EXCEPT ![t] = Idle]

\* The acquisition fails; its guards drop the locks.
Fails(t, error) ==
    /\ work' = [work EXCEPT ![t].at = "failing", ![t].error = error]
    /\ lock' = IF lock = t THEN Nobody ELSE lock

\* An operation with a token has a worker; what is left to clean after a commit
\* is remembered by a failure to clean only.
set_operation(state, token, error) ==
    /\ OperationFree
    /\ operation' = [state |-> state, active |-> token # NoAttempt, token |-> token,
                     cleanup |-> /\ state = "failed" /\ error = "cleanup"
                                 /\ operation.cleanup]

clear_operation == OperationFree /\ operation' = NoOperation

Deleted == [left |-> "absent", error |-> "none"]

\* What deleting a directory may come to.
Deletions(directory) ==
    IF directory = "absent" THEN {Deleted}
    ELSE {Deleted, [left |-> directory, error |-> "other"],
          [left |-> directory, error |-> "cleanup"],
          [left |-> "partial", error |-> "cleanup"]}

-----------------------------------------------------------------------------
(* Selecting: the user is asked to confirm *)

\* What nobody may replace.
Claimed == {"installed", "downloading", "verifying", "removing"}

select(t) ==
    /\ work[t] = Idle /\ OperationFree
    /\ operation.state \notin Claimed
    /\ Goto(t, IF operation.state = "none" THEN "inspecting" ELSE "selecting")
    /\ UNCHANGED <<operation, cancelled, lock, directories, history>>

\* With nothing under way the directory decides.
inspect(t) ==
    /\ work[t].at = "inspecting" /\ LockFree /\ OperationFree
    /\ IF \/ operation.state \in Claimed
          \/ operation.state = "none" /\ package = "complete"
       THEN Return(t)
       ELSE Goto(t, "selecting")
    /\ UNCHANGED <<operation, cancelled, lock, directories, history>>

\* The attempt gets a token of its own, in the place of one nobody confirmed.
confirm(t) ==
    /\ work[t].at = "selecting" /\ OperationFree
    /\ Return(t)
    /\ IF operation.state \in Claimed
       THEN UNCHANGED <<operation, attempts>>
       ELSE /\ attempts < MaxAttempts
            /\ attempts' = attempts + 1
            /\ operation' = [NoOperation EXCEPT !.state = "confirming",
                                                !.token = attempts + 1]
    /\ UNCHANGED <<cancelled, lock, directories, installed, promoted, crashes>>

-----------------------------------------------------------------------------
(* Acquiring *)

\* Mutated form: the command carries a token of its own.
download_attempt_ownToken(t) ==
    /\ work[t] = Idle /\ OperationFree
    /\ operation.state = "confirming"
    /\ work' = [work EXCEPT ![t].at = "probing", ![t].token = operation.token + 1]
    /\ UNCHANGED <<operation, cancelled, lock, directories, history>>

\* The user's consent is for the attempt that is waiting for it.
download_attempt(t) ==
    /\ work[t] = Idle /\ OperationFree
    /\ operation.state = "confirming"
    /\ work' = [work EXCEPT ![t].at = "probing", ![t].token = operation.token]
    /\ UNCHANGED <<operation, cancelled, lock, directories, history>>

Consented(t) ==
    /\ operation.state = "confirming"
    /\ operation.token = work[t].token
    /\ work[t].token \notin cancelled

\* Mutated form: any attempt that waits is started.
download_for_attempt_anyAttempt(t) ==
    /\ work[t].at = "probing" /\ OperationFree
    /\ IF operation.state = "confirming" /\ work[t].token \notin cancelled
       THEN /\ operation' = [operation EXCEPT !.state = "downloading", !.active = TRUE,
                                              !.token = work[t].token]
            /\ Goto(t, "clearing")
       ELSE Return(t) /\ UNCHANGED operation
    /\ UNCHANGED <<cancelled, lock, directories, history>>

\* The host was looked at, which takes its time: the attempt may be gone, and the
\* host may not be admitted.
download_for_attempt(t) ==
    /\ work[t].at = "probing" /\ OperationFree
    /\ \/ /\ Consented(t)
          /\ operation' = [operation EXCEPT !.state = "downloading", !.active = TRUE]
          /\ Goto(t, "clearing")
       \/ Return(t) /\ UNCHANGED operation
    /\ UNCHANGED <<cancelled, lock, directories, history>>

\* What is left in staging goes, and the directories are made.
clearStaging(t) ==
    /\ work[t].at = "clearing"
    /\ \E deletion \in Deletions(staging) :
          IF deletion = Deleted
          THEN staging' = "partial" /\ Goto(t, "downloading") /\ UNCHANGED lock
          ELSE staging' = deletion.left /\ Fails(t, deletion.error)
    /\ UNCHANGED <<operation, cancelled, package, backup, history>>

NotCancelled(t) == work[t].token \notin cancelled

\* Every part and model arrived and was verified.
downloaded(t) ==
    /\ work[t].at = "downloading" /\ NotCancelled(t)
    /\ set_operation("verifying", work[t].token, "none")
    /\ Goto(t, "assembling")
    /\ UNCHANGED <<cancelled, lock, directories, history>>

\* The runtime is reassembled and extracted; whether it is right shows later.
assembled(t) ==
    /\ work[t].at = "assembling" /\ NotCancelled(t)
    /\ staging' \in {"partial", "complete"}
    /\ Goto(t, "waiting")
    /\ UNCHANGED <<operation, cancelled, lock, package, backup, history>>

beginPromotion(t) ==
    /\ work[t].at = "waiting" /\ LockFree /\ NotCancelled(t)
    /\ lock' = t
    /\ Goto(t, "checking")
    /\ UNCHANGED <<operation, cancelled, directories, history>>

\* The worker notices a cancellation, or something else goes wrong.
abandon(t) ==
    /\ work[t].at \in {"clearing", "downloading", "assembling", "waiting", "checking"}
    /\ \/ work[t].at # "clearing" /\ ~NotCancelled(t) /\ Fails(t, "cancelled")
       \/ \E error \in {"other", "cleanup"} : Fails(t, error)
    /\ UNCHANGED <<operation, cancelled, directories, history>>

\* Mutated form: a runtime set aside by a crash makes way for the new one.
commitBegins_overBackup(t) ==
    /\ work[t].at = "checking" /\ staging = "complete" /\ NotCancelled(t)
    /\ OperationFree
    /\ \E deletion \in Deletions(backup) :
          /\ backup' = deletion.left
          /\ IF deletion = Deleted THEN Goto(t, "displacing") /\ UNCHANGED lock
                                   ELSE Fails(t, deletion.error)
    /\ UNCHANGED <<operation, cancelled, package, staging, history>>

\* The runtime verified: from here to the commit nobody can cancel.  A runtime
\* that exists only as the backup is not touched.
commitBegins(t) ==
    /\ work[t].at = "checking" /\ staging = "complete" /\ NotCancelled(t)
    /\ OperationFree
    /\ IF package = "absent" /\ backup # "absent"
       THEN Fails(t, "cleanup") /\ UNCHANGED backup
       ELSE \E deletion \in Deletions(backup) :
                /\ backup' = deletion.left
                /\ IF deletion = Deleted
                   THEN Goto(t, "displacing") /\ UNCHANGED lock
                   ELSE Fails(t, deletion.error)
    /\ UNCHANGED <<operation, cancelled, package, staging, history>>

\* The installed runtime is set aside.
displace(t) ==
    /\ work[t].at = "displacing"
    /\ \/ /\ package = "absent"
          /\ Goto(t, "replacing")
          /\ UNCHANGED <<lock, package, backup>>
       \/ /\ package # "absent"
          /\ backup' = package /\ package' = "absent"
          /\ work' = [work EXCEPT ![t].at = "replacing", ![t].moved = TRUE]
          /\ UNCHANGED lock
       \/ /\ package # "absent"
          /\ Fails(t, "cleanup")
          /\ UNCHANGED <<package, backup>>
    /\ UNCHANGED <<operation, cancelled, staging, history>>

\* The new runtime takes its place, and the operation commits.
replace(t) ==
    /\ work[t].at = "replacing"
    /\ package' = "complete" /\ staging' = "partial"
    /\ operation' = [operation EXCEPT !.state = "installed", !.token = NoAttempt,
                                      !.active = TRUE, !.cleanup = TRUE]
    /\ installed' = TRUE /\ promoted' = promoted \cup {work[t].token}
    /\ Goto(t, "tidying")
    /\ UNCHANGED <<cancelled, lock, backup, attempts, crashes>>

\* It does not: the old one is put back, if that works.
putBack(t) ==
    /\ work[t].at = "replacing"
    /\ \/ /\ work[t].moved
          /\ package' = backup /\ backup' = "absent"
       \/ UNCHANGED <<package, backup>>
    /\ Fails(t, "cleanup")
    /\ UNCHANGED <<operation, cancelled, staging, history>>

\* The old runtime is deleted, and the runtime's lock dropped.
tidy(t) ==
    /\ work[t].at = "tidying"
    /\ \E deletion \in IF work[t].moved THEN Deletions(backup) ELSE {Deleted} :
          /\ backup' = IF work[t].moved THEN deletion.left ELSE backup
          /\ IF deletion = Deleted
             THEN Goto(t, "sweeping") /\ lock' = Nobody
             ELSE Fails(t, deletion.error)
    /\ UNCHANGED <<operation, cancelled, package, staging, history>>

sweep(t) ==
    /\ work[t].at = "sweeping"
    /\ \E deletion \in Deletions(staging) :
          /\ staging' = deletion.left
          /\ IF deletion = Deleted
             THEN clear_operation /\ Return(t) /\ UNCHANGED lock
             ELSE Fails(t, deletion.error) /\ UNCHANGED operation
    /\ UNCHANGED <<cancelled, package, backup, history>>

\* Mutated form: a cancelled worker that cannot clean up settles nothing.
fail_silently(t) ==
    /\ work[t].at = "failing"
    /\ \E deletion \in Deletions(staging) :
          /\ staging' = deletion.left
          /\ IF deletion = Deleted
             THEN IF work[t].error = "cancelled" THEN clear_operation
                  ELSE set_operation("failed", NoAttempt, work[t].error)
             ELSE UNCHANGED operation
    /\ Return(t)
    /\ UNCHANGED <<cancelled, lock, package, backup, history>>

\* The error of the cleanup, if there is one, is the one that is kept.
fail(t) ==
    /\ work[t].at = "failing"
    /\ \E deletion \in Deletions(staging) :
          /\ staging' = deletion.left
          /\ CASE deletion # Deleted ->
                    set_operation("failed", NoAttempt, deletion.error)
               [] deletion = Deleted /\ work[t].error = "cancelled" -> clear_operation
               [] OTHER -> set_operation("failed", NoAttempt, work[t].error)
    /\ Return(t)
    /\ UNCHANGED <<cancelled, lock, package, backup, history>>

-----------------------------------------------------------------------------
(* Cancelling, removing, cleaning up *)

\* The token is set; a worker notices it, and a confirmation is taken over.
cancel(t) ==
    /\ work[t] = Idle /\ OperationFree
    /\ operation.token # NoAttempt
    /\ cancelled' = cancelled \cup {operation.token}
    /\ IF operation.state = "confirming"
       THEN /\ operation' = [operation EXCEPT !.state = "removing", !.active = TRUE]
            /\ Goto(t, "unconfirming")
       ELSE UNCHANGED <<operation, work>>
    /\ UNCHANGED <<lock, directories, history>>

unconfirm(t) ==
    /\ work[t].at = "unconfirming" /\ LockFree
    /\ \E deletion \in Deletions(staging) :
          /\ staging' = deletion.left
          /\ IF deletion = Deleted
             THEN clear_operation
             ELSE set_operation("failed", NoAttempt, deletion.error)
    /\ Return(t)
    /\ UNCHANGED <<cancelled, lock, package, backup, history>>

\* The service was stopped, which is the supervisor's part.
remove(t) ==
    /\ work[t] = Idle /\ OperationFree
    /\ ~operation.active
    /\ operation.state \notin {"confirming", "downloading", "verifying", "removing"}
    /\ operation' = [NoOperation EXCEPT !.state = "removing"]
    /\ installed' = FALSE
    /\ Goto(t, "erasing")
    /\ UNCHANGED <<cancelled, lock, directories, attempts, promoted, crashes>>

\* Directories go one after the other, until one does not; older is what becomes
\* of those the model has no variable for.
erase(t) ==
    /\ work[t].at = "erasing" /\ LockFree
    /\ \E p \in Deletions(package), b \in Deletions(backup), s \in Deletions(staging),
          older \in {"none", "cleanup", "other"} :
          LET error == CASE p # Deleted -> p.error
                         [] p = Deleted /\ b # Deleted -> b.error
                         [] p = Deleted /\ b = Deleted /\ older # "none" -> older
                         [] OTHER -> s.error
              swept == p = Deleted /\ b = Deleted /\ older = "none"
          IN /\ package' = p.left
             /\ backup' = IF p = Deleted THEN b.left ELSE backup
             /\ staging' = IF swept THEN s.left ELSE staging
             /\ IF error = "none"
                THEN clear_operation
                ELSE set_operation("failed", NoAttempt, error)
    /\ Return(t)
    /\ UNCHANGED <<cancelled, lock, history>>

\* What a committed acquisition could not delete is deleted on request, with
\* both locks held throughout.
retry_cleanup(t) ==
    /\ work[t] = Idle /\ LockFree /\ OperationFree
    /\ operation.state = "failed" /\ operation.cleanup /\ ~operation.active
    /\ package = "complete"
    /\ \E b \in Deletions(backup), s \in Deletions(staging) :
          /\ backup' = b.left
          /\ staging' = IF b = Deleted THEN s.left ELSE staging
          /\ operation' = IF b = Deleted /\ s = Deleted THEN NoOperation
                                                        ELSE operation
    /\ UNCHANGED <<cancelled, lock, work, package, history>>

\* The application crashes and is started again.
crash ==
    /\ crashes < MaxCrashes
    /\ crashes' = crashes + 1
    /\ operation' = NoOperation /\ lock' = Nobody
    /\ work' = [t \in Threads |-> Idle]
    /\ UNCHANGED <<cancelled, directories, attempts, installed, promoted>>

-----------------------------------------------------------------------------

User(t) ==
    select(t) \/ download_attempt(t) \/ cancel(t) \/ remove(t) \/ retry_cleanup(t)

Acquires(t) ==
    \/ download_for_attempt(t) \/ clearStaging(t) \/ downloaded(t) \/ assembled(t)
    \/ beginPromotion(t) \/ abandon(t) \/ commitBegins(t) \/ displace(t)
    \/ replace(t) \/ putBack(t) \/ tidy(t) \/ sweep(t) \/ fail(t)

Continues(t) ==
    inspect(t) \/ confirm(t) \/ Acquires(t) \/ unconfirm(t) \/ erase(t)

Next == (\E t \in Threads : User(t) \/ Continues(t)) \/ crash

Spec == Init /\ [][Next]_vars

\* Threads run; transfers time out.  Nothing is assumed of the user.
FairSpec == Spec /\ \A t \in Threads : WF_vars(Continues(t))

-----------------------------------------------------------------------------
(* Properties *)

Working ==
    {"clearing", "downloading", "assembling", "waiting", "checking", "displacing",
     "replacing", "tidying", "sweeping", "failing"}

Places ==
    Working \cup {"idle", "inspecting", "selecting", "probing", "unconfirming",
                  "erasing"}

Contents == {"absent", "partial", "complete"}

Errors == {"none", "cancelled", "cleanup", "other"}

Operations ==
    [state : {"none", "confirming", "downloading", "verifying", "installed", "failed",
              "removing"},
     active : BOOLEAN, token : 0 .. MaxAttempts, cleanup : BOOLEAN]

Works == [at : Places, token : 0 .. MaxAttempts, moved : BOOLEAN, error : Errors]

\* The record, the threads and the directories hold what their types allow: a
\* thread's token is one that a selection made.
TypeOK ==
    /\ operation \in Operations /\ work \in [Threads -> Works]
    /\ {package, backup, staging} \subseteq Contents
    /\ cancelled \subseteq 1 .. MaxAttempts /\ promoted \subseteq 1 .. MaxAttempts
    /\ attempts \in 0 .. MaxAttempts /\ crashes \in 0 .. MaxCrashes
    /\ installed \in BOOLEAN /\ lock \in Threads \cup {Nobody}

\* An installed runtime is there, in its place or set aside, until its removal is
\* asked for: no acquisition that fails, is cancelled or dies with the
\* application destroys it.
InstalledSurvives ==
    installed => package = "complete" \/ backup = "complete"

\* A cancellation and a commit have one winner: what was cancelled is never
\* installed.
CancelledIsNotInstalled == cancelled \cap promoted = {}

\* The staging directory belongs to one thread: an acquisition, the
\* cancellation of a confirmation, or a removal.
StagingHasOneOwner ==
    Cardinality({t \in Threads :
        work[t].at \in Working \cup {"unconfirming", "erasing"}}) <= 1

\* A consent starts the attempt it was given for: what is acquired is what was
\* confirmed last, however long the host was looked at.
ConsentIsCurrent ==
    \A t \in Threads : work[t].at \in Working => work[t].token = attempts

\* Whoever fills the staging directory is alone there and has the consent.
StagingIsConsented == StagingHasOneOwner /\ ConsentIsCurrent

\* What the user consented to is what is done, until the user takes it back.
ConsentIsRespected == CancelledIsNotInstalled /\ StagingIsConsented

\* What is under way ends, also when it is cancelled or cannot clean up.
WorkEnds ==
    operation.state \in {"downloading", "verifying", "removing"}
        ~> operation.state \notin {"downloading", "verifying", "removing"}
=============================================================================
