----------------------- MODULE OptionalChatterbox_proofs -----------------------
(***************************************************************************)
(* TypeOK, InstalledSurvives, CancelledIsNotInstalled and                  *)
(* StagingIsConsented of OptionalChatterbox, for every number of commands, *)
(* of attempts and of crashes.                                             *)
(*                                                                         *)
(* The record of the operation is what keeps the threads apart: whoever    *)
(* works on the directories is recorded in it (RecordedAt), so nobody else *)
(* begins (Exclusive), the consent cannot be replaced under a worker       *)
(* (ConsentedAt), and what a thread knows of the directories stays true    *)
(* (KeptAt).  The runtime's lock is not needed for any of this.  A step is *)
(* one thread's, which keeps the invariant for itself by what the action   *)
(* does, and for the others because it is alone or leaves them be.         *)
(***************************************************************************)
EXTENDS OptionalChatterbox, FiniteSetTheorems, TLAPS

\* The thread works on the directories.
Owns(t) == work[t].at \in Working \cup {"unconfirming", "erasing"}

Exclusive == \A t, u \in Threads : Owns(t) /\ Owns(u) => t = u

\* Whoever works on the directories is recorded.
RecordedAt(t) ==
    /\ work[t].at \in Working =>
          operation.active /\ operation.state \in {"downloading", "verifying",
                                                   "installed"}
    /\ work[t].at = "unconfirming" =>
          operation.active /\ operation.state = "removing"
    /\ work[t].at = "erasing" =>
          ~operation.active /\ operation.state = "removing"

BeforeCommit == Working \ {"tidying", "sweeping", "failing"}

\* A worker has the last consent, and its attempt was not installed yet.
ConsentedAt(t) ==
    /\ work[t].at \in Working => work[t].token = attempts /\ attempts # 0
    /\ work[t].at \in BeforeCommit => work[t].token \notin promoted

\* No attempt that is recorded was installed, and the one that waits for its
\* consent is the last.
Consents ==
    /\ promoted \subseteq 1 .. attempts
    /\ operation.token \notin promoted
    /\ operation.state = "confirming" =>
          operation.token = attempts /\ attempts # 0

\* From its last look at the cancellation a promotion is not cancelled.
CommitsAt(t) ==
    work[t].at \in {"displacing", "replacing"} => work[t].token \notin cancelled

\* A promotion knows where the installed runtime is.
KeptAt(t) ==
    /\ work[t].at = "displacing" /\ installed => package = "complete"
    /\ work[t].at = "replacing" => package = "absent"
    /\ work[t].at = "tidying" => package = "complete"
    /\ work[t].at = "erasing" => ~installed

\* A runtime that is set aside left its place empty.
Kept ==
    installed => \/ package = "complete"
                 \/ package = "absent" /\ backup = "complete"

Local(t) == RecordedAt(t) /\ ConsentedAt(t) /\ CommitsAt(t) /\ KeptAt(t)

IInv == /\ TypeOK /\ Exclusive /\ Consents /\ CancelledIsNotInstalled /\ Kept
        /\ \A t \in Threads : Local(t)

\* No other thread's place changes.
Only(t) == /\ work' \in [Threads -> Works]
           /\ \A u \in Threads \ {t} : work'[u] = work[u]

\* Nobody else works on the directories.
Alone(t) == \A u \in Threads \ {t} : ~Owns(u)

\* Nothing changes that a worker relies on, but for the cancelled tokens.
Quiet(t) ==
    /\ ~Owns(t)'
    /\ UNCHANGED <<operation, package, backup, attempts, installed, promoted>>

\* What the helpers of the actions do to the thread that uses them.
LEMMA Going ==
    ASSUME work \in [Threads -> Works], NEW t \in Threads, NEW at \in Places,
           Goto(t, at)
    PROVE  /\ Only(t) /\ work'[t].at = at /\ work'[t].token = work[t].token
           /\ work'[t].moved = work[t].moved
BY DEF Goto, Only, Works

LEMMA Returning ==
    ASSUME work \in [Threads -> Works], NEW t \in Threads, Return(t)
    PROVE  Only(t) /\ work'[t].at = "idle"
BY BoundsAssumption DEF Return, Only, Works, Idle, Places, Errors, NoAttempt

LEMMA Failing ==
    ASSUME work \in [Threads -> Works], NEW t \in Threads, NEW error \in Errors,
           Fails(t, error)
    PROVE  /\ Only(t) /\ work'[t].at = "failing" /\ work'[t].token = work[t].token
           /\ lock' \in {lock, Nobody}
BY DEF Fails, Only, Works, Places, Working

\* What they do to the record.
LEMMA Setting ==
    ASSUME operation \in Operations, NEW state, NEW token, NEW error,
           set_operation(state, token, error)
    PROVE  /\ operation'.state = state /\ operation'.token = token
           /\ operation'.active = (token # NoAttempt)
           /\ state \in {"verifying", "failed"} /\ token \in 0 .. MaxAttempts =>
                 operation' \in Operations
BY DEF set_operation, Operations

LEMMA Clearing ==
    ASSUME clear_operation
    PROVE  /\ operation'.state = "none" /\ operation'.token = NoAttempt
           /\ ~operation'.active /\ operation' \in Operations
BY BoundsAssumption DEF clear_operation, NoOperation, Operations, NoAttempt

\* A directory whose deletion fails is as it was, or partial.
LEMMA Deleting ==
    ASSUME NEW d \in Contents, NEW deletion \in Deletions(d)
    PROVE  /\ deletion.left \in Contents /\ deletion.error \in Errors
           /\ deletion = Deleted => deletion.left = "absent"
           /\ deletion # Deleted => deletion.error \in {"other", "cleanup"}
BY DEF Deletions, Deleted, Contents, Errors

LEMMA NoOperationFacts ==
    /\ NoOperation \in Operations
    /\ NoOperation.state = "none" /\ NoOperation.token = NoAttempt
    /\ ~NoOperation.active
BY BoundsAssumption DEF NoOperation, Operations, NoAttempt

\* The records that the actions write are records.
LEMMA Marking ==
    ASSUME operation \in Operations, NEW state \in {"downloading", "removing"},
           operation' = [operation EXCEPT !.state = state, !.active = TRUE]
    PROVE  /\ operation' \in Operations
           /\ operation'.state = state /\ operation'.active
           /\ operation'.token = operation.token
BY DEF Operations

LEMMA Confirming ==
    ASSUME NEW token \in 0 .. MaxAttempts
    PROVE  [NoOperation EXCEPT !.state = "confirming", !.token = token]
               \in Operations
BY NoOperationFacts DEF Operations

LEMMA Committing ==
    ASSUME operation \in Operations, NEW token \in 0 .. MaxAttempts
    PROVE  [operation EXCEPT !.state = "installed", !.token = token,
                             !.active = TRUE, !.cleanup = TRUE] \in Operations
BY DEF Operations

\* Only the thread's own place changes.
LEMMA StepOnly ==
    ASSUME IInv, NEW t \in Threads, User(t) \/ Continues(t)
    PROVE  Only(t)
<1>1. CASE select(t) \/ inspect(t)
  BY <1>1, Going, Returning, BoundsAssumption
     DEF select, inspect, directories, history, IInv, TypeOK, Places,
         Working, Errors, Operations
<1>2. CASE confirm(t)
  BY <1>2, Returning, NoOperationFacts, BoundsAssumption
     DEF confirm, directories, IInv, TypeOK, Places, Working, Errors,
         Operations
<1>3. CASE download_attempt(t)
  <2>1. operation.token \in 0 .. MaxAttempts
    BY DEF IInv, TypeOK, Operations
  <2>2. QED
    BY <1>3, <2>1 DEF download_attempt, Only, IInv, TypeOK, Works, Places
<1>4. CASE download_for_attempt(t)
  BY <1>4, Going, Returning, BoundsAssumption
     DEF download_for_attempt, directories, history, Consented, IInv,
         TypeOK, Places, Working, Errors, Operations
<1>5. CASE clearStaging(t)
  BY <1>5, Going, Failing, Deleting, BoundsAssumption
     DEF clearStaging, history, IInv, TypeOK, Places, Working, Errors,
         Operations
<1>6. CASE downloaded(t)
  BY <1>6, Going, Setting, BoundsAssumption
     DEF downloaded, directories, history, IInv, TypeOK, Places, Working,
         Errors, Operations
<1>7. CASE beginPromotion(t) \/ assembled(t)
  BY <1>7, Going, BoundsAssumption
     DEF beginPromotion, assembled, directories, history, IInv, TypeOK,
         Places, Working, Errors, Operations
<1>8. CASE tidy(t) \/ putBack(t) \/ abandon(t)
  BY <1>8, Going, Failing, Deleting, BoundsAssumption
     DEF tidy, putBack, abandon, directories, history, IInv, TypeOK,
         Places, Working, Errors, Operations
<1>9. CASE commitBegins(t)
  BY <1>9, Going, Failing, Deleting, BoundsAssumption
     DEF commitBegins, history, IInv, TypeOK, Places, Working, Errors,
         Operations
<1>10. CASE displace(t)
  BY <1>10, Going, Failing, BoundsAssumption
     DEF displace, history, IInv, TypeOK, Places, Working, Errors,
         Operations, Only, Works
<1>11. CASE replace(t)
  BY <1>11, Going, BoundsAssumption
     DEF replace, IInv, TypeOK, Places, Working, Errors, Operations
<1>12. CASE sweep(t)
  BY <1>12, Returning, Failing, Clearing, Deleting, BoundsAssumption
     DEF sweep, history, IInv, TypeOK, Places, Working, Errors, Operations
<1>13. CASE unconfirm(t) \/ erase(t) \/ fail(t)
  BY <1>13, Returning, Setting, Clearing, Deleting, BoundsAssumption
     DEF unconfirm, erase, fail, history, IInv, TypeOK, Places, Working,
         Errors, Operations
<1>14. CASE cancel(t)
  BY <1>14, Going, BoundsAssumption
     DEF cancel, directories, history, IInv, TypeOK, Places, Working,
         Errors, Operations, Only
<1>15. CASE remove(t)
  BY <1>15, Going, NoOperationFacts, BoundsAssumption
     DEF remove, directories, IInv, TypeOK, Places, Working, Errors,
         Operations
<1>16. CASE retry_cleanup(t)
  BY <1>16, Deleting, NoOperationFacts, BoundsAssumption
     DEF retry_cleanup, history, IInv, TypeOK, Places, Working, Errors,
         Operations, Only
<1>. QED
  BY <1>1, <1>2, <1>3, <1>4, <1>5, <1>6, <1>7, <1>8, <1>9, <1>10, <1>11,
   <1>12, <1>13, <1>14, <1>15, <1>16
     DEF User, Continues, Acquires

\* The record keeps its type.
LEMMA StepOperation ==
    ASSUME IInv, NEW t \in Threads, User(t) \/ Continues(t)
    PROVE  operation' \in Operations
<1>1. CASE select(t) \/ inspect(t) \/ download_attempt(t) \/
          clearStaging(t) \/ assembled(t) \/ beginPromotion(t) \/
          abandon(t) \/ commitBegins(t) \/ displace(t) \/ putBack(t)
          \/ tidy(t)
  BY <1>1, Going, Returning, Failing, Deleting, BoundsAssumption
     DEF select, inspect, download_attempt, clearStaging, assembled,
         beginPromotion, abandon, commitBegins, displace, putBack, tidy,
         directories, history, Claimed, Idle, NotCancelled, IInv, TypeOK,
         Operations, Works, Errors
<1>2. CASE confirm(t)
  <2>1. attempts < MaxAttempts => attempts + 1 \in 0 .. MaxAttempts
    BY BoundsAssumption DEF IInv, TypeOK
  <2>2. QED BY <1>2, <2>1, Confirming DEF confirm, IInv, TypeOK
<1>3. CASE download_for_attempt(t)
  BY <1>3, Marking DEF download_for_attempt, IInv, TypeOK
<1>4. CASE downloaded(t)
  BY <1>4, Going, Setting, BoundsAssumption
     DEF downloaded, directories, history, NotCancelled, IInv, TypeOK,
         Operations, Works, Errors
<1>5. CASE replace(t)
  <2>1. NoAttempt \in 0 .. MaxAttempts
    BY BoundsAssumption DEF NoAttempt
  <2>2. QED BY <1>5, <2>1, Committing DEF replace, IInv, TypeOK
<1>6. CASE fail(t) \/ unconfirm(t) \/ erase(t) \/ sweep(t)
  BY <1>6, Returning, Failing, Setting, Clearing, Deleting, BoundsAssumption
     DEF fail, unconfirm, erase, sweep, history, NoAttempt, IInv, TypeOK,
         Operations, Works, Errors, Contents
<1>7. CASE cancel(t)
  BY <1>7, Going, BoundsAssumption
     DEF cancel, directories, history, NoAttempt, Idle, IInv, TypeOK,
         Operations, Works, Errors
<1>8. CASE remove(t)
  BY <1>8, Going, NoOperationFacts, BoundsAssumption
     DEF remove, directories, Idle, IInv, TypeOK, Operations, Works, Errors
<1>9. CASE retry_cleanup(t)
  BY <1>9, Deleting, NoOperationFacts, BoundsAssumption
     DEF retry_cleanup, history, Idle, IInv, TypeOK, Operations, Works,
         Errors
<1>. QED
  BY <1>1, <1>2, <1>3, <1>4, <1>5, <1>6, <1>7, <1>8, <1>9
     DEF User, Continues, Acquires

\* So do the directories.
LEMMA StepDirectories ==
    ASSUME IInv, NEW t \in Threads, User(t) \/ Continues(t)
    PROVE  {package, backup, staging}' \subseteq Contents
<1>1. CASE select(t) \/ inspect(t) \/ confirm(t) \/ download_attempt(t)
          \/ download_for_attempt(t) \/ downloaded(t) \/
          beginPromotion(t) \/ abandon(t) \/ cancel(t) \/ remove(t)
  BY <1>1, Going, Returning, Failing, Setting, NoOperationFacts
     DEF select, inspect, confirm, download_attempt, download_for_attempt,
         downloaded, beginPromotion, abandon, cancel, remove, directories,
         history, IInv, TypeOK, Contents
<1>2. CASE clearStaging(t)
  BY <1>2, Going, Failing, Deleting
     DEF clearStaging, history, IInv, TypeOK, Contents
<1>3. CASE assembled(t)
  BY <1>3, Going DEF assembled, history, IInv, TypeOK, Contents
<1>4. CASE commitBegins(t)
  BY <1>4, Going, Failing, Deleting
     DEF commitBegins, history, IInv, TypeOK, Contents
<1>5. CASE displace(t)
  BY <1>5, Going, Failing DEF displace, history, IInv, TypeOK, Contents
<1>6. CASE replace(t)
  BY <1>6, Going DEF replace, IInv, TypeOK, Contents
<1>7. CASE putBack(t)
  BY <1>7, Failing DEF putBack, history, IInv, TypeOK, Contents
<1>8. CASE tidy(t)
  BY <1>8, Going, Failing, Deleting DEF tidy, history, IInv, TypeOK, Contents
<1>9. CASE fail(t) \/ sweep(t) \/ unconfirm(t)
  BY <1>9, Returning, Failing, Setting, Clearing, Deleting
     DEF fail, sweep, unconfirm, history, IInv, TypeOK, Contents
<1>10. CASE erase(t)
  BY <1>10, Returning, Setting, Clearing, Deleting
     DEF erase, history, IInv, TypeOK, Contents
<1>11. CASE retry_cleanup(t)
  BY <1>11, Deleting, NoOperationFacts
     DEF retry_cleanup, history, IInv, TypeOK, Contents
<1>. QED
  BY <1>1, <1>2, <1>3, <1>4, <1>5, <1>6, <1>7, <1>8, <1>9, <1>10, <1>11
     DEF User, Continues, Acquires

\* The tokens that were cancelled were made, and the lock is a thread's or
\* nobody's.
LEMMA StepOthers ==
    ASSUME IInv, NEW t \in Threads, User(t) \/ Continues(t)
    PROVE  cancelled' \subseteq 1 .. MaxAttempts /\ lock' \in Threads \cup {Nobody}
<1>1. CASE select(t) \/ inspect(t) \/ confirm(t) \/ download_attempt(t)
          \/ download_for_attempt(t) \/ downloaded(t) \/ assembled(t)
          \/ replace(t)
  BY <1>1, Going, Returning, Setting, NoOperationFacts, BoundsAssumption
     DEF select, inspect, confirm, download_attempt, download_for_attempt,
         downloaded, assembled, replace, directories, history, IInv, TypeOK,
         Errors, Operations, NoAttempt
<1>2. CASE clearStaging(t)
  BY <1>2, Going, Failing, Deleting, BoundsAssumption
     DEF clearStaging, history, IInv, TypeOK, Errors, Operations, NoAttempt
<1>3. CASE beginPromotion(t)
  BY <1>3, Going, BoundsAssumption
     DEF beginPromotion, directories, history, IInv, TypeOK, Errors,
         Operations, NoAttempt
<1>4. CASE abandon(t)
  BY <1>4, Failing, BoundsAssumption
     DEF abandon, directories, history, IInv, TypeOK, Errors, Operations,
         NoAttempt
<1>5. CASE commitBegins(t)
  BY <1>5, Going, Failing, Deleting, BoundsAssumption
     DEF commitBegins, history, IInv, TypeOK, Errors, Operations, NoAttempt
<1>6. CASE displace(t)
  BY <1>6, Going, Failing, BoundsAssumption
     DEF displace, history, IInv, TypeOK, Errors, Operations, NoAttempt
<1>7. CASE putBack(t)
  BY <1>7, Failing, BoundsAssumption
     DEF putBack, history, IInv, TypeOK, Errors, Operations, NoAttempt
<1>8. CASE tidy(t)
  BY <1>8, Going, Failing, Deleting, BoundsAssumption
     DEF tidy, history, IInv, TypeOK, Errors, Operations, NoAttempt
<1>9. CASE sweep(t)
  BY <1>9, Returning, Failing, Clearing, Deleting, BoundsAssumption
     DEF sweep, history, IInv, TypeOK, Errors, Operations, NoAttempt
<1>10. CASE fail(t) \/ unconfirm(t) \/ erase(t) \/ retry_cleanup(t) \/
           remove(t)
  BY <1>10, Going, Returning, Setting, Clearing, Deleting, NoOperationFacts,
     BoundsAssumption
     DEF fail, unconfirm, erase, retry_cleanup, remove, directories,
         history, IInv, TypeOK, Errors, Operations, NoAttempt
<1>11. CASE cancel(t)
  BY <1>11, Going, BoundsAssumption
     DEF cancel, directories, history, IInv, TypeOK, Errors, Operations,
         NoAttempt
<1>. QED
  BY <1>1, <1>2, <1>3, <1>4, <1>5, <1>6, <1>7, <1>8, <1>9, <1>10, <1>11
     DEF User, Continues, Acquires

\* Who works on the directories works alone; other steps leave what a worker
\* relies on as it is.
LEMMA StepApart ==
    ASSUME IInv, NEW t \in Threads, User(t) \/ Continues(t)
    PROVE  Quiet(t) \/ Alone(t)
<1>1. CASE select(t)
  BY <1>1, Going
     DEF select, directories, history, Claimed, Idle, IInv, TypeOK, Places,
         Working, Errors, Quiet, Alone, Exclusive, Owns, Local, RecordedAt
<1>2. CASE inspect(t)
  BY <1>2, Going, Returning
     DEF inspect, directories, history, Claimed, IInv, TypeOK, Places,
         Working, Errors, Quiet, Alone, Exclusive, Owns, Local, RecordedAt
<1>3. CASE confirm(t)
  BY <1>3, Returning, NoOperationFacts
     DEF confirm, directories, Claimed, IInv, TypeOK, Places, Working,
         Errors, Quiet, Alone, Exclusive, Owns, Local, RecordedAt
<1>4. CASE download_attempt(t)
  BY <1>4
     DEF download_attempt, directories, history, Idle, IInv, TypeOK,
         Places, Working, Errors, Quiet, Alone, Exclusive, Owns, Local,
         RecordedAt
<1>5. CASE download_for_attempt(t)
  BY <1>5, Going, Returning
     DEF download_for_attempt, directories, history, Consented, IInv,
         TypeOK, Places, Working, Errors, Quiet, Alone, Exclusive, Owns, Local,
         RecordedAt
<1>6. CASE clearStaging(t) \/ assembled(t) \/ downloaded(t) \/
          beginPromotion(t)
  BY <1>6, Going, Failing, Setting, Deleting
     DEF clearStaging, assembled, downloaded, beginPromotion, directories,
         history, NotCancelled, IInv, TypeOK, Places, Working, Errors, Quiet,
         Alone, Exclusive, Owns, Local, RecordedAt
<1>7. CASE abandon(t)
  BY <1>7, Failing
     DEF abandon, directories, history, NotCancelled, IInv, TypeOK, Places,
         Working, Errors, Quiet, Alone, Exclusive, Owns, Local, RecordedAt
<1>8. CASE commitBegins(t)
  BY <1>8, Going, Failing, Deleting
     DEF commitBegins, history, NotCancelled, IInv, TypeOK, Places,
         Working, Errors, Quiet, Alone, Exclusive, Owns, Local, RecordedAt
<1>9. CASE displace(t)
  BY <1>9, Going, Failing
     DEF displace, history, IInv, TypeOK, Places, Working, Errors, Quiet,
         Alone, Exclusive, Owns, Local, RecordedAt
<1>10. CASE replace(t)
  BY <1>10, Going
     DEF replace, NoAttempt, IInv, TypeOK, Places, Working, Errors, Quiet,
         Alone, Exclusive, Owns, Local, RecordedAt
<1>11. CASE putBack(t)
  BY <1>11, Failing
     DEF putBack, history, IInv, TypeOK, Places, Working, Errors, Quiet,
         Alone, Exclusive, Owns, Local, RecordedAt
<1>12. CASE tidy(t) \/ sweep(t) \/ fail(t)
  BY <1>12, Going, Returning, Failing, Setting, Clearing, Deleting
     DEF tidy, sweep, fail, history, NoAttempt, IInv, TypeOK, Places,
         Working, Errors, Quiet, Alone, Exclusive, Owns, Local, RecordedAt
<1>13. CASE cancel(t)
  BY <1>13, Going
     DEF cancel, directories, history, NoAttempt, Idle, IInv, TypeOK,
         Places, Working, Errors, Quiet, Alone, Exclusive, Owns, Local,
         RecordedAt
<1>14. CASE unconfirm(t)
  BY <1>14, Returning, Setting, Clearing, Deleting
     DEF unconfirm, history, NoAttempt, IInv, TypeOK, Places, Working,
         Errors, Quiet, Alone, Exclusive, Owns, Local, RecordedAt
<1>15. CASE remove(t)
  BY <1>15, Going, NoOperationFacts
     DEF remove, directories, Idle, IInv, TypeOK, Places, Working, Errors,
         Quiet, Alone, Exclusive, Owns, Local, RecordedAt
<1>16. CASE erase(t)
  BY <1>16, Returning, Setting, Clearing, Deleting
     DEF erase, history, NoAttempt, IInv, TypeOK, Places, Working, Errors,
         Quiet, Alone, Exclusive, Owns, Local, RecordedAt
<1>17. CASE retry_cleanup(t)
  BY <1>17, Deleting, NoOperationFacts
     DEF retry_cleanup, history, Idle, IInv, TypeOK, Places, Working,
         Errors, Quiet, Alone, Exclusive, Owns, Local, RecordedAt
<1>. QED
  BY <1>1, <1>2, <1>3, <1>4, <1>5, <1>6, <1>7, <1>8, <1>9, <1>10, <1>11,
   <1>12, <1>13, <1>14, <1>15, <1>16, <1>17
     DEF User, Continues, Acquires

\* Whoever works is recorded, or leaves.
LEMMA StepRecorded ==
    ASSUME IInv, NEW t \in Threads, User(t) \/ Continues(t)
    PROVE  RecordedAt(t)'
<1>1. CASE select(t)
  BY <1>1, Going
     DEF select, directories, history, Claimed, Idle, IInv, TypeOK, Places,
         Working, Errors, Local, RecordedAt, ConsentedAt, Works, Operations
<1>2. CASE inspect(t)
  BY <1>2, Going, Returning
     DEF inspect, directories, history, Claimed, IInv, TypeOK, Places,
         Working, Errors, Local, RecordedAt, ConsentedAt, Works, Operations
<1>3. CASE confirm(t)
  BY <1>3, Returning, NoOperationFacts
     DEF confirm, directories, Claimed, IInv, TypeOK, Places, Working,
         Errors, Local, RecordedAt, ConsentedAt, Works, Operations
<1>4. CASE download_attempt(t)
  BY <1>4
     DEF download_attempt, directories, history, Idle, IInv, TypeOK,
         Places, Working, Errors, Local, RecordedAt, ConsentedAt, Works,
         Operations
<1>5. CASE download_for_attempt(t)
  BY <1>5, Going, Returning, Marking
     DEF download_for_attempt, IInv, TypeOK, Places, Working, RecordedAt
<1>6. CASE clearStaging(t)
  BY <1>6, Going, Failing, Deleting
     DEF clearStaging, history, IInv, TypeOK, Places, Working, Errors,
         Local, RecordedAt, ConsentedAt, Works, Operations
<1>7. CASE downloaded(t)
  <2>1. work'[t].at = "assembling"
    BY <1>7, Going DEF downloaded, IInv, TypeOK, Places, Working
  <2>2. work[t].token # NoAttempt
    BY <1>7 DEF downloaded, IInv, Local, ConsentedAt, NoAttempt, BeforeCommit,
             Working
  <2>3. QED
    BY <1>7, <2>1, <2>2, Setting
       DEF downloaded, RecordedAt, Working, IInv, TypeOK
<1>8. CASE assembled(t)
  BY <1>8, Going
     DEF assembled, history, NotCancelled, IInv, TypeOK, Places, Working,
         Errors, Local, RecordedAt, ConsentedAt, Works, Operations
<1>9. CASE beginPromotion(t)
  BY <1>9, Going
     DEF beginPromotion, directories, history, NotCancelled, IInv, TypeOK,
         Places, Working, Errors, Local, RecordedAt, ConsentedAt, Works,
         Operations
<1>10. CASE abandon(t)
  BY <1>10, Failing
     DEF abandon, directories, history, NotCancelled, IInv, TypeOK, Places,
         Working, Errors, Local, RecordedAt, ConsentedAt, Works, Operations
<1>11. CASE commitBegins(t)
  BY <1>11, Going, Failing, Deleting
     DEF commitBegins, history, NotCancelled, IInv, TypeOK, Places,
         Working, Errors, Local, RecordedAt, ConsentedAt, Works, Operations
<1>12. CASE displace(t)
  BY <1>12, Going, Failing
     DEF displace, history, IInv, TypeOK, Places, Working, Errors, Local,
         RecordedAt, ConsentedAt, Works, Operations
<1>13. CASE replace(t)
  BY <1>13, Going
     DEF replace, NoAttempt, IInv, TypeOK, Places, Working, Errors, Local,
         RecordedAt, ConsentedAt, Works, Operations
<1>14. CASE putBack(t)
  BY <1>14, Failing
     DEF putBack, history, IInv, TypeOK, Places, Working, Errors, Local,
         RecordedAt, ConsentedAt, Works, Operations
<1>15. CASE tidy(t)
  BY <1>15, Going, Failing, Deleting
     DEF tidy, history, IInv, TypeOK, Places, Working, Errors, Local,
         RecordedAt, ConsentedAt, Works, Operations
<1>16. CASE sweep(t)
  BY <1>16, Returning, Failing, Clearing, Deleting
     DEF sweep, history, IInv, TypeOK, Places, Working, Errors, Local,
         RecordedAt, ConsentedAt, Works, Operations
<1>17. CASE fail(t)
  BY <1>17, Returning, Setting, Clearing, Deleting
     DEF fail, history, NoAttempt, IInv, TypeOK, Places, Working, Errors,
         Local, RecordedAt, ConsentedAt, Works, Operations
<1>18. CASE cancel(t)
  BY <1>18, Going, Marking
     DEF cancel, Idle, IInv, TypeOK, Places, Working, RecordedAt
<1>19. CASE unconfirm(t)
  BY <1>19, Returning, Setting, Clearing, Deleting
     DEF unconfirm, history, NoAttempt, IInv, TypeOK, Places, Working,
         Errors, Local, RecordedAt, ConsentedAt, Works, Operations
<1>20. CASE remove(t)
  BY <1>20, Going, NoOperationFacts
     DEF remove, directories, Idle, IInv, TypeOK, Places, Working, Errors,
         Local, RecordedAt, ConsentedAt, Works, Operations
<1>21. CASE erase(t)
  BY <1>21, Returning, Setting, Clearing, Deleting
     DEF erase, history, NoAttempt, IInv, TypeOK, Places, Working, Errors,
         Local, RecordedAt, ConsentedAt, Works, Operations
<1>22. CASE retry_cleanup(t)
  BY <1>22, Deleting, NoOperationFacts
     DEF retry_cleanup, history, Idle, IInv, TypeOK, Places, Working,
         Errors, Local, RecordedAt, ConsentedAt, Works, Operations
<1>. QED
  BY <1>1, <1>2, <1>3, <1>4, <1>5, <1>6, <1>7, <1>8, <1>9, <1>10, <1>11,
   <1>12, <1>13, <1>14, <1>15, <1>16, <1>17, <1>18, <1>19, <1>20, <1>21, <1>22
     DEF User, Continues, Acquires

\* A worker has the last consent.
LEMMA StepConsented ==
    ASSUME IInv, NEW t \in Threads, User(t) \/ Continues(t)
    PROVE  ConsentedAt(t)'
<1>1. CASE select(t) \/ inspect(t) \/ confirm(t) \/ download_attempt(t)
  BY <1>1, Going, Returning, NoOperationFacts
     DEF select, inspect, confirm, download_attempt, directories, history,
         IInv, TypeOK, Errors, Places, Working, Local, ConsentedAt,
         BeforeCommit, Consents, Works
<1>2. CASE download_for_attempt(t)
  BY <1>2, Going, Returning
     DEF download_for_attempt, directories, history, Consented, IInv,
         TypeOK, Errors, Places, Working, Local, ConsentedAt, BeforeCommit,
         Consents, Works
<1>3. CASE clearStaging(t) \/ downloaded(t) \/ assembled(t) \/
          beginPromotion(t)
  BY <1>3, Going, Failing, Setting, Deleting
     DEF clearStaging, downloaded, assembled, beginPromotion, directories,
         history, IInv, TypeOK, Errors, Places, Working, Local, ConsentedAt,
         BeforeCommit, Consents, Works
<1>4. CASE commitBegins(t) \/ tidy(t) \/ abandon(t) \/ putBack(t)
  BY <1>4, Going, Failing, Deleting
     DEF commitBegins, tidy, abandon, putBack, directories, history, IInv,
         TypeOK, Errors, Places, Working, Local, ConsentedAt, BeforeCommit,
         Consents, Works
<1>5. CASE displace(t)
  BY <1>5, Going, Failing
     DEF displace, history, IInv, TypeOK, Errors, Places, Working, Local,
         ConsentedAt, BeforeCommit, Consents, Works
<1>6. CASE replace(t)
  BY <1>6, Going
     DEF replace, IInv, TypeOK, Errors, Places, Working, Local,
         ConsentedAt, BeforeCommit, Consents, Works
<1>7. CASE sweep(t) \/ fail(t) \/ unconfirm(t) \/ erase(t)
  BY <1>7, Returning, Failing, Setting, Clearing, Deleting
     DEF sweep, fail, unconfirm, erase, history, IInv, TypeOK, Errors,
         Places, Working, Local, ConsentedAt, BeforeCommit, Consents, Works
<1>8. CASE cancel(t)
  BY <1>8, Going
     DEF cancel, directories, history, IInv, TypeOK, Errors, Places,
         Working, Local, ConsentedAt, BeforeCommit, Consents, Works
<1>9. CASE remove(t)
  BY <1>9, Going, NoOperationFacts
     DEF remove, directories, IInv, TypeOK, Errors, Places, Working, Local,
         ConsentedAt, BeforeCommit, Consents, Works
<1>10. CASE retry_cleanup(t)
  BY <1>10, Deleting, NoOperationFacts
     DEF retry_cleanup, history, IInv, TypeOK, Errors, Places, Working,
         Local, ConsentedAt, BeforeCommit, Consents, Works
<1>. QED
  BY <1>1, <1>2, <1>3, <1>4, <1>5, <1>6, <1>7, <1>8, <1>9, <1>10
     DEF User, Continues, Acquires

\* A promotion commits only what is not cancelled.
LEMMA StepCommits ==
    ASSUME IInv, NEW t \in Threads, User(t) \/ Continues(t)
    PROVE  CommitsAt(t)'
<1>1. CASE select(t) \/ inspect(t) \/ confirm(t) \/ download_attempt(t)
  BY <1>1, Going, Returning, NoOperationFacts
     DEF select, inspect, confirm, download_attempt, directories, history,
         Idle, IInv, TypeOK, Places, Working, Errors, Local, CommitsAt, Works
<1>2. CASE download_for_attempt(t) \/ clearStaging(t) \/ downloaded(t)
          \/ assembled(t) \/ beginPromotion(t)
  BY <1>2, Going, Returning, Failing, Setting, Deleting
     DEF download_for_attempt, clearStaging, downloaded, assembled,
         beginPromotion, directories, history, NotCancelled, IInv, TypeOK,
         Places, Working, Errors, Local, CommitsAt, Works
<1>3. CASE tidy(t) \/ abandon(t) \/ putBack(t) \/ replace(t)
  BY <1>3, Going, Failing, Deleting
     DEF tidy, abandon, putBack, replace, directories, history,
         NotCancelled, IInv, TypeOK, Places, Working, Errors, Local, CommitsAt,
         Works
<1>4. CASE commitBegins(t)
  BY <1>4, Going, Failing, Deleting
     DEF commitBegins, history, NotCancelled, IInv, TypeOK, Places,
         Working, Errors, Local, CommitsAt, Works
<1>5. CASE displace(t)
  BY <1>5, Going, Failing
     DEF displace, history, IInv, TypeOK, Places, Working, Errors, Local,
         CommitsAt, Works
<1>6. CASE sweep(t) \/ fail(t) \/ unconfirm(t) \/ erase(t)
  BY <1>6, Returning, Failing, Setting, Clearing, Deleting
     DEF sweep, fail, unconfirm, erase, history, IInv, TypeOK, Places,
         Working, Errors, Local, CommitsAt, Works
<1>7. CASE cancel(t)
  BY <1>7, Going
     DEF cancel, directories, history, Idle, IInv, TypeOK, Places, Working,
         Errors, Local, CommitsAt, Works
<1>8. CASE remove(t)
  BY <1>8, Going, NoOperationFacts
     DEF remove, directories, Idle, IInv, TypeOK, Places, Working, Errors,
         Local, CommitsAt, Works
<1>9. CASE retry_cleanup(t)
  BY <1>9, Deleting, NoOperationFacts
     DEF retry_cleanup, history, Idle, IInv, TypeOK, Places, Working,
         Errors, Local, CommitsAt, Works
<1>. QED
  BY <1>1, <1>2, <1>3, <1>4, <1>5, <1>6, <1>7, <1>8, <1>9
     DEF User, Continues, Acquires

\* What a worker knows of the directories is so.
LEMMA StepKeptAt ==
    ASSUME IInv, NEW t \in Threads, User(t) \/ Continues(t)
    PROVE  KeptAt(t)'
<1>1. CASE select(t) \/ inspect(t) \/ confirm(t) \/ download_attempt(t)
  BY <1>1, Going, Returning, NoOperationFacts
     DEF select, inspect, confirm, download_attempt, directories, history,
         IInv, TypeOK, Places, Working, Errors, Local, KeptAt, RecordedAt,
         Kept, Contents, Works
<1>2. CASE download_for_attempt(t) \/ clearStaging(t) \/ downloaded(t)
          \/ assembled(t) \/ beginPromotion(t)
  BY <1>2, Going, Returning, Failing, Setting, Deleting
     DEF download_for_attempt, clearStaging, downloaded, assembled,
         beginPromotion, directories, history, IInv, TypeOK, Places, Working,
         Errors, Local, KeptAt, RecordedAt, Kept, Contents
<1>3. CASE tidy(t) \/ abandon(t) \/ putBack(t)
  BY <1>3, Going, Failing, Deleting
     DEF tidy, abandon, putBack, directories, history, IInv, TypeOK,
         Places, Working, Errors, Local, KeptAt, RecordedAt, Kept, Contents
<1>4. CASE commitBegins(t)
  BY <1>4, Going, Failing, Deleting
     DEF commitBegins, history, IInv, TypeOK, Places, Working, Errors,
         Local, KeptAt, RecordedAt, Kept, Contents
<1>5. CASE displace(t)
  BY <1>5, Going, Failing
     DEF displace, history, IInv, TypeOK, Places, Working, Errors, Local,
         KeptAt, RecordedAt, Kept, Contents, Works
<1>6. CASE replace(t)
  BY <1>6, Going
     DEF replace, IInv, TypeOK, Places, Working, Errors, Local, KeptAt,
         RecordedAt, Kept, Contents
<1>7. CASE sweep(t) \/ fail(t) \/ unconfirm(t) \/ erase(t)
  BY <1>7, Returning, Failing, Setting, Clearing, Deleting
     DEF sweep, fail, unconfirm, erase, history, IInv, TypeOK, Places,
         Working, Errors, Local, KeptAt, RecordedAt, Kept, Contents
<1>8. CASE cancel(t)
  BY <1>8, Going
     DEF cancel, directories, history, IInv, TypeOK, Places, Working,
         Errors, Local, KeptAt, RecordedAt, Kept, Contents
<1>9. CASE remove(t)
  BY <1>9, Going, NoOperationFacts
     DEF remove, directories, IInv, TypeOK, Places, Working, Errors, Local,
         KeptAt, RecordedAt, Kept, Contents
<1>10. CASE retry_cleanup(t)
  BY <1>10, Deleting, NoOperationFacts
     DEF retry_cleanup, history, IInv, TypeOK, Places, Working, Errors,
         Local, KeptAt, RecordedAt, Kept, Contents
<1>. QED
  BY <1>1, <1>2, <1>3, <1>4, <1>5, <1>6, <1>7, <1>8, <1>9, <1>10
     DEF User, Continues, Acquires

\* An installed runtime stays.
LEMMA StepKept ==
    ASSUME IInv, NEW t \in Threads, User(t) \/ Continues(t)
    PROVE  Kept'
<1>1. CASE select(t) \/ inspect(t) \/ confirm(t) \/ download_attempt(t)
          \/ download_for_attempt(t) \/ downloaded(t) \/
          beginPromotion(t) \/ abandon(t) \/ cancel(t)
  BY <1>1, Going, Returning, Failing, Setting, NoOperationFacts
     DEF select, inspect, confirm, download_attempt, download_for_attempt,
         downloaded, beginPromotion, abandon, cancel, directories, history,
         IInv, TypeOK, Local, KeptAt, Kept, Contents, Works, Deletions, Deleted
<1>2. CASE clearStaging(t) \/ assembled(t) \/ fail(t) \/ sweep(t) \/
          unconfirm(t)
  BY <1>2, Going, Returning, Failing, Setting, Clearing, Deleting
     DEF clearStaging, assembled, fail, sweep, unconfirm, history, IInv,
         TypeOK, Local, KeptAt, Kept, Contents, Works, Deletions, Deleted
<1>3. CASE commitBegins(t)
  BY <1>3, Going, Failing, Deleting
     DEF commitBegins, history, IInv, TypeOK, Local, KeptAt, Kept,
         Contents, Works, Deletions, Deleted
<1>4. CASE displace(t)
  BY <1>4, Going, Failing
     DEF displace, history, IInv, TypeOK, Local, KeptAt, Kept, Contents,
         Works, Deletions, Deleted
<1>5. CASE replace(t)
  BY <1>5, Going
     DEF replace, IInv, TypeOK, Local, KeptAt, Kept, Contents, Works,
         Deletions, Deleted
<1>6. CASE putBack(t)
  BY <1>6, Failing
     DEF putBack, history, IInv, TypeOK, Local, KeptAt, Kept, Contents,
         Works, Deletions, Deleted
<1>7. CASE tidy(t)
  BY <1>7, Going, Failing, Deleting
     DEF tidy, history, IInv, TypeOK, Local, KeptAt, Kept, Contents, Works,
         Deletions, Deleted
<1>8. CASE remove(t)
  BY <1>8, Going, NoOperationFacts
     DEF remove, directories, IInv, TypeOK, Local, KeptAt, Kept, Contents,
         Works, Deletions, Deleted
<1>9. CASE erase(t)
  BY <1>9, Returning, Setting, Clearing, Deleting
     DEF erase, history, IInv, TypeOK, Local, KeptAt, Kept, Contents,
         Works, Deletions, Deleted
<1>10. CASE retry_cleanup(t)
  BY <1>10, Deleting, NoOperationFacts
     DEF retry_cleanup, history, IInv, TypeOK, Local, KeptAt, Kept,
         Contents, Works, Deletions, Deleted
<1>. QED
  BY <1>1, <1>2, <1>3, <1>4, <1>5, <1>6, <1>7, <1>8, <1>9, <1>10
     DEF User, Continues, Acquires

\* Attempts are counted by confirmations only and used up by commits only.
LEMMA StepTokens ==
    ASSUME IInv, NEW t \in Threads, User(t) \/ Continues(t), ~confirm(t), ~replace(t)
    PROVE  /\ UNCHANGED <<attempts, promoted>>
           /\ \/ operation'.token \in {operation.token, NoAttempt}
              \/ /\ work[t].at = "downloading"
                 /\ operation'.token = work[t].token
           /\ operation'.state = "confirming" => operation' = operation
<1>1. CASE select(t) \/ inspect(t) \/ clearStaging(t) \/ assembled(t)
          \/ beginPromotion(t) \/ abandon(t) \/ commitBegins(t) \/
          displace(t) \/ putBack(t) \/ tidy(t) \/ download_attempt(t)
  BY <1>1, Going, Returning, Failing, Deleting
     DEF select, inspect, clearStaging, assembled, beginPromotion, abandon,
         commitBegins, displace, putBack, tidy, download_attempt, directories,
         history, Idle, Claimed, IInv, TypeOK, Operations, Works
<1>2. CASE download_for_attempt(t)
  BY <1>2, Going, Returning
     DEF download_for_attempt, directories, history, IInv, TypeOK,
         Operations, Works
<1>3. CASE downloaded(t)
  BY <1>3, Going, Setting
     DEF downloaded, directories, history, IInv, TypeOK, Operations, Works
<1>4. CASE fail(t) \/ unconfirm(t) \/ erase(t) \/ sweep(t)
  BY <1>4, Returning, Failing, Setting, Clearing, Deleting
     DEF fail, unconfirm, erase, sweep, history, NoAttempt, IInv, TypeOK,
         Operations, Works
<1>5. CASE cancel(t)
  BY <1>5, Going
     DEF cancel, directories, history, Idle, NoAttempt, IInv, TypeOK,
         Operations, Works
<1>6. CASE remove(t)
  BY <1>6, Going, NoOperationFacts
     DEF remove, directories, Idle, IInv, TypeOK, Operations, Works
<1>7. CASE retry_cleanup(t)
  BY <1>7, Deleting, NoOperationFacts
     DEF retry_cleanup, history, Idle, IInv, TypeOK, Operations, Works
<1>. QED
  BY <1>1, <1>2, <1>3, <1>4, <1>5, <1>6, <1>7 DEF User, Continues, Acquires

\* Only a cancellation and a commit touch what they touch.
LEMMA StepUncancelled ==
    ASSUME IInv, NEW t \in Threads, User(t) \/ Continues(t), ~cancel(t), ~replace(t)
    PROVE  UNCHANGED <<cancelled, promoted>>
<1>1. CASE select(t) \/ inspect(t) \/ confirm(t) \/ download_attempt(t)
          \/ download_for_attempt(t) \/ clearStaging(t) \/
          downloaded(t) \/ assembled(t) \/ beginPromotion(t) \/
          abandon(t) \/ commitBegins(t) \/ displace(t) \/ putBack(t)
          \/ tidy(t) \/ sweep(t) \/ fail(t) \/ unconfirm(t) \/
          remove(t) \/ erase(t) \/ retry_cleanup(t)
  BY <1>1, Going, Returning, Failing, Setting, Clearing, Deleting,
     NoOperationFacts
     DEF select, inspect, confirm, download_attempt, download_for_attempt,
         clearStaging, downloaded, assembled, beginPromotion, abandon,
         commitBegins, displace, putBack, tidy, sweep, fail, unconfirm, remove,
         erase, retry_cleanup, directories, history
<1>. QED
  BY <1>1 DEF User, Continues, Acquires

\* A commit and a removal decide whether a runtime is installed.
LEMMA StepHistory ==
    ASSUME IInv, NEW t \in Threads, User(t) \/ Continues(t)
    PROVE  installed' \in BOOLEAN /\ crashes' = crashes
<1>1. CASE select(t) \/ inspect(t) \/ confirm(t) \/ download_attempt(t)
          \/ download_for_attempt(t) \/ clearStaging(t) \/
          downloaded(t) \/ assembled(t) \/ beginPromotion(t) \/
          abandon(t) \/ commitBegins(t) \/ displace(t) \/ replace(t)
          \/ putBack(t) \/ tidy(t) \/ sweep(t) \/ fail(t) \/ cancel(t)
          \/ unconfirm(t) \/ remove(t) \/ erase(t) \/ retry_cleanup(t)
  BY <1>1, Going, Returning, Failing, Setting, Clearing, Deleting,
     NoOperationFacts
     DEF select, inspect, confirm, download_attempt, download_for_attempt,
         clearStaging, downloaded, assembled, beginPromotion, abandon,
         commitBegins, displace, replace, putBack, tidy, sweep, fail, cancel,
         unconfirm, remove, erase, retry_cleanup, directories, history, IInv,
         TypeOK
<1>. QED
  BY <1>1 DEF User, Continues, Acquires

\* Attempts, commits and consents fit together after every step.
LEMMA StepConsents ==
    ASSUME IInv, NEW t \in Threads, User(t) \/ Continues(t)
    PROVE  /\ attempts' \in 0 .. MaxAttempts /\ promoted' \subseteq 1 .. MaxAttempts
           /\ Consents'
<1>1. attempts \in Nat /\ promoted \subseteq 1 .. attempts
  BY BoundsAssumption DEF IInv, TypeOK, Consents
<1>2. CASE confirm(t)
  <2>1. promoted' = promoted
    BY <1>2 DEF confirm
  <2>2. CASE UNCHANGED <<operation, attempts>>
    BY <2>1, <2>2 DEF IInv, TypeOK, Consents
  <2>3. CASE /\ attempts < MaxAttempts /\ attempts' = attempts + 1
             /\ operation' = [NoOperation EXCEPT !.state = "confirming",
                                                 !.token = attempts + 1]
    <3>1. attempts' \in 0 .. MaxAttempts /\ attempts' # 0
      BY <1>1, <2>3, BoundsAssumption
    <3>2. operation'.token = attempts' /\ operation'.state = "confirming"
      BY <2>3, NoOperationFacts DEF Operations
    <3>3. promoted' \subseteq 1 .. attempts' /\ attempts' \notin promoted'
      BY <1>1, <2>1, <2>3
    <3>4. QED
      BY <2>1, <3>1, <3>2, <3>3 DEF IInv, TypeOK, Consents
  <2>4. QED BY <1>2, <2>2, <2>3 DEF confirm
<1>3. CASE replace(t)
  <2>1. /\ work[t].token = attempts /\ attempts # 0 /\ attempts' = attempts
        /\ promoted' = promoted \cup {attempts}
    BY <1>3 DEF replace, IInv, Local, ConsentedAt, Working
  <2>2. operation'.token = NoAttempt /\ operation'.state = "installed"
    BY <1>3 DEF replace, IInv, TypeOK, Operations
  <2>3. promoted' \subseteq 1 .. attempts' /\ NoAttempt \notin promoted'
    BY <1>1, <2>1 DEF NoAttempt
  <2>4. promoted' \subseteq 1 .. MaxAttempts
    BY <1>1, <2>1, BoundsAssumption DEF IInv, TypeOK
  <2>5. QED
    BY <2>1, <2>2, <2>3, <2>4 DEF IInv, TypeOK, Consents
<1>4. CASE ~confirm(t) /\ ~replace(t)
  <2>1. /\ UNCHANGED <<attempts, promoted>>
        /\ \/ operation'.token \in {operation.token, NoAttempt}
           \/ work[t].at = "downloading" /\ operation'.token = work[t].token
        /\ operation'.state = "confirming" => operation' = operation
    BY <1>4, StepTokens
  <2>2. work[t].at = "downloading" => work[t].token \notin promoted
    BY DEF IInv, Local, ConsentedAt, BeforeCommit, Working
  <2>3. NoAttempt \notin promoted
    BY <1>1 DEF NoAttempt
  <2>4. QED
    BY <2>1, <2>2, <2>3 DEF IInv, TypeOK, Consents
<1>5. QED BY <1>2, <1>3, <1>4

\* A cancellation spares what is being committed, and what was committed.
LEMMA StepCancellations ==
    ASSUME IInv, NEW t \in Threads, User(t) \/ Continues(t)
    PROVE  /\ CancelledIsNotInstalled'
           /\ \A u \in Threads \ {t} :
                 work[u].at \in {"displacing", "replacing"} =>
                    work[u].token \notin cancelled'
<1>1. CASE cancel(t)
  BY <1>1 DEF cancel, OperationFree, history, IInv, Consents,
              CancelledIsNotInstalled
<1>2. CASE replace(t)
  BY <1>2 DEF replace, IInv, Local, CommitsAt, CancelledIsNotInstalled
<1>3. CASE ~cancel(t) /\ ~replace(t)
  <2>1. UNCHANGED <<cancelled, promoted>>
    BY <1>3, StepUncancelled
  <2>2. QED
    BY <2>1 DEF IInv, Local, CommitsAt, CancelledIsNotInstalled
<1>4. QED BY <1>1, <1>2, <1>3

\* A step keeps the invariant for the thread that takes it, and for the others
\* because it is alone or leaves what they rely on as it is.
LEMMA StepKeepsInvariant ==
    ASSUME IInv, NEW t \in Threads, User(t) \/ Continues(t)
    PROVE  IInv'
<1>1. Only(t)
  BY StepOnly
<1>2. TypeOK'
  <2>1. installed' \in BOOLEAN /\ crashes' = crashes
    BY StepHistory
  <2>2. QED
    BY <1>1, <2>1, StepOperation, StepDirectories, StepOthers, StepConsents
       DEF TypeOK, Only, IInv
<1>3. ASSUME NEW u \in Threads \ {t}
      PROVE  Local(u)' /\ (Owns(t)' => ~Owns(u)')
  <2>1. work'[u] = work[u] /\ Local(u)
    BY <1>1 DEF Only, IInv
  <2>2. CASE Quiet(t)
    BY <2>1, <2>2, StepCancellations
       DEF Quiet, Owns, Local, RecordedAt, ConsentedAt, CommitsAt, KeptAt
  <2>3. CASE Alone(t)
    <3>1. work'[u].at \notin Working \cup {"unconfirming", "erasing"}
      BY <2>1, <2>3 DEF Alone, Owns
    <3>2. QED
      BY <3>1 DEF Owns, Local, RecordedAt, ConsentedAt, CommitsAt, KeptAt,
                  Working, BeforeCommit
  <2>4. QED BY <2>2, <2>3, StepApart
<1>4. Local(t)'
  BY StepRecorded, StepConsented, StepCommits, StepKeptAt DEF Local
<1>5. Exclusive'
  <2>1. ASSUME NEW u \in Threads, NEW v \in Threads, Owns(u)', Owns(v)'
        PROVE  u = v
    <3>1. CASE u = t \/ v = t
      BY <1>3, <2>1, <3>1
    <3>2. CASE u # t /\ v # t
      BY <1>1, <2>1, <3>2 DEF Only, Owns, IInv, Exclusive
    <3>3. QED BY <3>1, <3>2
  <2>2. QED BY <2>1 DEF Exclusive
<1>6. QED
  BY <1>2, <1>3, <1>4, <1>5, StepConsents, StepCancellations, StepKept DEF IInv

\* A crash leaves nobody at work and nothing recorded.
LEMMA CrashKeepsInvariant ==
    ASSUME IInv, crash PROVE IInv'
<1>1. operation' = NoOperation /\ work' = [t \in Threads |-> Idle]
  BY DEF crash
<1>2. /\ UNCHANGED <<directories, cancelled, attempts, installed, promoted>>
      /\ lock' = Nobody /\ crashes' \in 0 .. MaxCrashes
  BY BoundsAssumption DEF crash, IInv, TypeOK
<1>3. Idle \in Works /\ Idle.at = "idle"
  BY BoundsAssumption DEF Idle, Works, Places, Errors, NoAttempt
<1>4. TypeOK'
  BY <1>1, <1>2, <1>3, NoOperationFacts DEF IInv, TypeOK, directories
<1>5. Exclusive'
  BY <1>1, <1>3 DEF Exclusive, Owns, Working
<1>6. ASSUME NEW t \in Threads PROVE Local(t)'
  BY <1>1, <1>3
     DEF Local, RecordedAt, ConsentedAt, CommitsAt, KeptAt, Working, BeforeCommit
<1>7. NoAttempt \notin promoted
  BY BoundsAssumption DEF IInv, TypeOK, NoAttempt
<1>8. Consents' /\ CancelledIsNotInstalled' /\ Kept'
  BY <1>1, <1>2, <1>7, NoOperationFacts
     DEF IInv, Consents, CancelledIsNotInstalled, Kept, directories
<1>9. QED BY <1>4, <1>5, <1>6, <1>8 DEF IInv

\* A session starts with nobody at work and the runtime where it was.
LEMMA InitInvariant == Init => IInv
<1> SUFFICES ASSUME Init PROVE IInv
  OBVIOUS
<1>1. Idle \in Works /\ Idle.at = "idle"
  BY BoundsAssumption DEF Idle, Works, Places, Errors, NoAttempt
<1>2. work = [t \in Threads |-> Idle] /\ operation = NoOperation
  BY DEF Init
<1>3. TypeOK
  BY <1>1, <1>2, NoOperationFacts, BoundsAssumption DEF Init, TypeOK, Contents
<1>4. Exclusive /\ \A t \in Threads : Local(t)
  BY <1>1, <1>2 DEF Exclusive, Owns, Local, RecordedAt, ConsentedAt, CommitsAt,
                    KeptAt, Working, BeforeCommit
<1>5. Consents /\ CancelledIsNotInstalled /\ Kept
  BY <1>2, NoOperationFacts DEF Init, Consents, CancelledIsNotInstalled, Kept
<1>6. QED BY <1>3, <1>4, <1>5 DEF IInv

\* The strengthening is an invariant.
LEMMA Invariant == Spec => []IInv
<1>1. IInv /\ [Next]_vars => IInv'
  <2> SUFFICES ASSUME IInv, [Next]_vars PROVE IInv'
    OBVIOUS
  <2>1. CASE Next
    BY <2>1, StepKeepsInvariant, CrashKeepsInvariant DEF Next
  <2>2. CASE UNCHANGED vars
    BY <2>2 DEF vars, directories, history, IInv, TypeOK, Exclusive, Owns,
                Consents, CancelledIsNotInstalled, Kept, Local, RecordedAt,
                ConsentedAt, CommitsAt, KeptAt
  <2>3. QED BY <2>1, <2>2
<1>2. QED BY <1>1, InitInvariant, PTL DEF Spec

\* The record, the threads and the directories keep their types, whatever the
\* numbers of commands, attempts and crashes.
THEOREM TypesHold == Spec => []TypeOK
<1>1. IInv => TypeOK
  BY DEF IInv
<1>2. QED BY <1>1, Invariant, PTL

\* No acquisition that fails, is cancelled or dies with the application destroys
\* an installed runtime: set aside or in its place, it is there until its removal
\* is asked for.
THEOREM RuntimeSurvives == Spec => []InstalledSurvives
<1>1. IInv => InstalledSurvives
  BY DEF IInv, Kept, InstalledSurvives
<1>2. QED BY <1>1, Invariant, PTL

\* A cancellation that set the token before the commit looked wins over it; one
\* that comes later finds no token: nothing is both cancelled and installed.
THEOREM OneWinner == Spec => []CancelledIsNotInstalled
<1>1. IInv => CancelledIsNotInstalled
  BY DEF IInv
<1>2. QED BY <1>1, Invariant, PTL

\* At most one thread works on the staging directory, and it has the consent that
\* was asked for last, however many commands are under way.
THEOREM StagingConsented == Spec => []StagingIsConsented
<1>1. ASSUME IInv PROVE StagingHasOneOwner
  <2> DEFINE owners == {t \in Threads :
                 work[t].at \in Working \cup {"unconfirming", "erasing"}}
  <2>1. CASE owners = {}
    BY <2>1, FS_EmptySet DEF StagingHasOneOwner
  <2>2. CASE owners # {}
    <3>1. PICK t \in owners : TRUE
      BY <2>2
    <3>2. owners = {t}
      BY <1>1, <3>1 DEF IInv, Exclusive, Owns
    <3>3. Cardinality(owners) = 1
      BY <3>2, FS_Singleton
    <3>4. QED BY <3>3 DEF StagingHasOneOwner
  <2>3. QED BY <2>1, <2>2
<1>2. IInv => ConsentIsCurrent
  BY DEF IInv, Local, ConsentedAt, ConsentIsCurrent
<1>3. IInv => StagingIsConsented
  BY <1>1, <1>2 DEF StagingIsConsented
<1>4. QED BY <1>3, Invariant, PTL

\* An acquisition works alone, with the consent given last, and is installed only
\* if that consent was not taken back before its commit looked.
THEOREM ConsentHolds == Spec => []ConsentIsRespected
<1>1. CancelledIsNotInstalled /\ StagingIsConsented => ConsentIsRespected
  BY DEF ConsentIsRespected
<1>2. QED BY <1>1, OneWinner, StagingConsented, PTL

=============================================================================
