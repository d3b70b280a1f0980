----------------------------- MODULE NarrationRun -----------------------------
(***************************************************************************)
(* One book's narration: ProductNarrationCoordinator of                    *)
(* apps/desktop/src/tts/product-narration-coordinator.ts with the recovery *)
(* state machine of operational-recovery.ts.  A run owns a scheduler and a *)
(* player and drives the speech service; it is stopped by the user, by a   *)
(* navigation, by a change of configuration or by a failure, each of which *)
(* awaits the service, the work in hand and the player while the others go *)
(* on arriving.                                                            *)
(*                                                                         *)
(* The code compares a captured run token with #runToken: here whatever    *)
(* supersedes the token clears the "current" flag of those who hold it.    *)
(* The buffer is BufferScheduler, the player PcmPlayer, the client         *)
(* ProcessClient; of each only the answers the coordinator acts on remain. *)
(* Left out: metrics, locators, boundaries, volume, rate, preferences and  *)
(* the failure codes that are shown.                                       *)
(***************************************************************************)

VARIABLES
    run,          \* the owned scheduler and player; current: its token is #runToken
    intent,       \* #playIntent
    nav,          \* #pendingNavigation
    operation,    \* #operation, the one piece of work in hand
    abandoned,    \* a preflight still awaits that #operation no longer names
    service,      \* the client's state of the service
    stopping,     \* #stopOperation
    containing,   \* #recoveryOperation
    recovery,     \* OperationalRecoveryController
    placement,    \* #readerPlacementPending and #readerPlacementAvailable
    availability, \* #availability
    check,        \* the newest checkAvailability
    resetting,    \* #recoveryResetPending, and what it awaits
    change,       \* the settings' change of configuration
    closed        \* #closed

runVars == <<run, intent, nav>>
workVars == <<operation, abandoned, service>>
recoveryVars == <<stopping, containing, recovery>>
admissionVars == <<placement, availability, check, resetting, change, closed>>
vars == <<runVars, workVars, recoveryVars, admissionVars>>

NoRun == [owned |-> FALSE, current |-> FALSE, work |-> "start", player |-> "open"]
NoNavigation == [open |-> FALSE, restart |-> FALSE, stopped |-> FALSE,
                 settled |-> FALSE]
NoOperation == [kind |-> "none", at |-> "none"]
NoTeardown == [at |-> "none", current |-> FALSE, cancel |-> FALSE,
               failed |-> FALSE, recovering |-> FALSE]

Kinds == {"start-service", "prepare-service", "prepare-narration", "synthesize"}
Settled == {"operational", "recovery-available", "unavailable", "contained"}
Halfway == {"containing-service", "verifying-cleanup"}

TypeOK ==
    /\ run \in [owned : BOOLEAN, current : BOOLEAN,
                work : {"start", "prepare", "produce", "failed"},
                player : {"open", "failed", "complete", "closed"}]
    /\ intent \in {"inactive", "playing", "paused"}
    /\ nav \in [open : BOOLEAN, restart : BOOLEAN, stopped : BOOLEAN,
                settled : BOOLEAN]
    /\ operation \in {NoOperation} \cup [kind : Kinds, at : {"called"}]
                    \cup [kind : {"start-service"}, at : {"preflight"}]
    /\ abandoned \in BOOLEAN
    /\ service \in {"stopped", "starting", "unloaded", "preparing", "ready",
                    "generating", "failed"}
    /\ {stopping, containing} \subseteq
         [at : {"none", "service", "join", "shutdown", "again", "verify"},
          current : BOOLEAN, cancel : BOOLEAN, failed : BOOLEAN,
          recovering : BOOLEAN]
    /\ recovery \in [phase : Settled \cup Halfway \cup {"recovering"},
                     action : {"none", "restart", "select", "contain"},
                     spent : BOOLEAN]
    /\ recovery.phase = "operational" <=> recovery.action = "none"
    /\ placement \in [pending : BOOLEAN, available : BOOLEAN]
    /\ availability \in {"checking", "available", "unavailable"}
    /\ check \in {"none", "asking", "stopping"}
    /\ resetting \in {"none", "containment", "stop"}
    /\ change \in {"none", "stopping", "applying"}
    /\ closed \in BOOLEAN

Init ==
    /\ run = NoRun /\ intent = "inactive" /\ nav = NoNavigation
    /\ operation = NoOperation /\ abandoned = FALSE /\ service = "stopped"
    /\ stopping = NoTeardown /\ containing = NoTeardown
    /\ recovery = [phase |-> "operational", action |-> "none", spent |-> FALSE]
    /\ placement = [pending |-> TRUE, available |-> FALSE]
    /\ availability = "checking" /\ check = "none"
    /\ resetting = "none" /\ change = "none" /\ closed = FALSE

-----------------------------------------------------------------------------
(* Starting a run, and tearing one down *)

Superseded(process) == [process EXCEPT !.current = FALSE]

\* What a recheck's reset awaits is over: it goes on at once.
ResetIsDue ==
    /\ ~closed
    /\ resetting # "none" /\ containing = NoTeardown
    /\ resetting = "stop" => stopping = NoTeardown

\* Whatever comes from outside comes after what is due.
Arriving == ~ResetIsDue
Listening == ~closed /\ Arriving

\* What every way of starting asks for besides an operational recovery.
Admitted ==
    /\ ~closed /\ change = "none"
    /\ placement.available /\ ~placement.pending
    /\ availability = "available"

startRun ==
    /\ run' = [owned |-> TRUE, current |-> TRUE, work |-> "start",
               player |-> "open"]
    /\ intent' = "playing"
    /\ nav' = NoNavigation
    /\ stopping' = Superseded(stopping)
    /\ containing' = Superseded(containing)

\* The player is closed and the run's identity dropped before anything is
\* awaited; a synthesis in hand is cancelled, otherwise the service shut down.
Retired == [run EXCEPT !.current = FALSE, !.player = "closed"]

Teardown(recovering) ==
    [at |-> "service", current |-> TRUE, failed |-> FALSE,
     cancel |-> operation = [kind |-> "synthesize", at |-> "called"],
     recovering |-> recovering]

performStopActiveRun ==
    IF run.owned
    THEN run' = Retired /\ stopping' = Teardown(FALSE)
         /\ containing' = Superseded(containing)
    ELSE UNCHANGED <<run, stopping, containing>>

\* Mutated form: a stop asked for during a containment does not join it.
stopActiveRun_besideContainment ==
    IF stopping # NoTeardown THEN UNCHANGED <<run, stopping, containing>>
    ELSE performStopActiveRun

\* A stop joins the containment or the stop already under way.
stopActiveRun ==
    IF containing # NoTeardown \/ stopping # NoTeardown
    THEN UNCHANGED <<run, stopping, containing>>
    ELSE performStopActiveRun

\* stop: what the user, the settings, a check or the closing of the book ask
\* for.
stop == intent' = "inactive" /\ nav' = NoNavigation /\ stopActiveRun

\* Mutated form: the listener is not told that playback ended.
contain_keepsIntent(recovering) ==
    /\ containing' = Teardown(recovering)
    /\ run' = Retired
    /\ stopping' = Superseded(stopping)
    /\ nav' = NoNavigation /\ UNCHANGED intent

\* #containOperationalFailure, up to its first await.
contain(recovering) ==
    /\ containing' = Teardown(recovering)
    /\ run' = Retired
    /\ stopping' = Superseded(stopping)
    /\ intent' = "inactive" /\ nav' = NoNavigation

FailureDetected(action) ==
    [recovery EXCEPT !.phase = "containing-service",
                     !.action = IF recovery.spent THEN "contain" ELSE action]

\* #fail: the identity is invalidated, playback and preparation are released,
\* and the containment of the service begins.  During a containment, and where
\* no recovery could follow, the failure is dropped.
fail(action) ==
    \/ /\ \/ containing # NoTeardown
          \/ recovery.phase \notin {"operational", "recovering"}
       /\ UNCHANGED <<run, intent, nav, recoveryVars>>
    \/ /\ containing = NoTeardown /\ recovery.phase = "recovering"
       /\ contain(TRUE) /\ UNCHANGED recovery
    \/ /\ containing = NoTeardown /\ recovery.phase = "operational"
       /\ contain(FALSE) /\ recovery' = FailureDetected(action)

-----------------------------------------------------------------------------
(* The pump: one piece of work at a time *)

NextActions ==
    CASE run.work = "start" -> {"start-service"}
      [] run.work = "prepare" -> {"prepare-service"}
      [] run.work = "produce" -> {"prepare-narration", "synthesize"}
      [] OTHER -> {}

\* The service's state while a piece of work is in hand, and when it is done.
During(kind) ==
    CASE kind = "start-service" -> "starting"
      [] kind = "prepare-service" -> "preparing"
      [] kind = "synthesize" -> "generating"
      [] OTHER -> service

After(kind) ==
    CASE kind = "start-service" -> "unloaded"
      [] kind \in {"prepare-service", "synthesize"} -> "ready"
      [] OTHER -> service

\* requestPump: the scheduler's next action is taken up when none is in hand.
Pump ==
    /\ run.current /\ run.player = "open" /\ ~closed
    /\ operation = NoOperation
    /\ \E kind \in NextActions :
         /\ operation' = [kind |-> kind,
              at |-> IF kind = "start-service" THEN "preflight" ELSE "called"]
         /\ service' = IF kind = "start-service" THEN service ELSE During(kind)
    /\ UNCHANGED <<runVars, abandoned, recoveryVars, admissionVars>>

\* After every await of the preflight: is this still the run that asked?
isCurrent(own) == own /\ run.current

\* The profile and its configuration are admitted, and the start is dispatched.
PreflightAdmits(own) ==
    /\ isCurrent(own)
    /\ service' = "starting"
    /\ operation' = [kind |-> "start-service", at |-> "called"]
    /\ UNCHANGED <<runVars, recoveryVars, admissionVars>>

\* The profile is not available any more.
PreflightRefuses(own) ==
    /\ isCurrent(own)
    /\ availability' = "unavailable"
    /\ operation' = IF own THEN NoOperation ELSE operation
    /\ fail("select")
    /\ UNCHANGED <<service, placement, check, resetting, change, closed>>

PreflightIsStale(own) ==
    /\ ~isCurrent(own)
    /\ operation' = IF own THEN NoOperation ELSE operation
    /\ UNCHANGED <<runVars, service, recoveryVars, admissionVars>>

PreflightAnswers ==
    \/ /\ Arriving /\ operation.at = "preflight" /\ UNCHANGED abandoned
       /\ PreflightAdmits(TRUE) \/ PreflightRefuses(TRUE) \/ PreflightIsStale(TRUE)
    \/ /\ Arriving /\ abandoned /\ abandoned' = FALSE
       /\ \/ PreflightAdmits(FALSE) \/ PreflightRefuses(FALSE)
          \/ PreflightIsStale(FALSE)

\* A call of the service can only succeed while the service is still at it.
MaySucceed(kind) == kind = "prepare-narration" \/ service = During(kind)

\* An answer to a run that is gone, or whose player invalidated the scheduler,
\* changes nothing but the service.
Unheard == ~run.current \/ run.player = "failed"

CallSucceeds ==
    /\ Arriving /\ operation.at = "called" /\ MaySucceed(operation.kind)
    /\ service' = After(operation.kind)
    /\ operation' = NoOperation
    /\ IF Unheard
       THEN UNCHANGED <<runVars, recoveryVars>>
       ELSE /\ run' = [run EXCEPT !.work =
                 CASE operation.kind = "start-service" -> "prepare"
                   [] operation.kind = "prepare-service" -> "produce"
                   [] OTHER -> @]
            /\ IF operation.kind = "prepare-service" /\ recovery.phase = "recovering"
               THEN recovery' = [recovery EXCEPT !.phase = "operational",
                                                 !.action = "none"]
               ELSE UNCHANGED recovery
            /\ UNCHANGED <<intent, nav, stopping, containing>>
    /\ UNCHANGED <<abandoned, admissionVars>>

\* What a rejected call says decides the action a recovery would take.
CallFails ==
    /\ Arriving /\ operation.at = "called"
    /\ operation' = NoOperation
    /\ service' = IF operation.kind # "prepare-narration" /\ MaySucceed(operation.kind)
                  THEN "failed" ELSE service
    /\ \/ Unheard /\ UNCHANGED <<runVars, recoveryVars>>
       \/ /\ ~Unheard /\ operation.kind = "prepare-narration"
          /\ stop /\ UNCHANGED recovery
       \/ /\ ~Unheard /\ operation.kind # "prepare-narration"
          /\ \E action \in {"restart", "contain"} : fail(action)
    /\ UNCHANGED <<abandoned, admissionVars>>

\* The scheduler refused the unit and settled its synthesis: the handler's own
\* settling throws, and the failure is not reported.
UnitIsRefused ==
    /\ Arriving /\ operation = [kind |-> "synthesize", at |-> "called"]
    /\ MaySucceed("synthesize") /\ ~Unheard
    /\ service' = "ready" /\ operation' = NoOperation
    /\ run' = [run EXCEPT !.work = "failed"]
    /\ UNCHANGED <<intent, nav, abandoned, recoveryVars, admissionVars>>

-----------------------------------------------------------------------------
(* The player, as the ticks see it *)

PlayerAt(state) ==
    /\ Arriving /\ run.current /\ run.player = "open"
    /\ run' = [run EXCEPT !.player = state]
    /\ UNCHANGED <<intent, nav, workVars, recoveryVars, admissionVars>>

DeviceFails == run.work \in {"produce", "failed"} /\ PlayerAt("failed")

\* The buffered audio of a run whose production failed has all been played.
AudioRunsOut == run.work = "failed" /\ intent # "paused" /\ PlayerAt("failed")

BookEnds ==
    /\ run.work = "produce" /\ operation = NoOperation /\ intent # "paused"
    /\ PlayerAt("complete")

\* Mutated form: a player that failed while paused is not noticed.
Tick_whilePlaying ==
    /\ Arriving /\ run.current /\ intent # "paused"
    /\ \/ run.player = "failed" /\ fail("restart")
       \/ /\ run.player = "complete" /\ intent # "inactive"
          /\ intent' = "inactive"
          /\ UNCHANGED <<run, nav, recoveryVars>>
    /\ UNCHANGED <<workVars, admissionVars>>

\* #tick: a failed player fails the run, a finished one ends the intent.
Tick ==
    /\ Arriving /\ run.current
    /\ \/ run.player = "failed" /\ fail("restart")
       \/ /\ run.player = "complete" /\ intent # "inactive"
          /\ intent' = "inactive"
          /\ UNCHANGED <<run, nav, recoveryVars>>
    /\ UNCHANGED <<workVars, admissionVars>>

-----------------------------------------------------------------------------
(* What a teardown awaits *)

\* A cancel or a shutdown of the service: done, done although the cancel was
\* refused because the synthesis finished first, or not done in time.
ServiceAnswers(process) ==
    {"done", "failed"} \cup IF process.cancel THEN {"raced"} ELSE {}

ServiceAfter(answer) ==
    IF answer = "failed" THEN service' \in {service, "stopped"}
    ELSE service' = "stopped"

Failing(process, failed) == [process EXCEPT !.failed = @ \/ failed]

\* The work in hand, when it is one the teardown waits for.
Joined == operation.at # "called"

\* A teardown that returns settles whoever awaits it.
navStops == nav' = IF nav.open THEN [nav EXCEPT !.stopped = TRUE] ELSE nav

StopAwaitsService ==
    /\ stopping.at \in {"service", "again"}
    /\ \E answer \in ServiceAnswers(stopping) :
         /\ answer = "raced" => stopping.at = "service"
         /\ ServiceAfter(answer)
         /\ stopping' = [Failing(stopping, answer = "failed") EXCEPT !.at =
              IF answer = "done" \/ stopping.at = "again" THEN "join" ELSE "again"]
    /\ UNCHANGED <<runVars, operation, abandoned, containing, recovery,
                   admissionVars>>

\* Mutated form: an interrupted recovery leaves its action offered.
StopReleases_keepsAction ==
    /\ run' = NoRun
    /\ recovery' = IF recovery.phase # "recovering" THEN recovery
                   ELSE [recovery EXCEPT !.phase = "operational"]
    /\ UNCHANGED availability

\* The owners go when everything they owned is verified to be gone.
StopReleases ==
    /\ run' = NoRun
    /\ recovery' = IF recovery.phase # "recovering" THEN recovery
                   ELSE [recovery EXCEPT !.phase = "operational", !.action = "none"]
    /\ UNCHANGED availability

StopKeepsOwners ==
    /\ availability' = "unavailable"
    /\ recovery' = CASE recovery.phase = "operational" ->
                          [recovery EXCEPT !.phase = "contained", !.action = "contain"]
                     [] recovery.phase = "recovering" ->
                          [recovery EXCEPT !.phase = "unavailable",
                                           !.action = "contain"]
                     [] OTHER -> recovery
    /\ UNCHANGED run

StopVerified == ~stopping.failed /\ Joined /\ service = "stopped"

\* The work and the player are awaited no longer than the deadline.
StopFinishes ==
    /\ stopping.at = "join"
    /\ stopping' = NoTeardown
    /\ abandoned' = (abandoned \/ operation.at = "preflight")
    /\ operation' = NoOperation
    /\ navStops
    /\ IF ~stopping.current
       THEN UNCHANGED <<run, recovery, availability>>
       ELSE \/ StopVerified /\ StopReleases
            \/ StopKeepsOwners
    /\ UNCHANGED <<intent, service, containing, placement, check, resetting,
                   change, closed>>

\* The first call of a containment; a cancel is followed by a shutdown once
\* the work in hand has returned, and an error by another shutdown.
ContainmentAwaitsService ==
    /\ containing.at \in {"service", "shutdown", "again"}
    /\ \E answer \in ServiceAnswers(containing) :
         /\ answer = "raced" => containing.at = "service"
         /\ ServiceAfter(answer)
         /\ containing' = [Failing(containing, answer = "failed") EXCEPT !.at =
              CASE containing.at = "again" -> "verify"
                [] answer # "done" -> "again"
                [] containing.at = "shutdown" -> "verify"
                [] OTHER -> "join"]
    /\ UNCHANGED <<runVars, operation, abandoned, stopping, recovery, admissionVars>>

ContainmentJoins ==
    /\ containing.at = "join"
    /\ containing' =
         IF operation = NoOperation
         THEN [containing EXCEPT !.at =
                 IF containing.cancel THEN "shutdown" ELSE "verify"]
         ELSE [containing EXCEPT !.at = "again", !.failed = TRUE]
    /\ UNCHANGED <<runVars, workVars, stopping, recovery, admissionVars>>

\* markServiceContained, unless the run token was taken meanwhile.
ContainmentSettles ==
    /\ containing.at = "verify" /\ ~containing.recovering
    /\ recovery.phase = "containing-service"
    /\ \/ /\ ~containing.current
          /\ containing' = NoTeardown /\ UNCHANGED recovery
       \/ /\ containing.current
          /\ recovery' = [recovery EXCEPT !.phase = "verifying-cleanup"]
          /\ UNCHANGED containing
    /\ UNCHANGED <<runVars, workVars, stopping, admissionVars>>

\* What the verification makes of the recovery.
Verdict(clean) ==
    IF containing.recovering
    THEN [recovery EXCEPT !.phase = "unavailable", !.action = "contain"]
    ELSE IF ~clean THEN [recovery EXCEPT !.phase = "contained", !.action = "contain"]
    ELSE [recovery EXCEPT !.phase =
            IF recovery.spent \/ recovery.action = "contain"
            THEN "unavailable" ELSE "recovery-available"]

ContainedOwners(clean) == IF clean THEN NoRun ELSE run

ContainmentFinishes ==
    /\ containing.at = "verify"
    /\ containing.recovering \/ recovery.phase = "verifying-cleanup"
    /\ \E clean \in BOOLEAN :
         /\ clean => /\ ~containing.failed /\ service = "stopped"
                     /\ operation = NoOperation
         /\ run' = ContainedOwners(clean)
         /\ recovery' = Verdict(clean)
    /\ containing' = NoTeardown
    /\ abandoned' = (abandoned \/ operation.at = "preflight")
    /\ operation' = NoOperation
    /\ navStops
    /\ UNCHANGED <<intent, service, stopping, admissionVars>>

-----------------------------------------------------------------------------
(* What the user asks for *)

\* start
Start ==
    /\ Listening /\ Admitted /\ ~nav.open /\ ~run.owned
    /\ recovery.phase = "operational"
    /\ startRun
    /\ UNCHANGED <<workVars, recovery, admissionVars>>

canRecover == recovery.phase = "recovery-available" /\ ~recovery.spent

\* recover: offered when the failure leaves something to restart.
Recover ==
    /\ Listening /\ Admitted /\ ~nav.open /\ ~run.owned
    /\ canRecover /\ recovery.action = "restart"
    /\ recovery' = [recovery EXCEPT !.phase = "recovering", !.spent = TRUE]
    /\ startRun
    /\ UNCHANGED <<workVars, admissionVars>>

\* pause is offered while something plays.
Pause ==
    /\ Listening /\ run.current /\ run.player = "open" /\ intent = "playing"
    /\ run.work \in {"produce", "failed"}
    /\ intent' = "paused"
    /\ UNCHANGED <<run, nav, workVars, recoveryVars, admissionVars>>

\* resume: the paused run goes on, or one that a navigation stopped starts anew.
Resume ==
    /\ intent = "paused"
    /\ Listening /\ change = "none" /\ ~nav.open /\ stopping = NoTeardown
    /\ placement.available /\ ~placement.pending
    /\ recovery.phase = "operational"
    /\ \/ /\ run.current
          /\ intent' = "playing"
          /\ UNCHANGED <<run, nav, recoveryVars>>
       \/ /\ ~run.owned /\ Admitted
          /\ startRun /\ UNCHANGED recovery
    /\ UNCHANGED <<workVars, admissionVars>>

\* Stop is offered for a run.
Stop ==
    /\ Listening /\ run.owned /\ recovery.phase = "operational"
    /\ stop
    /\ UNCHANGED <<workVars, recovery, admissionVars>>

Close ==
    /\ Listening /\ closed' = TRUE
    /\ stop
    /\ UNCHANGED <<workVars, recovery, placement, availability, check,
                   resetting, change>>

-----------------------------------------------------------------------------
(* Navigation: the run is stopped first, and restarted where it leads *)

\* #beginNavigation.  The reader settles the placement it asks for.
beginNavigation(force, settled) ==
    IF nav.open
    THEN /\ nav' = [nav EXCEPT !.restart = @ \/ force]
         /\ UNCHANGED <<run, intent, stopping, containing>>
    ELSE /\ intent' = IF intent = "inactive" THEN "playing" ELSE intent
         /\ nav' = [open |-> TRUE, restart |-> force \/ intent' = "playing",
                    settled |-> settled,
                    stopped |-> /\ ~run.owned /\ stopping = NoTeardown
                                /\ containing = NoTeardown]
         /\ stopActiveRun

\* beginExternalNavigation: the reader moves to another chapter.
ExternalNavigation ==
    /\ Listening
    /\ placement' = [placement EXCEPT !.pending = TRUE]
    /\ IF intent = "inactive"
       THEN UNCHANGED <<runVars, stopping, containing>>
       ELSE beginNavigation(FALSE, FALSE)
    /\ UNCHANGED <<workVars, recovery, availability, check, resetting, change,
                   closed>>

\* goToNextBoundary, goToPreviousBoundary
BoundaryNavigation ==
    /\ Listening /\ intent # "inactive" /\ ~placement.pending /\ ~nav.open
    /\ beginNavigation(FALSE, FALSE)
    /\ UNCHANGED <<workVars, recovery, admissionVars>>

\* startAtVisibleLocator and startAtLocator: from the passage in view, or from
\* one the reader has to place first.
StartElsewhere ==
    /\ Listening /\ Admitted /\ ~nav.open /\ recovery.phase = "operational"
    /\ \E visible \in BOOLEAN :
         IF intent # "inactive" \/ run.owned
         THEN beginNavigation(TRUE, visible)
         ELSE \/ visible /\ startRun
              \/ /\ ~visible
                 /\ intent' = "playing"
                 /\ nav' = [open |-> TRUE, restart |-> TRUE, stopped |-> TRUE,
                            settled |-> FALSE]
                 /\ UNCHANGED <<run, stopping, containing>>
    /\ UNCHANGED <<workVars, recovery, admissionVars>>

\* beginReaderPlacement
ReaderPlaces ==
    /\ Listening /\ ~placement.pending
    /\ placement' = [placement EXCEPT !.pending = TRUE]
    /\ UNCHANGED <<runVars, workVars, recoveryVars, availability, check,
                   resetting, change, closed>>

\* settleReaderPlacement and, when the place is there, settleExternalNavigation.
PlacementSettles ==
    /\ Listening
    /\ placement.pending \/ (nav.open /\ nav.stopped /\ ~nav.settled)
    /\ \/ /\ placement' = [pending |-> FALSE, available |-> TRUE]
          /\ nav' = IF nav.open THEN [nav EXCEPT !.settled = TRUE] ELSE nav
          /\ UNCHANGED <<run, intent, stopping, containing>>
       \/ /\ placement' = [pending |-> FALSE, available |-> FALSE]
          /\ IF run.owned
             THEN stop
             ELSE /\ intent' = "inactive" /\ nav' = NoNavigation
                  /\ UNCHANGED <<run, stopping, containing>>
    /\ UNCHANGED <<workVars, recovery, availability, check, resetting, change,
                   closed>>

Restarts == nav.restart /\ ~run.owned /\ Admitted /\ recovery.phase = "operational"

\* #finishNavigation
FinishNavigation ==
    /\ nav.open /\ nav.stopped /\ nav.settled /\ ~closed
    /\ \/ Restarts /\ startRun
       \/ /\ ~Restarts
          /\ nav' = NoNavigation
          /\ intent' = IF ~nav.restart /\ recovery.phase = "operational"
                       THEN "paused" ELSE "inactive"
          /\ UNCHANGED <<run, stopping, containing>>
    /\ UNCHANGED <<workVars, recovery, admissionVars>>

-----------------------------------------------------------------------------
(* What is available, and what the settings change *)

ask == availability' = "checking" /\ check' = "asking"

\* refreshSelectedProfile, and the first check of the controls.
Recheck ==
    /\ Listening
    /\ ask
    /\ UNCHANGED <<runVars, workVars, recoveryVars, placement, resetting, change,
                   closed>>

\* The check's answer: a run whose selection changed, or which is no longer
\* available, is stopped before the answer is published.
CheckAnswers ==
    /\ Listening /\ check = "asking"
    /\ \E answer \in {"available", "unavailable"}, same \in BOOLEAN :
         IF run.owned /\ (~same \/ answer = "unavailable")
         THEN stop /\ check' = "stopping" /\ UNCHANGED availability
         ELSE /\ check' = "none" /\ availability' = answer
              /\ UNCHANGED <<runVars, stopping, containing>>
    /\ UNCHANGED <<workVars, recovery, placement, resetting, change, closed>>

\* stopForConfigurationChange: contained when no owner is left and a last
\* shutdown leaves the service stopped.
ContainedForChange ==
    /\ stopping = NoTeardown /\ containing = NoTeardown
    /\ ~run.owned /\ service = "stopped"

\* The answer is published if the run was contained in a working narration.
CheckFinishes ==
    /\ check = "stopping" /\ ~closed
    /\ stopping = NoTeardown /\ containing = NoTeardown
    /\ check' = "none"
    /\ \/ /\ ContainedForChange /\ recovery.phase = "operational"
          /\ availability' \in {"available", "unavailable"}
       \/ UNCHANGED availability
    /\ UNCHANGED <<runVars, workVars, recoveryVars, placement, resetting, change,
                   closed>>

\* The settings change profile or language: beginConfigurationChange, and a stop.
BeginChange ==
    /\ change = "none" /\ Listening
    /\ change' = "stopping"
    /\ stop
    /\ UNCHANGED <<workVars, recovery, placement, availability, check, resetting,
                   closed>>

\* Nothing is written unless the narration was contained.
ChangeIsAdmitted ==
    /\ change = "stopping"
    /\ stopping = NoTeardown /\ containing = NoTeardown
    /\ \/ ContainedForChange /\ change' = "applying"
       \/ change' = "none"
    /\ UNCHANGED <<runVars, workVars, recoveryVars, placement, availability,
                   check, resetting, closed>>

\* The selection is written, or refused; a written one is checked.
ChangeEnds ==
    /\ change = "applying"
    /\ change' = "none"
    /\ (ask /\ ~closed) \/ UNCHANGED <<availability, check>>
    /\ UNCHANGED <<runVars, workVars, recoveryVars, placement, resetting, closed>>

-----------------------------------------------------------------------------
(* resetRecoveryEpisode: an explicit recheck starts a new failure episode *)

\* resetEpisode is refused while a recovery is under way.
resetEpisode ==
    IF recovery.phase \in Settled
    THEN /\ recovery' = [phase |-> "operational", action |-> "none",
                         spent |-> FALSE]
         /\ ask
    ELSE UNCHANGED <<recovery, availability, check>>

\* Teardowns and retained owners are awaited first.
ResetAsked ==
    /\ Listening /\ resetting = "none"
    /\ \/ /\ containing # NoTeardown
          /\ resetting' = "containment" /\ availability' = "checking"
          /\ UNCHANGED <<run, stopping, recovery, containing, check>>
       \/ /\ containing = NoTeardown
          /\ stopping # NoTeardown \/ (recovery.phase # "operational" /\ run.owned)
          /\ resetting' = "stop" /\ availability' = "checking"
          /\ stopActiveRun
          /\ UNCHANGED <<recovery, check>>
       \/ /\ containing = NoTeardown /\ stopping = NoTeardown
          /\ recovery.phase = "operational" \/ ~run.owned
          /\ resetEpisode
          /\ UNCHANGED <<run, stopping, containing, resetting>>
    /\ UNCHANGED <<intent, nav, workVars, placement, change, closed>>

ResetGoesOn ==
    /\ ResetIsDue
    /\ \/ /\ resetting = "containment" /\ (run.owned \/ stopping # NoTeardown)
          /\ resetting' = "stop"
          /\ stopActiveRun
          /\ UNCHANGED <<recovery, availability, check>>
       \/ /\ resetting = "stop" /\ run.owned
          /\ resetting' = "none" /\ availability' = "unavailable"
          /\ UNCHANGED <<run, recoveryVars, check>>
       \/ /\ stopping = NoTeardown /\ ~run.owned
          /\ resetting' = "none"
          /\ resetEpisode
          /\ UNCHANGED <<run, stopping, containing>>
    /\ UNCHANGED <<intent, nav, workVars, placement, change, closed>>

-----------------------------------------------------------------------------
Work ==
    \/ Pump \/ PreflightAnswers \/ CallSucceeds \/ CallFails \/ UnitIsRefused
    \/ DeviceFails \/ AudioRunsOut \/ BookEnds \/ Tick

Teardowns ==
    \/ StopAwaitsService \/ StopFinishes \/ ContainmentAwaitsService
    \/ ContainmentJoins \/ ContainmentSettles \/ ContainmentFinishes

Requests ==
    \/ Start \/ Recover \/ Pause \/ Resume \/ Stop \/ Close
    \/ ExternalNavigation \/ BoundaryNavigation \/ StartElsewhere
    \/ ReaderPlaces \/ BeginChange \/ ResetAsked

Continuations ==
    \/ PlacementSettles \/ FinishNavigation
    \/ Recheck \/ CheckAnswers \/ CheckFinishes
    \/ ChangeIsAdmitted \/ ChangeEnds \/ ResetGoesOn

Next == Work \/ Teardowns \/ Continuations \/ Requests

\* Timers, deadlines and continuations run; nobody has to press anything, the
\* device need not fail and an answer need not be the good one.
Fairness ==
    /\ WF_vars(PreflightAnswers) /\ WF_vars(CallSucceeds \/ CallFails)
    /\ WF_vars(AudioRunsOut) /\ WF_vars(Tick) /\ WF_vars(Teardowns)
    /\ WF_vars(FinishNavigation)
    /\ WF_vars(CheckAnswers) /\ WF_vars(CheckFinishes)
    /\ WF_vars(ResetGoesOn)

Spec == Init /\ [][Next]_vars /\ Fairness
-----------------------------------------------------------------------------
(* Properties *)

\* A recovery that is half way is being carried through by its containment: no
\* stop, navigation or recheck takes the run token from it and leaves it there.
RecoveryNeverStalls == recovery.phase \in Halfway => containing # NoTeardown

\* A run that is current is in a phase in which its failure will be contained
\* (#fail drops failures in every other), and no teardown is still at work.
LiveRunIsWatched ==
    run.current =>
        /\ run.owned
        /\ recovery.phase \in {"operational", "recovering"}
        /\ stopping = NoTeardown /\ containing = NoTeardown

\* Whatever fails is contained by somebody, in every order of failures, stops,
\* navigations and rechecks.
FailuresAreWatched == RecoveryNeverStalls /\ LiveRunIsWatched

\* The service never outlives the owners that have to see it stopped, whatever
\* answers late: no stopped run starts it, no teardown lets go of it unverified.
ServiceHasOwner == service # "stopped" => run.owned

\* While the settings write another configuration nothing of the old one is
\* left: no owner, no service, and nothing that may start one.
ConfigurationIsExclusive ==
    change = "applying" => ~run.owned /\ service = "stopped" /\ ~run.current

\* Between runs, teardowns and changes of the settings, the service has its
\* owner, and none of an old configuration.
ServiceIsOwned == ServiceHasOwner /\ ConfigurationIsExclusive

\* However starts, stops, failures and changes overtake each other, a failure
\* finds somebody to contain it, and a service somebody to stop it.
RunIsLookedAfter == FailuresAreWatched /\ ServiceIsOwned

\* An explicit recovery is not offered again until a recheck starts a new
\* episode, whatever became of the recovered run.
RecoveryIsOnce ==
    [][recovery.spent /\ recovery'.phase = "recovering" =>
         recovery.phase = "recovering"]_vars

\* Narration that is said to play goes on playing, or is being navigated: what
\* takes the run away says so.  (The exception is a recheck asked for while a
\* recovery starts: it stops the run and leaves the intent.)
IntentIsTruthful ==
    [][(/\ intent' = "playing" /\ ~run'.current /\ ~nav'.open
        /\ run.current \/ nav.open \/ intent # "playing")
           => recovery.phase = "recovering" /\ resetting' = "stop"]_vars

\* What the listener is told to be playing, and what he is offered after a
\* failure, is what the coordinator really does.
ListenerIsNotMisled == RecoveryIsOnce /\ IntentIsTruthful

\* A run whose player or production failed is contained, unless it stays paused.
FailuresAreContained ==
    /\ (run.current /\ run.player = "failed") ~> ~run.current
    /\ (run.current /\ run.work = "failed") ~> (~run.current \/ intent # "playing")

\* Failures are contained; every teardown ends, every navigation that has where
\* to go, and every recheck that waited for them.
NarrationSettles ==
    /\ FailuresAreContained
    /\ (stopping # NoTeardown \/ containing # NoTeardown)
         ~> (stopping = NoTeardown /\ containing = NoTeardown)
    /\ (nav.open /\ nav.settled) ~> (~nav.open \/ closed)
    /\ (resetting # "none") ~> (resetting = "none" \/ closed)
==============================================================================
