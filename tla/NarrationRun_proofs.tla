------------------------- MODULE NarrationRun_proofs -------------------------
(***************************************************************************)
(* Proofs about one book's narration: the coordinator's state keeps its    *)
(* types, a failure always finds somebody to contain it and a service      *)
(* somebody to stop it, and the listener is not misled.                    *)
(***************************************************************************)
EXTENDS NarrationRun, TLAPS

Runs == [owned : BOOLEAN, current : BOOLEAN,
         work : {"start", "prepare", "produce", "failed"},
         player : {"open", "failed", "complete", "closed"}]

Navigations == [open : BOOLEAN, restart : BOOLEAN, stopped : BOOLEAN,
                settled : BOOLEAN]

TeardownStates ==
    [at : {"none", "service", "join", "shutdown", "again", "verify"},
     current : BOOLEAN, cancel : BOOLEAN, failed : BOOLEAN,
     recovering : BOOLEAN]

Intents == {"inactive", "playing", "paused"}

\* What a request or a failure may do to the run and its teardowns.
RunTyped ==
    /\ run \in Runs /\ intent \in Intents /\ nav \in Navigations
    /\ stopping \in TeardownStates /\ containing \in TeardownStates

\* What is said of the recovery.
RecoveryTyped ==
    /\ recovery \in [phase : Settled \cup Halfway \cup {"recovering"},
                     action : {"none", "restart", "select", "contain"},
                     spent : BOOLEAN]
    /\ (recovery.phase = "operational") <=> (recovery.action = "none")

\* What is said of the work in hand and the service.
WorkTyped ==
    /\ operation \in {NoOperation} \cup [kind : Kinds, at : {"called"}]
                    \cup [kind : {"start-service"}, at : {"preflight"}]
    /\ abandoned \in BOOLEAN
    /\ service \in {"stopped", "starting", "unloaded", "preparing", "ready",
                    "generating", "failed"}

\* What is said of what admits a run.
AdmissionTyped ==
    /\ placement \in [pending : BOOLEAN, available : BOOLEAN]
    /\ availability \in {"checking", "available", "unavailable"}
    /\ check \in {"none", "asking", "stopping"}
    /\ resetting \in {"none", "containment", "stop"}
    /\ change \in {"none", "stopping", "applying"}
    /\ closed \in BOOLEAN

LEMMA TypeParts ==
    /\ TypeOK <=> RunTyped /\ RecoveryTyped /\ WorkTyped /\ AdmissionTyped
    /\ TypeOK' <=> RunTyped' /\ RecoveryTyped' /\ WorkTyped' /\ AdmissionTyped'
<1> USE DEF TypeOK, RunTyped, RecoveryTyped, WorkTyped, AdmissionTyped, Runs,
            Intents, Navigations, TeardownStates
<1>1. TypeOK <=> RunTyped /\ RecoveryTyped /\ WorkTyped /\ AdmissionTyped
  OBVIOUS
<1>2. TypeOK' <=> RunTyped' /\ RecoveryTyped' /\ WorkTyped' /\ AdmissionTyped'
  OBVIOUS
<1> QED BY <1>1, <1>2

-----------------------------------------------------------------------------
(* The handlers that more than one action calls *)

LEMMA StartTyped ==
    ASSUME RunTyped, startRun  PROVE RunTyped'
BY DEF RunTyped, startRun, Runs, Intents, Navigations, TeardownStates,
       NoNavigation, Superseded

LEMMA NothingTyped ==
    /\ NoRun \in Runs /\ NoTeardown \in TeardownStates
    /\ NoNavigation \in Navigations
    /\ \A there \in BOOLEAN : [pending |-> FALSE, available |-> there]
                                \in [pending : BOOLEAN, available : BOOLEAN]
BY DEF NoRun, Runs, NoTeardown, TeardownStates, NoNavigation, Navigations

\* Whoever awaits the navigation is told that the teardown is over.
LEMMA NavStopsTyped ==
    ASSUME RunTyped, navStops  PROVE nav' \in Navigations
BY DEF RunTyped, navStops, Navigations

LEMMA HandsTyped ==
    ASSUME RunTyped
    PROVE  /\ Retired \in Runs
           /\ Superseded(stopping) \in TeardownStates
           /\ Superseded(containing) \in TeardownStates
           /\ \A recovering \in BOOLEAN : Teardown(recovering) \in TeardownStates
<1>1. Retired \in Runs
  BY DEF RunTyped, Runs, Retired
<1>2. \A t \in TeardownStates : Superseded(t) \in TeardownStates
  BY DEF TeardownStates, Superseded
<1>3. \A recovering \in BOOLEAN : Teardown(recovering) \in TeardownStates
  BY DEF TeardownStates, Teardown
<1> QED BY <1>1, <1>2, <1>3 DEF RunTyped

LEMMA StopActiveTyped ==
    ASSUME RunTyped, stopActiveRun
    PROVE  /\ run' \in Runs
           /\ stopping' \in TeardownStates /\ containing' \in TeardownStates
BY HandsTyped DEF RunTyped, stopActiveRun, performStopActiveRun

LEMMA StopTyped ==
    ASSUME RunTyped, stop  PROVE RunTyped'
BY StopActiveTyped DEF RunTyped, stop, Intents, Navigations, NoNavigation

LEMMA FailTyped ==
    ASSUME RunTyped, RecoveryTyped,
           NEW action \in {"restart", "select", "contain"}, fail(action)
    PROVE  RunTyped' /\ RecoveryTyped'
<1>1. ASSUME NEW recovering \in BOOLEAN, contain(recovering)  PROVE RunTyped'
  BY <1>1 DEF RunTyped, contain, Runs, Intents, Navigations, TeardownStates,
              NoNavigation, Superseded, Retired, Teardown
<1>2. RunTyped'
  BY <1>1 DEF RunTyped, fail, recoveryVars
<1>3. RecoveryTyped'
  BY DEF RecoveryTyped, fail, FailureDetected, recoveryVars, Settled, Halfway
<1> QED BY <1>2, <1>3

LEMMA NavigateTyped ==
    ASSUME RunTyped, NEW force \in BOOLEAN, NEW settled \in BOOLEAN,
           beginNavigation(force, settled)
    PROVE  RunTyped'
<1>1. CASE nav.open
  <2>1. [nav EXCEPT !.restart = @ \/ force] \in Navigations
    BY DEF RunTyped, Navigations
  <2> QED BY <1>1, <2>1 DEF RunTyped, beginNavigation
<1>2. CASE ~nav.open
  <2>1. /\ intent' \in Intents /\ nav' \in Navigations
        /\ stopActiveRun
    <3>1. \A restart, stopped \in BOOLEAN :
              [open |-> TRUE, restart |-> restart, settled |-> settled,
               stopped |-> stopped] \in Navigations
      BY DEF Navigations
    <3>2. intent' \in Intents /\ stopActiveRun
      BY <1>2 DEF RunTyped, beginNavigation, Intents
    <3>3. nav' \in Navigations
      BY <1>2, <3>1 DEF beginNavigation
    <3> QED BY <3>2, <3>3
  <2> QED BY <2>1, StopActiveTyped DEF RunTyped
<1> QED BY <1>1, <1>2

LEMMA ResetTyped ==
    ASSUME RecoveryTyped, AdmissionTyped, resetEpisode,
           UNCHANGED <<placement, change, closed>>,
           resetting' \in {"none", "containment", "stop"}
    PROVE  RecoveryTyped' /\ AdmissionTyped'
<1>1. RecoveryTyped'
  <2>1. CASE recovery.phase \in Settled
    <3>1. recovery' = [phase |-> "operational", action |-> "none",
                       spent |-> FALSE]
      BY <2>1 DEF resetEpisode
    <3> QED BY <3>1 DEF RecoveryTyped, Settled
  <2>2. CASE recovery.phase \notin Settled
    BY <2>2 DEF RecoveryTyped, resetEpisode
  <2> QED BY <2>1, <2>2
<1>2. AdmissionTyped'
  BY DEF AdmissionTyped, resetEpisode, ask
<1> QED BY <1>1, <1>2

-----------------------------------------------------------------------------
(* Every step keeps the types *)

Typed == RunTyped /\ RecoveryTyped /\ WorkTyped /\ AdmissionTyped

LEMMA WorkKeepsTypes ==
    ASSUME Typed, Work  PROVE Typed'
<1> USE DEF Typed
<1>1. ASSUME Pump  PROVE Typed'
  BY <1>1 DEF Pump, NextActions, During, Kinds, NoOperation, RunTyped, WorkTyped,
              RecoveryTyped, AdmissionTyped, runVars, recoveryVars, admissionVars
<1>2. ASSUME PreflightAnswers  PROVE Typed'
  <2>1. ASSUME NEW own \in BOOLEAN, PreflightAdmits(own), abandoned' \in BOOLEAN
        PROVE  Typed'
    BY <2>1 DEF PreflightAdmits, Kinds, RunTyped, WorkTyped, RecoveryTyped,
                AdmissionTyped, runVars, recoveryVars, admissionVars
  <2>2. ASSUME NEW own \in BOOLEAN, PreflightRefuses(own), abandoned' \in BOOLEAN
        PROVE  Typed'
    <3>1. RunTyped' /\ RecoveryTyped'
      BY <2>2, FailTyped DEF PreflightRefuses
    <3> QED BY <2>2, <3>1 DEF PreflightRefuses, WorkTyped, AdmissionTyped
  <2>3. ASSUME NEW own \in BOOLEAN, PreflightIsStale(own), abandoned' \in BOOLEAN
        PROVE  Typed'
    BY <2>3 DEF PreflightIsStale, RunTyped, WorkTyped, RecoveryTyped,
                AdmissionTyped, runVars, recoveryVars, admissionVars
  <2> QED BY <1>2, <2>1, <2>2, <2>3 DEF PreflightAnswers, WorkTyped
<1>3. ASSUME CallSucceeds  PROVE Typed'
  <2>1. RunTyped'
    BY <1>3 DEF CallSucceeds, RunTyped, Runs, runVars, recoveryVars
  <2>2. RecoveryTyped'
    BY <1>3 DEF CallSucceeds, RecoveryTyped, recoveryVars, Settled
  <2>3. WorkTyped' /\ AdmissionTyped'
    BY <1>3 DEF CallSucceeds, After, WorkTyped, AdmissionTyped, admissionVars
  <2> QED BY <2>1, <2>2, <2>3
<1>4. ASSUME CallFails  PROVE Typed'
  <2>1. RunTyped' /\ RecoveryTyped'
    <3>1. ASSUME UNCHANGED <<runVars, recoveryVars>>
          PROVE  RunTyped' /\ RecoveryTyped'
      BY <3>1 DEF runVars, recoveryVars, RunTyped, RecoveryTyped
    <3>2. ASSUME stop, UNCHANGED recovery  PROVE RunTyped' /\ RecoveryTyped'
      BY <3>2, StopTyped DEF RecoveryTyped
    <3> QED BY <1>4, <3>1, <3>2, FailTyped DEF CallFails
  <2>2. WorkTyped' /\ AdmissionTyped'
    BY <1>4 DEF CallFails, WorkTyped, AdmissionTyped, admissionVars
  <2> QED BY <2>1, <2>2
<1>5. ASSUME UnitIsRefused  PROVE Typed'
  BY <1>5 DEF UnitIsRefused, RunTyped, Runs, WorkTyped, RecoveryTyped,
              AdmissionTyped, recoveryVars, admissionVars
<1>6. ASSUME DeviceFails \/ AudioRunsOut \/ BookEnds  PROVE Typed'
  BY <1>6 DEF DeviceFails, AudioRunsOut, BookEnds, PlayerAt, RunTyped, Runs,
              WorkTyped, RecoveryTyped, AdmissionTyped, workVars, recoveryVars,
              admissionVars
<1>7. ASSUME Tick  PROVE Typed'
  <2>1. RunTyped' /\ RecoveryTyped'
    BY <1>7, FailTyped
       DEF Tick, RunTyped, Intents, RecoveryTyped, recoveryVars
  <2>2. WorkTyped' /\ AdmissionTyped'
    BY <1>7 DEF Tick, WorkTyped, AdmissionTyped, workVars, admissionVars
  <2> QED BY <2>1, <2>2
<1> QED BY <1>1, <1>2, <1>3, <1>4, <1>5, <1>6, <1>7 DEF Work

LEMMA TeardownsKeepTypes ==
    ASSUME Typed, Teardowns  PROVE Typed'
<1> USE DEF Typed
<1>1. ASSUME StopAwaitsService  PROVE Typed'
  <2>1. RunTyped'
    BY <1>1 DEF StopAwaitsService, Failing, TeardownStates, RunTyped, runVars
  <2>2. WorkTyped'
    BY <1>1 DEF StopAwaitsService, ServiceAfter, WorkTyped
  <2>3. RecoveryTyped' /\ AdmissionTyped'
    BY <1>1 DEF StopAwaitsService, RecoveryTyped, AdmissionTyped, admissionVars
  <2> QED BY <2>1, <2>2, <2>3
<1>2. ASSUME StopFinishes  PROVE Typed'
  <2>1. RunTyped'
    BY <1>2, NavStopsTyped, NothingTyped
       DEF StopFinishes, StopReleases, StopKeepsOwners, RunTyped
  <2>2. RecoveryTyped'
    BY <1>2 DEF StopFinishes, StopReleases, StopKeepsOwners, RecoveryTyped, Settled
  <2>3. WorkTyped' /\ AdmissionTyped'
    BY <1>2 DEF StopFinishes, StopReleases, StopKeepsOwners, WorkTyped,
                AdmissionTyped
  <2> QED BY <2>1, <2>2, <2>3
<1>3. ASSUME ContainmentAwaitsService  PROVE Typed'
  <2>1. RunTyped'
    BY <1>3 DEF ContainmentAwaitsService, Failing, TeardownStates, RunTyped,
                runVars
  <2>2. WorkTyped'
    BY <1>3 DEF ContainmentAwaitsService, ServiceAfter, WorkTyped
  <2>3. RecoveryTyped' /\ AdmissionTyped'
    BY <1>3 DEF ContainmentAwaitsService, RecoveryTyped, AdmissionTyped,
                admissionVars
  <2> QED BY <2>1, <2>2, <2>3
<1>4. ASSUME ContainmentJoins  PROVE Typed'
  <2>1. containing' \in TeardownStates
    <3>1. CASE operation = NoOperation
      BY <1>4, <3>1 DEF ContainmentJoins, RunTyped, TeardownStates
    <3>2. CASE operation # NoOperation
      BY <1>4, <3>2 DEF ContainmentJoins, RunTyped, TeardownStates
    <3> QED BY <3>1, <3>2
  <2> QED BY <1>4, <2>1
          DEF ContainmentJoins, RunTyped, WorkTyped, RecoveryTyped, AdmissionTyped,
              runVars, workVars, admissionVars
<1>5. ASSUME ContainmentSettles  PROVE Typed'
  <2>1. RunTyped'
    BY <1>5, NothingTyped DEF ContainmentSettles, RunTyped, runVars
  <2>2. RecoveryTyped'
    BY <1>5 DEF ContainmentSettles, RecoveryTyped, Halfway
  <2> QED BY <1>5, <2>1, <2>2 DEF ContainmentSettles, WorkTyped, AdmissionTyped,
                                  workVars, admissionVars
<1>6. ASSUME ContainmentFinishes  PROVE Typed'
  <2>1. RunTyped'
    BY <1>6, NavStopsTyped, NothingTyped
       DEF ContainmentFinishes, ContainedOwners, RunTyped
  <2>2. RecoveryTyped'
    BY <1>6 DEF ContainmentFinishes, Verdict, RecoveryTyped, Settled
  <2>3. WorkTyped' /\ AdmissionTyped'
    BY <1>6 DEF ContainmentFinishes, WorkTyped, AdmissionTyped, admissionVars
  <2> QED BY <2>1, <2>2, <2>3
<1> QED BY <1>1, <1>2, <1>3, <1>4, <1>5, <1>6 DEF Teardowns

LEMMA RequestsKeepTypes ==
    ASSUME Typed, Requests  PROVE Typed'
<1> USE DEF Typed
<1> USE DEF workVars, recoveryVars, admissionVars, WorkTyped, RecoveryTyped,
            AdmissionTyped
<1>1. ASSUME Start  PROVE Typed'
  BY <1>1, StartTyped DEF Start
<1>2. ASSUME Recover  PROVE Typed'
  <2>1. RunTyped'
    BY <1>2, StartTyped DEF Recover
  <2>2. RecoveryTyped'
    BY <1>2 DEF Recover, canRecover
  <2> QED BY <1>2, <2>1, <2>2 DEF Recover
<1>3. ASSUME Pause  PROVE Typed'
  BY <1>3 DEF Pause, RunTyped, Intents
<1>4. ASSUME Resume  PROVE Typed'
  <2>1. RunTyped'
    BY <1>4, StartTyped DEF Resume, RunTyped, Intents
  <2> QED BY <1>4, <2>1 DEF Resume
<1>5. ASSUME Stop  PROVE Typed'
  BY <1>5, StopTyped DEF Stop
<1>6. ASSUME Close  PROVE Typed'
  BY <1>6, StopTyped DEF Close
<1>7. ASSUME ExternalNavigation  PROVE Typed'
  <2>1. RunTyped'
    BY <1>7, NavigateTyped DEF ExternalNavigation, RunTyped, runVars
  <2>2. placement' \in [pending : BOOLEAN, available : BOOLEAN]
    BY <1>7 DEF ExternalNavigation
  <2> QED BY <1>7, <2>1, <2>2 DEF ExternalNavigation
<1>8. ASSUME BoundaryNavigation  PROVE Typed'
  <2>1. RunTyped'
    BY <1>8, NavigateTyped DEF BoundaryNavigation
  <2> QED BY <1>8, <2>1 DEF BoundaryNavigation
<1>9. ASSUME StartElsewhere  PROVE Typed'
  <2>1. RunTyped'
    <3>1. PICK visible \in BOOLEAN :
             IF intent # "inactive" \/ run.owned
             THEN beginNavigation(TRUE, visible)
             ELSE \/ visible /\ startRun
                  \/ /\ ~visible
                     /\ intent' = "playing"
                     /\ nav' = [open |-> TRUE, restart |-> TRUE, stopped |-> TRUE,
                                settled |-> FALSE]
                     /\ UNCHANGED <<run, stopping, containing>>
      BY <1>9 DEF StartElsewhere
    <3>2. CASE intent # "inactive" \/ run.owned
      BY <3>1, <3>2, NavigateTyped
    <3>3. CASE ~(intent # "inactive" \/ run.owned)
      <4>1. [open |-> TRUE, restart |-> TRUE, stopped |-> TRUE,
             settled |-> FALSE] \in Navigations
        BY DEF Navigations
      <4> QED BY <3>1, <3>3, <4>1, StartTyped DEF RunTyped, Intents
    <3> QED BY <3>2, <3>3
  <2> QED BY <1>9, <2>1 DEF StartElsewhere
<1>10. ASSUME ReaderPlaces  PROVE Typed'
  <2>1. placement' \in [pending : BOOLEAN, available : BOOLEAN]
    BY <1>10 DEF ReaderPlaces
  <2> QED BY <1>10, <2>1 DEF ReaderPlaces, RunTyped, runVars
<1>11. ASSUME BeginChange  PROVE Typed'
  BY <1>11, StopTyped DEF BeginChange
<1>12. ASSUME ResetAsked  PROVE Typed'
  <2>1. RunTyped'
    BY <1>12, StopActiveTyped DEF ResetAsked, RunTyped
  <2>2. RecoveryTyped' /\ AdmissionTyped'
    BY <1>12, ResetTyped DEF ResetAsked
  <2> QED BY <1>12, <2>1, <2>2 DEF ResetAsked
<1> QED BY <1>1, <1>2, <1>3, <1>4, <1>5, <1>6, <1>7, <1>8, <1>9, <1>10, <1>11,
           <1>12 DEF Requests

LEMMA ContinuationsKeepTypes ==
    ASSUME Typed, Continuations  PROVE Typed'
<1> USE DEF Typed
<1> USE DEF workVars, recoveryVars, admissionVars, WorkTyped, RecoveryTyped,
            AdmissionTyped
<1>1. ASSUME PlacementSettles  PROVE Typed'
  <2>1. RunTyped'
    <3>1. nav \in Navigations => [nav EXCEPT !.settled = TRUE] \in Navigations
      BY DEF Navigations
    <3> QED BY <1>1, <3>1, StopTyped, NothingTyped
            DEF PlacementSettles, RunTyped, Intents
  <2>2. placement' \in [pending : BOOLEAN, available : BOOLEAN]
    <3>1. \/ placement' = [pending |-> FALSE, available |-> TRUE]
          \/ placement' = [pending |-> FALSE, available |-> FALSE]
      BY <1>1 DEF PlacementSettles
    <3> QED BY <3>1, NothingTyped
  <2> QED BY <1>1, <2>1, <2>2 DEF PlacementSettles
<1>2. ASSUME FinishNavigation  PROVE Typed'
  <2>1. RunTyped'
    BY <1>2, StartTyped, NothingTyped DEF FinishNavigation, RunTyped, Intents
  <2> QED BY <1>2, <2>1 DEF FinishNavigation
<1>3. ASSUME Recheck  PROVE Typed'
  BY <1>3 DEF Recheck, ask, RunTyped, runVars
<1>4. ASSUME CheckAnswers  PROVE Typed'
  <2>1. RunTyped'
    BY <1>4, StopTyped DEF CheckAnswers, RunTyped, runVars
  <2> QED BY <1>4, <2>1 DEF CheckAnswers
<1>5. ASSUME CheckFinishes  PROVE Typed'
  BY <1>5 DEF CheckFinishes, RunTyped, runVars
<1>6. ASSUME ChangeIsAdmitted  PROVE Typed'
  BY <1>6 DEF ChangeIsAdmitted, RunTyped, runVars
<1>7. ASSUME ChangeEnds  PROVE Typed'
  BY <1>7 DEF ChangeEnds, ask, RunTyped, runVars
<1>8. ASSUME ResetGoesOn  PROVE Typed'
  <2>1. RunTyped'
    BY <1>8, StopActiveTyped DEF ResetGoesOn, RunTyped
  <2>2. RecoveryTyped' /\ AdmissionTyped'
    BY <1>8, ResetTyped DEF ResetGoesOn
  <2> QED BY <1>8, <2>1, <2>2 DEF ResetGoesOn
<1> QED BY <1>1, <1>2, <1>3, <1>4, <1>5, <1>6, <1>7, <1>8 DEF Continuations

\* Every variable of the coordinator keeps its type, a phase of recovery its
\* action, however long narration goes on.
THEOREM NarrationTyped == Spec => []TypeOK
<1>1. Init => TypeOK
  <2> SUFFICES ASSUME Init  PROVE Typed
    BY TypeParts DEF Typed
  <2>1. RunTyped
    BY NothingTyped DEF Init, RunTyped, Intents
  <2>2. RecoveryTyped
    BY DEF Init, RecoveryTyped, Settled
  <2>3. WorkTyped /\ AdmissionTyped
    BY DEF Init, WorkTyped, AdmissionTyped
  <2> QED BY <2>1, <2>2, <2>3 DEF Typed
<1>2. TypeOK /\ [Next]_vars => TypeOK'
  <2> SUFFICES ASSUME Typed, [Next]_vars  PROVE Typed'
    BY TypeParts DEF Typed
  <2>1. CASE UNCHANGED vars
    BY <2>1 DEF vars, runVars, workVars, recoveryVars, admissionVars, Typed,
                RunTyped, RecoveryTyped, WorkTyped, AdmissionTyped
  <2> QED BY <2>1, WorkKeepsTypes, TeardownsKeepTypes, RequestsKeepTypes,
             ContinuationsKeepTypes DEF Next
<1> QED BY <1>1, <1>2, PTL DEF Spec

-----------------------------------------------------------------------------
(* The inductive invariant *)

\* A teardown holds the run token and keeps the run it takes down, and there is
\* one at a time: #stopActiveRun joins, #fail drops what comes during another.
OneTeardown ==
    /\ stopping = NoTeardown \/ containing = NoTeardown
    /\ stopping # NoTeardown => stopping.current /\ run.owned /\ ~run.current
    /\ containing # NoTeardown => containing.current /\ run.owned /\ ~run.current

\* Whatever is in hand belongs to a run that still has its owners.
OwnersStay ==
    /\ run.current => run.owned
    /\ operation # NoOperation => run.owned
    /\ service # "stopped" => run.owned

\* The recovery is where the run, or the containment of its failure, left it.
RecoveryFollows ==
    /\ run.current => recovery.phase \in {"operational", "recovering"}
    /\ recovery.phase \in Halfway => containing # NoTeardown
    /\ containing # NoTeardown =>
          recovery.phase \in IF containing.recovering THEN {"recovering"}
                             ELSE Halfway

\* A recheck that waits for a containment finds no run, or its failure, at the
\* end of it.
ResetFollows ==
    resetting = "containment" =>
        containing # NoTeardown \/ recovery.phase \in Settled \ {"operational"}

IInv == /\ OneTeardown /\ OwnersStay /\ RecoveryFollows /\ ResetFollows
        /\ ConfigurationIsExclusive

-----------------------------------------------------------------------------
(* What the common handlers do in such a state *)

LEMMA NothingSuperseded == Superseded(NoTeardown) = NoTeardown
<1>1. /\ NoTeardown = [x \in DOMAIN NoTeardown |-> NoTeardown[x]]
      /\ NoTeardown.current = FALSE
  BY DEF NoTeardown
<1> QED BY <1>1 DEF Superseded

\* A run starts when nothing is torn down any more, and nothing is superseded.
LEMMA StartsAlone ==
    ASSUME RunTyped, IInv, ~run.owned, startRun
    PROVE  /\ stopping' = NoTeardown /\ containing' = NoTeardown
           /\ stopping = NoTeardown /\ containing = NoTeardown
           /\ run'.owned /\ run'.current
<1>1. stopping = NoTeardown /\ containing = NoTeardown
  BY DEF IInv, OneTeardown
<1> QED BY <1>1, NothingSuperseded DEF startRun

\* After a stop was asked for no run is current; the owners are still there.
LEMMA StopInvalidates ==
    ASSUME RunTyped, IInv, stopActiveRun
    PROVE  /\ run'.owned = run.owned /\ ~run'.current
           /\ containing' = containing
           /\ \/ UNCHANGED <<run, stopping>>
              \/ /\ stopping = NoTeardown /\ containing = NoTeardown
                 /\ run.owned /\ stopping'.current
<1>1. CASE containing # NoTeardown \/ stopping # NoTeardown
  BY <1>1 DEF stopActiveRun, IInv, OneTeardown, RunTyped, Runs
<1>2. CASE containing = NoTeardown /\ stopping = NoTeardown /\ run.owned
  <2>1. /\ run' = Retired /\ stopping' = Teardown(FALSE)
        /\ containing' = Superseded(NoTeardown)
    BY <1>2 DEF stopActiveRun, performStopActiveRun
  <2>3. Retired.owned = run.owned /\ ~Retired.current /\ Teardown(FALSE).current
    BY DEF Retired, RunTyped, Runs, Teardown
  <2> QED BY <1>2, <2>1, <2>3, NothingSuperseded
<1>3. CASE containing = NoTeardown /\ stopping = NoTeardown /\ ~run.owned
  BY <1>3 DEF stopActiveRun, performStopActiveRun, IInv, OwnersStay
<1> QED BY <1>1, <1>2, <1>3

\* The failure of a current run is never dropped: its containment begins.
LEMMA FailureIsContained ==
    ASSUME RunTyped, RecoveryTyped, IInv, run.current, NEW action, fail(action)
    PROVE  /\ run.owned /\ run'.owned /\ ~run'.current
           /\ stopping' = NoTeardown
           /\ containing' # NoTeardown /\ containing'.current
           /\ intent' = "inactive"
           /\ recovery'.phase \in IF containing'.recovering THEN {"recovering"}
                                  ELSE Halfway
<1>1. /\ stopping = NoTeardown /\ containing = NoTeardown /\ run.owned
      /\ recovery.phase \in {"operational", "recovering"}
  BY DEF IInv, OneTeardown, OwnersStay, RecoveryFollows
<1>3. Retired.owned = run.owned /\ ~Retired.current
  BY DEF Retired, RunTyped, Runs
<1>4. \A r \in BOOLEAN : /\ Teardown(r).current /\ Teardown(r).recovering = r
                         /\ Teardown(r).at # NoTeardown.at
  BY DEF Teardown, NoTeardown
<1>5. CASE recovery.phase = "recovering"
  <2>1. contain(TRUE) /\ UNCHANGED recovery
    BY <1>1, <1>5 DEF fail
  <2> QED BY <1>1, <1>3, <1>4, <1>5, <2>1, NothingSuperseded DEF contain
<1>6. CASE recovery.phase = "operational"
  <2>1. contain(FALSE) /\ recovery' = FailureDetected(action)
    BY <1>1, <1>6 DEF fail
  <2>2. recovery'.phase = "containing-service"
    BY <2>1 DEF FailureDetected, RecoveryTyped
  <2> QED BY <1>1, <1>3, <1>4, <2>1, <2>2, NothingSuperseded
          DEF contain, Halfway
<1> QED BY <1>1, <1>5, <1>6

-----------------------------------------------------------------------------
(* Every step keeps the invariant *)

\* What is left alone by whoever leaves the run and its teardowns alone.
LEMMA RestingHolds ==
    ASSUME IInv, UNCHANGED <<run, stopping, containing, recovery, resetting>>,
           operation' # NoOperation => run.owned,
           service' # "stopped" => run.owned,
           change' = "applying" => change = "applying" /\ service' = service
    PROVE  IInv'
BY DEF IInv, OneTeardown, OwnersStay, RecoveryFollows, ResetFollows,
       ConfigurationIsExclusive

\* A stop, wherever it is asked for.
LEMMA StopHolds ==
    ASSUME RunTyped, IInv, stopActiveRun,
           operation' # NoOperation => operation # NoOperation,
           service' \in {service, "failed"},
           service' # service => operation # NoOperation,
           UNCHANGED <<recovery, resetting>>,
           change' = "applying" => change = "applying"
    PROVE  IInv'
<1>1. /\ run'.owned = run.owned /\ ~run'.current
      /\ containing' = containing
      /\ \/ UNCHANGED <<run, stopping>>
         \/ /\ stopping = NoTeardown /\ containing = NoTeardown
            /\ run.owned /\ stopping'.current
  BY StopInvalidates
<1>2. OneTeardown'
  BY <1>1 DEF IInv, OneTeardown
<1>3. OwnersStay'
  BY <1>1 DEF IInv, OwnersStay
<1>4. RecoveryFollows' /\ ResetFollows'
  BY <1>1 DEF IInv, RecoveryFollows, ResetFollows
<1>5. ConfigurationIsExclusive'
  BY <1>1 DEF IInv, OwnersStay, ConfigurationIsExclusive
<1> QED BY <1>2, <1>3, <1>4, <1>5 DEF IInv

\* A start, wherever it is asked for; not while a recheck waits for its turn.
LEMMA StartHolds ==
    ASSUME RunTyped, IInv, ~run.owned, startRun,
           UNCHANGED <<service, resetting, change>>, change = "none",
           recovery'.phase \in {"operational", "recovering"},
           resetting # "containment"
    PROVE  IInv'
<1>1. /\ stopping' = NoTeardown /\ containing' = NoTeardown
      /\ run'.owned /\ run'.current
  BY StartsAlone
<1>2. OneTeardown' /\ OwnersStay'
  BY <1>1 DEF OneTeardown, OwnersStay
<1>3. RecoveryFollows'
  BY <1>1 DEF RecoveryFollows, Halfway
<1>4. ResetFollows' /\ ConfigurationIsExclusive'
  BY DEF ResetFollows, ConfigurationIsExclusive
<1> QED BY <1>2, <1>3, <1>4 DEF IInv

\* The failure of a current run.
LEMMA FailHolds ==
    ASSUME RunTyped, RecoveryTyped, IInv, run.current, NEW action, fail(action),
           UNCHANGED <<resetting, change>>
    PROVE  IInv'
<1>1. /\ run.owned /\ run'.owned /\ ~run'.current
      /\ stopping' = NoTeardown
      /\ containing' # NoTeardown /\ containing'.current
      /\ recovery'.phase \in IF containing'.recovering THEN {"recovering"}
                             ELSE Halfway
  BY FailureIsContained
<1>2. OneTeardown' /\ OwnersStay' /\ RecoveryFollows' /\ ResetFollows'
  BY <1>1 DEF OneTeardown, OwnersStay, RecoveryFollows, ResetFollows
<1>3. ConfigurationIsExclusive'
  BY <1>1 DEF IInv, ConfigurationIsExclusive
<1> QED BY <1>2, <1>3 DEF IInv

\* A recheck that resets the episode finds no owner and nothing at work.
LEMMA ResetHolds ==
    ASSUME IInv, resetEpisode, resetting' = "none",
           UNCHANGED <<run, stopping, containing, operation, service, change>>,
           containing = NoTeardown
    PROVE  IInv'
<1>1. recovery'.phase \notin Halfway
  <2>1. CASE recovery.phase \in Settled
    BY <2>1 DEF resetEpisode, Halfway
  <2>2. CASE recovery.phase \notin Settled
    BY <2>2 DEF resetEpisode, IInv, RecoveryFollows
  <2> QED BY <2>1, <2>2
<1>2. run.current => recovery'.phase \in {"operational", "recovering"}
  <2>1. CASE recovery.phase \in Settled
    BY <2>1 DEF resetEpisode
  <2>2. CASE recovery.phase \notin Settled
    BY <2>2 DEF resetEpisode, IInv, RecoveryFollows
  <2> QED BY <2>1, <2>2
<1>3. RecoveryFollows' /\ ResetFollows'
  BY <1>1, <1>2 DEF RecoveryFollows, ResetFollows
<1>4. OneTeardown' /\ OwnersStay' /\ ConfigurationIsExclusive'
  BY DEF IInv, OneTeardown, OwnersStay, ConfigurationIsExclusive
<1> QED BY <1>3, <1>4 DEF IInv

LEMMA WorkHolds ==
    ASSUME Typed, IInv, Work  PROVE IInv'
<1> USE DEF Typed
<1>0. /\ run.current => run.owned /\ change # "applying"
      /\ operation # NoOperation => run.owned
      /\ service # "stopped" => run.owned
      /\ change = "applying" => operation = NoOperation
  BY DEF IInv, OwnersStay, ConfigurationIsExclusive
<1>1. ASSUME Pump  PROVE IInv'
  BY <1>0, <1>1, RestingHolds DEF Pump, runVars, recoveryVars, admissionVars
<1>2. ASSUME PreflightAnswers  PROVE IInv'
  <2>1. ASSUME NEW own \in BOOLEAN, PreflightAdmits(own)  PROVE IInv'
    BY <1>0, <2>1, RestingHolds
       DEF PreflightAdmits, isCurrent, runVars, recoveryVars, admissionVars
  <2>2. ASSUME NEW own \in BOOLEAN, PreflightRefuses(own)  PROVE IInv'
    BY <2>2, FailHolds DEF PreflightRefuses, isCurrent
  <2>3. ASSUME NEW own \in BOOLEAN, PreflightIsStale(own)  PROVE IInv'
    BY <1>0, <2>3, RestingHolds
       DEF PreflightIsStale, runVars, recoveryVars, admissionVars
  <2> QED BY <1>2, <2>1, <2>2, <2>3 DEF PreflightAnswers
<1>3. ASSUME CallSucceeds  PROVE IInv'
  <2>0. operation # NoOperation /\ operation' = NoOperation
    BY <1>3 DEF CallSucceeds, NoOperation
  <2>1. CASE Unheard
    BY <1>0, <1>3, <2>0, <2>1, RestingHolds
       DEF CallSucceeds, runVars, recoveryVars, admissionVars
  <2>2. CASE ~Unheard
    <3>1. /\ run'.owned = run.owned /\ run'.current = run.current
          /\ run.current /\ run.owned /\ change' = change /\ resetting' = resetting
          /\ UNCHANGED <<stopping, containing>>
      BY <1>0, <1>3, <2>2 DEF CallSucceeds, Unheard, admissionVars, RunTyped, Runs
    <3>2. recovery'.phase \in {recovery.phase, "operational"}
      BY <1>3, <2>2 DEF CallSucceeds, RecoveryTyped
    <3>3. containing = NoTeardown /\ recovery'.phase \in {"operational", "recovering"}
      BY <3>1, <3>2 DEF IInv, OneTeardown, RecoveryFollows
    <3>4. OneTeardown' /\ OwnersStay'
      BY <3>1 DEF IInv, OneTeardown, OwnersStay
    <3>5. RecoveryFollows' /\ ResetFollows'
      BY <3>1, <3>3
         DEF IInv, RecoveryFollows, ResetFollows, Halfway, Settled, OneTeardown
    <3>6. ConfigurationIsExclusive'
      BY <1>0, <3>1 DEF ConfigurationIsExclusive
    <3> QED BY <3>4, <3>5, <3>6 DEF IInv
  <2> QED BY <2>1, <2>2
<1>4. ASSUME CallFails  PROVE IInv'
  <2>0. /\ operation # NoOperation /\ operation' = NoOperation
        /\ service' \in {service, "failed"}
        /\ UNCHANGED <<change, resetting>>
    BY <1>4 DEF CallFails, NoOperation, admissionVars
  <2>1. ASSUME UNCHANGED <<runVars, recoveryVars>>  PROVE IInv'
    BY <1>0, <2>0, <2>1, RestingHolds DEF runVars, recoveryVars
  <2>2. ASSUME stop, UNCHANGED recovery  PROVE IInv'
    BY <2>0, <2>2, StopHolds DEF stop
  <2>3. ASSUME ~Unheard, NEW action, fail(action)  PROVE IInv'
    BY <2>0, <2>3, FailHolds DEF Unheard
  <2> QED BY <1>4, <2>1, <2>2, <2>3 DEF CallFails
<1>5. ASSUME UnitIsRefused \/ DeviceFails \/ AudioRunsOut \/ BookEnds  PROVE IInv'
  <2>1. /\ run'.owned = run.owned /\ run'.current = run.current
        /\ operation' # NoOperation => operation # NoOperation
        /\ service' # "stopped" => service # "stopped" \/ operation # NoOperation
        /\ UNCHANGED <<change, resetting, stopping, containing, recovery>>
    <3>1. ASSUME UnitIsRefused  PROVE operation # NoOperation
      BY <3>1 DEF UnitIsRefused, NoOperation
    <3> QED BY <1>5, <3>1
            DEF UnitIsRefused, DeviceFails, AudioRunsOut, BookEnds, PlayerAt,
                RunTyped, Runs, workVars, recoveryVars, admissionVars
  <2>2. OneTeardown' /\ OwnersStay'
    BY <1>0, <2>1 DEF IInv, OneTeardown, OwnersStay
  <2>3. RecoveryFollows' /\ ResetFollows'
    BY <2>1 DEF IInv, RecoveryFollows, ResetFollows
  <2>4. ConfigurationIsExclusive'
    BY <1>0, <2>1 DEF IInv, ConfigurationIsExclusive
  <2> QED BY <2>2, <2>3, <2>4 DEF IInv
<1>6. ASSUME Tick  PROVE IInv'
  <2>1. UNCHANGED <<operation, service, change, resetting>>
    BY <1>6 DEF Tick, workVars, admissionVars
  <2>2. CASE fail("restart")
    BY <1>6, <2>1, <2>2, FailHolds DEF Tick
  <2>3. CASE UNCHANGED <<run, recoveryVars>>
    BY <1>0, <2>1, <2>3, RestingHolds DEF recoveryVars
  <2> QED BY <1>6, <2>2, <2>3 DEF Tick
<1> QED BY <1>1, <1>2, <1>3, <1>4, <1>5, <1>6 DEF Work

LEMMA TeardownsHold ==
    ASSUME Typed, IInv, Teardowns  PROVE IInv'
<1> USE DEF Typed
<1>0. /\ stopping # NoTeardown => containing = NoTeardown /\ ~run.current
      /\ containing # NoTeardown => stopping = NoTeardown /\ ~run.current
      /\ containing # NoTeardown => containing.current /\ run.owned
      /\ stopping # NoTeardown => stopping.current /\ run.owned
      /\ NoTeardown.at = "none" /\ ~NoRun.current /\ ~NoRun.owned
  BY DEF IInv, OneTeardown, NoTeardown, NoRun
<1>1. ASSUME StopAwaitsService  PROVE IInv'
  <2>1. stopping # NoTeardown /\ stopping'.at # "none"
        /\ stopping'.current = stopping.current
    BY <1>0, <1>1 DEF StopAwaitsService, Failing, RunTyped, TeardownStates
  <2>2. /\ service' \in {service, "stopped"}
        /\ UNCHANGED <<run, operation, containing, recovery, resetting, change>>
    BY <1>1 DEF StopAwaitsService, ServiceAfter, runVars, admissionVars
  <2>3. OneTeardown' /\ OwnersStay'
    BY <1>0, <2>1, <2>2 DEF IInv, OneTeardown, OwnersStay
  <2>4. RecoveryFollows' /\ ResetFollows' /\ ConfigurationIsExclusive'
    BY <2>2 DEF IInv, RecoveryFollows, ResetFollows, ConfigurationIsExclusive
  <2> QED BY <2>3, <2>4 DEF IInv
<1>2. ASSUME StopFinishes  PROVE IInv'
  <2>1. /\ stopping # NoTeardown /\ stopping' = NoTeardown
        /\ containing = NoTeardown /\ containing' = NoTeardown
        /\ operation' = NoOperation
        /\ UNCHANGED <<service, resetting, change>>
    BY <1>0, <1>2 DEF StopFinishes
  <2>2. \/ /\ run' = NoRun /\ service = "stopped"
           /\ recovery'.phase \in IF recovery.phase = "recovering"
                                  THEN {"operational"} ELSE {recovery.phase}
        \/ /\ UNCHANGED run
           /\ recovery'.phase \in
                IF recovery.phase \in {"operational", "recovering"}
                THEN {"contained", "unavailable"} ELSE {recovery.phase}
    BY <1>0, <1>2, <2>1 DEF StopFinishes, StopReleases, StopVerified,
                            StopKeepsOwners, RecoveryTyped
  <2>3. OneTeardown' /\ OwnersStay' /\ ~run'.current
    BY <1>0, <2>1, <2>2 DEF IInv, OneTeardown, OwnersStay
  <2>4. RecoveryFollows'
    BY <2>1, <2>2, <2>3 DEF IInv, RecoveryFollows, Halfway
  <2>5. ResetFollows'
    BY <2>1, <2>2 DEF IInv, ResetFollows, Settled
  <2>6. ConfigurationIsExclusive'
    BY <1>0, <2>1 DEF IInv, ConfigurationIsExclusive
  <2> QED BY <2>3, <2>4, <2>5, <2>6 DEF IInv
<1>3. ASSUME ContainmentAwaitsService  PROVE IInv'
  <2>1. /\ containing # NoTeardown /\ containing'.at # "none"
        /\ containing'.current = containing.current
        /\ containing'.recovering = containing.recovering
    BY <1>0, <1>3 DEF ContainmentAwaitsService, Failing, RunTyped, TeardownStates
  <2>2. /\ service' \in {service, "stopped"}
        /\ UNCHANGED <<run, operation, stopping, recovery, resetting, change>>
    BY <1>3 DEF ContainmentAwaitsService, ServiceAfter, runVars, admissionVars
  <2>3. OneTeardown' /\ OwnersStay'
    BY <1>0, <2>1, <2>2 DEF IInv, OneTeardown, OwnersStay
  <2>4. RecoveryFollows' /\ ResetFollows' /\ ConfigurationIsExclusive'
    BY <1>0, <2>1, <2>2
       DEF IInv, RecoveryFollows, ResetFollows, ConfigurationIsExclusive
  <2> QED BY <2>3, <2>4 DEF IInv
<1>4. ASSUME ContainmentJoins  PROVE IInv'
  <2>1. /\ containing # NoTeardown /\ containing'.at # "none"
        /\ containing'.current = containing.current
        /\ containing'.recovering = containing.recovering
    <3>1. containing # NoTeardown
      BY <1>0, <1>4 DEF ContainmentJoins
    <3>2. CASE operation = NoOperation
      BY <1>4, <3>1, <3>2 DEF ContainmentJoins, RunTyped, TeardownStates
    <3>3. CASE operation # NoOperation
      BY <1>4, <3>1, <3>3 DEF ContainmentJoins, RunTyped, TeardownStates
    <3> QED BY <3>2, <3>3
  <2>2. UNCHANGED <<run, operation, service, stopping, recovery, resetting, change>>
    BY <1>4 DEF ContainmentJoins, runVars, workVars, admissionVars
  <2>3. OneTeardown' /\ OwnersStay'
    BY <1>0, <2>1, <2>2 DEF IInv, OneTeardown, OwnersStay
  <2>4. RecoveryFollows' /\ ResetFollows' /\ ConfigurationIsExclusive'
    BY <1>0, <2>1, <2>2
       DEF IInv, RecoveryFollows, ResetFollows, ConfigurationIsExclusive
  <2> QED BY <2>3, <2>4 DEF IInv
<1>5. ASSUME ContainmentSettles  PROVE IInv'
  <2>1. /\ containing # NoTeardown /\ ~containing.recovering
        /\ recovery'.phase = "verifying-cleanup"
        /\ UNCHANGED <<run, operation, service, stopping, containing, resetting,
                       change>>
    BY <1>0, <1>5 DEF ContainmentSettles, RecoveryTyped, runVars, workVars,
                      admissionVars
  <2>2. OneTeardown' /\ OwnersStay' /\ ConfigurationIsExclusive'
    BY <2>1 DEF IInv, OneTeardown, OwnersStay, ConfigurationIsExclusive
  <2>3. RecoveryFollows' /\ ResetFollows'
    BY <1>0, <2>1 DEF RecoveryFollows, ResetFollows, Halfway
  <2> QED BY <2>2, <2>3 DEF IInv
<1>6. ASSUME ContainmentFinishes  PROVE IInv'
  <2>1. /\ containing # NoTeardown /\ containing' = NoTeardown
        /\ stopping' = NoTeardown /\ operation' = NoOperation
        /\ UNCHANGED <<service, resetting, change>>
    BY <1>0, <1>6 DEF ContainmentFinishes, admissionVars
  <2>2. /\ (run' = NoRun /\ service = "stopped") \/ UNCHANGED run
        /\ recovery'.phase \in {"unavailable", "contained", "recovery-available"}
    BY <1>6 DEF ContainmentFinishes, ContainedOwners, Verdict, RecoveryTyped
  <2>3. OneTeardown' /\ OwnersStay' /\ ~run'.current
    BY <1>0, <2>1, <2>2 DEF IInv, OneTeardown, OwnersStay
  <2>4. RecoveryFollows' /\ ResetFollows'
    BY <2>1, <2>2, <2>3 DEF RecoveryFollows, ResetFollows, Halfway, Settled
  <2>5. ConfigurationIsExclusive'
    BY <1>0, <2>1 DEF IInv, ConfigurationIsExclusive
  <2> QED BY <2>3, <2>4, <2>5 DEF IInv
<1> QED BY <1>1, <1>2, <1>3, <1>4, <1>5, <1>6 DEF Teardowns

\* The service and the work in hand are left to whoever is at them.
LEMMA NavigateHolds ==
    ASSUME RunTyped, IInv, NEW force, NEW settled, beginNavigation(force, settled),
           UNCHANGED <<operation, service, recovery, resetting, change>>
    PROVE  IInv'
<1>1. CASE nav.open
  <2>1. UNCHANGED <<run, stopping, containing>>
    BY <1>1 DEF beginNavigation
  <2> QED BY <2>1, RestingHolds DEF IInv, OwnersStay
<1>2. CASE ~nav.open
  BY <1>2, StopHolds DEF beginNavigation
<1> QED BY <1>1, <1>2

\* Nothing that starts a run is let in before a recheck that is due.
LEMMA NoResetWaits ==
    ASSUME IInv, ~run.owned, Listening
    PROVE  resetting # "containment"
BY DEF IInv, OneTeardown, Listening, Arriving, ResetIsDue

LEMMA RequestsHold ==
    ASSUME Typed, IInv, Requests  PROVE IInv'
<1> USE DEF Typed
<1>0. /\ operation # NoOperation => run.owned
      /\ service # "stopped" => run.owned
  BY DEF IInv, OwnersStay
<1>1. ASSUME Start  PROVE IInv'
  BY <1>1, StartHolds, NoResetWaits
     DEF Start, Admitted, workVars, admissionVars
<1>2. ASSUME Recover  PROVE IInv'
  <2>1. recovery'.phase = "recovering"
    BY <1>2 DEF Recover, RecoveryTyped
  <2> QED BY <1>2, <2>1, StartHolds, NoResetWaits
          DEF Recover, Admitted, workVars, admissionVars
<1>3. ASSUME Pause  PROVE IInv'
  BY <1>0, <1>3, RestingHolds DEF Pause, workVars, recoveryVars, admissionVars
<1>4. ASSUME Resume  PROVE IInv'
  <2>1. UNCHANGED <<operation, service, change, resetting>>
    BY <1>4 DEF Resume, workVars, admissionVars
  <2>2. CASE UNCHANGED <<run, nav, recoveryVars>>
    BY <1>0, <2>1, <2>2, RestingHolds DEF recoveryVars
  <2>3. CASE ~run.owned /\ startRun /\ UNCHANGED recovery
    BY <1>4, <2>1, <2>3, StartHolds, NoResetWaits DEF Resume
  <2> QED BY <1>4, <2>2, <2>3 DEF Resume
<1>5. ASSUME Stop  PROVE IInv'
  BY <1>5, StopHolds DEF Stop, stop, workVars, admissionVars
<1>6. ASSUME Close  PROVE IInv'
  BY <1>6, StopHolds DEF Close, stop, workVars
<1>7. ASSUME ExternalNavigation  PROVE IInv'
  <2>1. UNCHANGED <<operation, service, recovery, resetting, change>>
    BY <1>7 DEF ExternalNavigation, workVars
  <2>2. CASE intent = "inactive"
    BY <1>0, <1>7, <2>1, <2>2, RestingHolds DEF ExternalNavigation, runVars
  <2>3. CASE intent # "inactive"
    BY <1>7, <2>1, <2>3, NavigateHolds DEF ExternalNavigation
  <2> QED BY <2>2, <2>3
<1>8. ASSUME BoundaryNavigation  PROVE IInv'
  BY <1>8, NavigateHolds DEF BoundaryNavigation, workVars, admissionVars
<1>9. ASSUME StartElsewhere  PROVE IInv'
  <2>1. /\ UNCHANGED <<operation, service, recovery, resetting, change>>
        /\ change = "none" /\ recovery.phase = "operational"
    BY <1>9 DEF StartElsewhere, Admitted, workVars, admissionVars
  <2>2. ASSUME NEW visible, beginNavigation(TRUE, visible)  PROVE IInv'
    BY <2>1, <2>2, NavigateHolds
  <2>3. ASSUME ~run.owned, startRun  PROVE IInv'
    BY <1>9, <2>1, <2>3, StartHolds, NoResetWaits DEF StartElsewhere
  <2>4. ASSUME UNCHANGED <<run, stopping, containing>>  PROVE IInv'
    BY <1>0, <2>1, <2>4, RestingHolds
  <2> QED BY <1>9, <2>2, <2>3, <2>4 DEF StartElsewhere
<1>10. ASSUME ReaderPlaces  PROVE IInv'
  BY <1>0, <1>10, RestingHolds DEF ReaderPlaces, runVars, workVars, recoveryVars
<1>11. ASSUME BeginChange  PROVE IInv'
  BY <1>11, StopHolds DEF BeginChange, stop, workVars
<1>12. ASSUME ResetAsked  PROVE IInv'
  <2>0. UNCHANGED <<operation, service, change>>
    BY <1>12 DEF ResetAsked, workVars
  <2>1. CASE containing # NoTeardown
    <3>1. UNCHANGED <<run, stopping, containing, recovery>>
      BY <1>12, <2>1 DEF ResetAsked
    <3>2. OneTeardown' /\ OwnersStay' /\ RecoveryFollows'
      BY <2>0, <3>1 DEF IInv, OneTeardown, OwnersStay, RecoveryFollows
    <3>3. ResetFollows' /\ ConfigurationIsExclusive'
      BY <2>0, <2>1, <3>1 DEF IInv, ResetFollows, ConfigurationIsExclusive
    <3> QED BY <3>2, <3>3 DEF IInv
  <2>2. CASE containing = NoTeardown /\ resetting' = "stop" /\ stopActiveRun
                /\ UNCHANGED recovery
    <3>1. /\ run'.owned = run.owned /\ ~run'.current
          /\ containing' = containing
          /\ \/ UNCHANGED <<run, stopping>>
             \/ /\ stopping = NoTeardown /\ containing = NoTeardown
                /\ run.owned /\ stopping'.current
      BY <2>2, StopInvalidates
    <3>2. OneTeardown' /\ OwnersStay'
      BY <2>0, <3>1 DEF IInv, OneTeardown, OwnersStay
    <3>3. RecoveryFollows' /\ ResetFollows'
      BY <2>2, <3>1 DEF IInv, RecoveryFollows, ResetFollows
    <3>4. ConfigurationIsExclusive'
      BY <2>0, <3>1 DEF IInv, ConfigurationIsExclusive
    <3> QED BY <3>2, <3>3, <3>4 DEF IInv
  <2>3. CASE containing = NoTeardown /\ resetEpisode /\ resetting = "none"
                /\ UNCHANGED <<run, stopping, containing, resetting>>
    BY <2>0, <2>3, ResetHolds
  <2> QED BY <1>12, <2>1, <2>2, <2>3 DEF ResetAsked
<1> QED BY <1>1, <1>2, <1>3, <1>4, <1>5, <1>6, <1>7, <1>8, <1>9, <1>10, <1>11,
           <1>12 DEF Requests

LEMMA ContinuationsHold ==
    ASSUME Typed, IInv, Continuations  PROVE IInv'
<1> USE DEF Typed
<1>0. /\ operation # NoOperation => run.owned
      /\ service # "stopped" => run.owned
  BY DEF IInv, OwnersStay
<1>1. ASSUME PlacementSettles  PROVE IInv'
  <2>1. UNCHANGED <<operation, service, recovery, resetting, change>>
    BY <1>1 DEF PlacementSettles, workVars
  <2>2. ASSUME stop  PROVE IInv'
    BY <2>1, <2>2, StopHolds DEF stop
  <2>3. ASSUME UNCHANGED <<run, stopping, containing>>  PROVE IInv'
    BY <1>0, <2>1, <2>3, RestingHolds
  <2> QED BY <1>1, <2>2, <2>3 DEF PlacementSettles
<1>2. ASSUME FinishNavigation  PROVE IInv'
  <2>1. UNCHANGED <<operation, service, recovery, resetting, change>>
    BY <1>2 DEF FinishNavigation, workVars, admissionVars
  <2>2. ASSUME Restarts, startRun  PROVE IInv'
    <3>1. /\ ~run.owned /\ change = "none" /\ recovery.phase = "operational"
      BY <2>2 DEF Restarts, Admitted
    <3>2. resetting # "containment"
      BY <3>1 DEF IInv, OneTeardown, ResetFollows
    <3> QED BY <2>1, <2>2, <3>1, <3>2, StartHolds
  <2>3. ASSUME UNCHANGED <<run, stopping, containing>>  PROVE IInv'
    BY <1>0, <2>1, <2>3, RestingHolds
  <2> QED BY <1>2, <2>2, <2>3 DEF FinishNavigation
<1>3. ASSUME Recheck  PROVE IInv'
  BY <1>0, <1>3, RestingHolds DEF Recheck, runVars, workVars, recoveryVars
<1>4. ASSUME CheckAnswers  PROVE IInv'
  <2>1. UNCHANGED <<operation, service, recovery, resetting, change>>
    BY <1>4 DEF CheckAnswers, workVars
  <2>2. ASSUME stop  PROVE IInv'
    BY <2>1, <2>2, StopHolds DEF stop
  <2>3. ASSUME UNCHANGED <<runVars, stopping, containing>>  PROVE IInv'
    BY <1>0, <2>1, <2>3, RestingHolds DEF runVars
  <2> QED BY <1>4, <2>2, <2>3 DEF CheckAnswers
<1>5. ASSUME CheckFinishes  PROVE IInv'
  BY <1>0, <1>5, RestingHolds DEF CheckFinishes, runVars, workVars, recoveryVars
<1>6. ASSUME ChangeIsAdmitted  PROVE IInv'
  <2>1. UNCHANGED <<run, operation, service, stopping, containing, recovery,
                    resetting>>
    BY <1>6 DEF ChangeIsAdmitted, runVars, workVars, recoveryVars
  <2>2. ConfigurationIsExclusive'
    BY <1>6, <2>1 DEF ChangeIsAdmitted, ContainedForChange, IInv, OwnersStay,
                      ConfigurationIsExclusive
  <2> QED BY <2>1, <2>2 DEF IInv, OneTeardown, OwnersStay, RecoveryFollows,
                            ResetFollows
<1>7. ASSUME ChangeEnds  PROVE IInv'
  BY <1>0, <1>7, RestingHolds DEF ChangeEnds, runVars, workVars, recoveryVars
<1>8. ASSUME ResetGoesOn  PROVE IInv'
  <2>0. /\ UNCHANGED <<operation, service, change>> /\ containing = NoTeardown
    BY <1>8 DEF ResetGoesOn, ResetIsDue, workVars
  <2>1. CASE resetting' = "stop" /\ stopActiveRun /\ UNCHANGED recovery
    <3>1. /\ run'.owned = run.owned /\ ~run'.current
          /\ containing' = containing
          /\ \/ UNCHANGED <<run, stopping>>
             \/ /\ stopping = NoTeardown /\ containing = NoTeardown
                /\ run.owned /\ stopping'.current
      BY <2>1, StopInvalidates
    <3>2. OneTeardown' /\ OwnersStay'
      BY <2>0, <3>1 DEF IInv, OneTeardown, OwnersStay
    <3>3. RecoveryFollows' /\ ResetFollows'
      BY <2>1, <3>1 DEF IInv, RecoveryFollows, ResetFollows
    <3>4. ConfigurationIsExclusive'
      BY <2>0, <3>1 DEF IInv, ConfigurationIsExclusive
    <3> QED BY <3>2, <3>3, <3>4 DEF IInv
  <2>2. CASE resetting' = "none" /\ UNCHANGED <<run, recoveryVars>>
    <3>1. OneTeardown' /\ OwnersStay' /\ RecoveryFollows'
      BY <2>0, <2>2 DEF recoveryVars, IInv, OneTeardown, OwnersStay, RecoveryFollows
    <3>2. ResetFollows' /\ ConfigurationIsExclusive'
      BY <2>0, <2>2 DEF IInv, ResetFollows, ConfigurationIsExclusive
    <3> QED BY <3>1, <3>2 DEF IInv
  <2>3. CASE resetting' = "none" /\ resetEpisode
                /\ UNCHANGED <<run, stopping, containing>>
    BY <2>0, <2>3, ResetHolds
  <2> QED BY <1>8, <2>1, <2>2, <2>3 DEF ResetGoesOn
<1> QED BY <1>1, <1>2, <1>3, <1>4, <1>5, <1>6, <1>7, <1>8 DEF Continuations

LEMMA NextHolds ==
    ASSUME Typed, IInv, [Next]_vars  PROVE IInv'
<1>1. CASE UNCHANGED vars
  BY <1>1 DEF vars, runVars, workVars, recoveryVars, admissionVars, IInv,
              OneTeardown, OwnersStay, RecoveryFollows, ResetFollows,
              ConfigurationIsExclusive
<1> QED BY <1>1, WorkHolds, TeardownsHold, RequestsHold, ContinuationsHold
        DEF Next

LEMMA Invariance == Spec => [](TypeOK /\ IInv)
<1>1. Init => IInv
  BY DEF Init, IInv, OneTeardown, OwnersStay, RecoveryFollows, ResetFollows,
         ConfigurationIsExclusive, NoRun, Halfway
<1>2. TypeOK /\ IInv /\ [Next]_vars => IInv'
  BY NextHolds, TypeParts DEF Typed
<1> QED BY <1>1, <1>2, NarrationTyped, PTL DEF Spec

\* However failures, stops, navigations, rechecks and changes of the settings
\* overtake each other: a recovery under way has its containment, a current run
\* has owners and would have its failure contained, the service has an owner
\* that will see it stopped, and another configuration is written only when
\* nothing of the old one is left.
THEOREM RunAlwaysLookedAfter == Spec => []RunIsLookedAfter
<1>1. IInv => RunIsLookedAfter
  BY DEF IInv, OneTeardown, OwnersStay, RecoveryFollows, RunIsLookedAfter,
         FailuresAreWatched, RecoveryNeverStalls, LiveRunIsWatched,
         ServiceIsOwned, ServiceHasOwner, ConfigurationIsExclusive
<1> QED BY <1>1, Invariance, PTL

-----------------------------------------------------------------------------
(* What the listener is told *)

\* One step of RecoveryIsOnce, and one of IntentIsTruthful.
OnceStep ==
    recovery.spent /\ recovery'.phase = "recovering" =>
        recovery.phase = "recovering"

TruthStep ==
    (/\ intent' = "playing" /\ ~run'.current /\ ~nav'.open
     /\ run.current \/ nav.open \/ intent # "playing")
        => recovery.phase = "recovering" /\ resetting' = "stop"

\* Only a recovery that was not spent begins to recover.
LEMMA RecoversOnce ==
    ASSUME Typed, IInv, [Next]_vars  PROVE OnceStep
<1> USE DEF Typed
<1>1. ASSUME NEW action, fail(action)  PROVE OnceStep
  BY <1>1 DEF fail, FailureDetected, recoveryVars, RecoveryTyped, OnceStep
<1>2. ASSUME UNCHANGED recovery \/ UNCHANGED recoveryVars  PROVE OnceStep
  BY <1>2 DEF recoveryVars, OnceStep
<1>3. ASSUME Work  PROVE OnceStep
  <2>1. ASSUME PreflightAnswers  PROVE OnceStep
    BY <1>1, <1>2, <2>1 DEF PreflightAnswers, PreflightAdmits, PreflightRefuses,
                            PreflightIsStale
  <2>2. ASSUME CallSucceeds  PROVE OnceStep
    BY <2>2 DEF CallSucceeds, recoveryVars, RecoveryTyped, OnceStep
  <2>3. ASSUME CallFails \/ Tick  PROVE OnceStep
    BY <1>1, <1>2, <2>3 DEF CallFails, Tick
  <2> QED BY <1>2, <1>3, <2>1, <2>2, <2>3
          DEF Work, Pump, UnitIsRefused, DeviceFails, AudioRunsOut, BookEnds,
              PlayerAt
<1>4. ASSUME Teardowns  PROVE OnceStep
  <2>1. ASSUME StopFinishes  PROVE OnceStep
    BY <2>1 DEF StopFinishes, StopReleases, StopKeepsOwners, RecoveryTyped, OnceStep
  <2>2. ASSUME ContainmentSettles \/ ContainmentFinishes  PROVE OnceStep
    BY <2>2 DEF ContainmentSettles, ContainmentFinishes, Verdict, RecoveryTyped,
                OnceStep
  <2> QED BY <1>2, <1>4, <2>1, <2>2
          DEF Teardowns, StopAwaitsService, ContainmentAwaitsService,
              ContainmentJoins
<1>5. ASSUME resetEpisode  PROVE OnceStep
  <2>1. CASE recovery.phase \in Settled
    BY <1>5, <2>1 DEF resetEpisode, OnceStep
  <2>2. CASE recovery.phase \notin Settled
    BY <1>2, <1>5, <2>2 DEF resetEpisode
  <2> QED BY <2>1, <2>2
<1>6. ASSUME Requests  PROVE OnceStep
  <2>1. ASSUME Recover  PROVE OnceStep
    BY <2>1 DEF Recover, canRecover, OnceStep
  <2> QED BY <1>2, <1>5, <1>6, <2>1
          DEF Requests, Start, Pause, Resume, Stop, Close, ExternalNavigation,
              BoundaryNavigation, StartElsewhere, ReaderPlaces, BeginChange,
              ResetAsked
<1>7. ASSUME Continuations  PROVE OnceStep
  BY <1>2, <1>5, <1>7
     DEF Continuations, PlacementSettles, FinishNavigation, Recheck, CheckAnswers,
         CheckFinishes, ChangeIsAdmitted, ChangeEnds, ResetGoesOn
<1>8. CASE UNCHANGED vars
  BY <1>2, <1>8 DEF vars
<1> QED BY <1>3, <1>4, <1>6, <1>7, <1>8 DEF Next

\* Who ends the intent, starts a run or opens a navigation misleads nobody, nor
\* does who leaves the intent and takes no run away.
LEMMA Truthful ==
    ASSUME \/ intent' # "playing" \/ run'.current \/ nav'.open
           \/ /\ intent' = intent /\ nav'.open = nav.open
              /\ run.current => run'.current
    PROVE  TruthStep
BY DEF TruthStep

\* Only a stop for a recheck takes a run away and leaves the intent, and only
\* while a recovery starts.
LEMMA TellsTheTruth ==
    ASSUME Typed, IInv, [Next]_vars  PROVE TruthStep
<1> USE DEF Typed
<1>1. ASSUME UNCHANGED runVars  PROVE TruthStep
  BY <1>1, Truthful DEF runVars
<1>2. ASSUME stop  PROVE TruthStep
  BY <1>2, Truthful DEF stop
<1>3. ASSUME run.current, NEW action, fail(action)  PROVE TruthStep
  BY <1>3, FailureIsContained, Truthful
<1>4. ASSUME startRun  PROVE TruthStep
  BY <1>4, Truthful DEF startRun
<1>5. ASSUME NEW force, NEW settled, beginNavigation(force, settled)
      PROVE  TruthStep
  <2>1. nav'.open
    BY <1>5 DEF beginNavigation, RunTyped, Navigations
  <2> QED BY <2>1, Truthful
<1>6. ASSUME Work  PROVE TruthStep
  <2>1. ASSUME PreflightAnswers  PROVE TruthStep
    BY <1>1, <1>3, <2>1
       DEF PreflightAnswers, PreflightAdmits, PreflightRefuses, PreflightIsStale,
           isCurrent
  <2>2. ASSUME CallSucceeds  PROVE TruthStep
    <3>1. /\ intent' = intent /\ nav' = nav /\ run'.current = run.current
      BY <2>2 DEF CallSucceeds, RunTyped, Runs, runVars
    <3> QED BY <3>1, Truthful
  <2>3. ASSUME CallFails  PROVE TruthStep
    BY <1>1, <1>2, <1>3, <2>3 DEF CallFails, Unheard
  <2>4. ASSUME UnitIsRefused \/ DeviceFails \/ AudioRunsOut \/ BookEnds
        PROVE  TruthStep
    <3>1. /\ intent' = intent /\ nav' = nav /\ run'.current = run.current
      BY <2>4 DEF UnitIsRefused, DeviceFails, AudioRunsOut, BookEnds, PlayerAt,
                  RunTyped, Runs
    <3> QED BY <3>1, Truthful
  <2>5. ASSUME Tick  PROVE TruthStep
    BY <1>3, <2>5, Truthful DEF Tick
  <2> QED BY <1>1, <1>6, <2>1, <2>2, <2>3, <2>4, <2>5 DEF Work, Pump
<1>7. ASSUME Teardowns  PROVE TruthStep
  <2>1. ASSUME StopFinishes \/ ContainmentFinishes  PROVE TruthStep
    <3>1. intent' = intent /\ nav'.open = nav.open
      BY <2>1 DEF StopFinishes, ContainmentFinishes, navStops, RunTyped,
                  Navigations
    <3>2. stopping # NoTeardown \/ containing # NoTeardown
      BY <2>1 DEF StopFinishes, ContainmentFinishes, NoTeardown
    <3>3. ~run.current
      BY <3>2 DEF IInv, OneTeardown
    <3> QED BY <3>1, <3>3, Truthful
  <2> QED BY <1>1, <1>7, <2>1
          DEF Teardowns, StopAwaitsService, ContainmentAwaitsService,
              ContainmentJoins, ContainmentSettles
<1>8. ASSUME Requests  PROVE TruthStep
  <2>1. ASSUME Pause  PROVE TruthStep
    BY <2>1, Truthful DEF Pause
  <2>2. ASSUME Resume  PROVE TruthStep
    BY <1>4, <2>2, Truthful DEF Resume
  <2>3. ASSUME StartElsewhere  PROVE TruthStep
    <3>1. ASSUME nav' = [open |-> TRUE, restart |-> TRUE, stopped |-> TRUE,
                         settled |-> FALSE]
          PROVE  TruthStep
      BY <3>1, Truthful
    <3> QED BY <1>4, <1>5, <2>3, <3>1 DEF StartElsewhere
  <2>4. ASSUME ResetAsked  PROVE TruthStep
    <3>1. intent' = intent /\ nav' = nav
      BY <2>4 DEF ResetAsked
    <3>2. CASE UNCHANGED run
      BY <3>1, <3>2, Truthful
    <3>3. CASE /\ resetting' = "stop" /\ containing = NoTeardown
               /\ stopping # NoTeardown
                    \/ (recovery.phase # "operational" /\ run.owned)
      <4>1. CASE ~run.current
        BY <3>1, <4>1, Truthful
      <4>2. CASE run.current
        <5>1. recovery.phase = "recovering"
          BY <3>3, <4>2 DEF IInv, OneTeardown, RecoveryFollows
        <5> QED BY <3>3, <5>1 DEF TruthStep
      <4> QED BY <4>1, <4>2
    <3> QED BY <2>4, <3>2, <3>3 DEF ResetAsked
  <2> QED BY <1>1, <1>2, <1>4, <1>5, <1>8, <2>1, <2>2, <2>3, <2>4
          DEF Requests, Start, Recover, Stop, Close, ExternalNavigation,
              BoundaryNavigation, ReaderPlaces, BeginChange
<1>9. ASSUME Continuations  PROVE TruthStep
  <2>1. ASSUME PlacementSettles  PROVE TruthStep
    <3>1. \/ intent' = intent /\ nav'.open = nav.open /\ UNCHANGED run
          \/ stop \/ intent' = "inactive"
      BY <2>1 DEF PlacementSettles, RunTyped, Navigations
    <3> QED BY <1>2, <3>1, Truthful
  <2>2. ASSUME FinishNavigation  PROVE TruthStep
    <3>1. startRun \/ intent' # "playing"
      BY <2>2 DEF FinishNavigation
    <3> QED BY <1>4, <3>1, Truthful
  <2>3. ASSUME CheckAnswers  PROVE TruthStep
    BY <1>1, <1>2, <2>3 DEF CheckAnswers
  <2>4. ASSUME ResetGoesOn  PROVE TruthStep
    <3>1. /\ intent' = intent /\ nav' = nav /\ containing = NoTeardown
      BY <2>4 DEF ResetGoesOn, ResetIsDue
    <3>2. CASE UNCHANGED run
      BY <3>1, <3>2, Truthful
    <3>3. CASE resetting = "containment"
      <4>1. ~run.current
        BY <3>1, <3>3 DEF IInv, RecoveryFollows, ResetFollows, Settled
      <4> QED BY <3>1, <4>1, Truthful
    <3> QED BY <2>4, <3>2, <3>3 DEF ResetGoesOn
  <2> QED BY <1>1, <1>9, <2>1, <2>2, <2>3, <2>4
          DEF Continuations, Recheck, CheckFinishes, ChangeIsAdmitted, ChangeEnds
<1>10. CASE UNCHANGED vars
  BY <1>1, <1>10 DEF vars
<1> QED BY <1>6, <1>7, <1>8, <1>9, <1>10 DEF Next

\* An explicit recovery is offered once in an episode, and narration that is
\* said to play plays or is being navigated, in whatever order the answers, the
\* user and the settings come.
THEOREM ListenerNeverMisled == Spec => ListenerIsNotMisled
<1>1. TypeOK /\ IInv /\ [Next]_vars => OnceStep /\ TruthStep
  BY RecoversOnce, TellsTheTruth, TypeParts DEF Typed
<1>2. OnceStep => (recovery.spent /\ recovery'.phase = "recovering" =>
                     recovery.phase = "recovering")
  BY DEF OnceStep
<1>3. TruthStep =>
        ((/\ intent' = "playing" /\ ~run'.current /\ ~nav'.open
          /\ run.current \/ nav.open \/ intent # "playing")
            => recovery.phase = "recovering" /\ resetting' = "stop")
  BY DEF TruthStep
<1> QED BY <1>1, <1>2, <1>3, Invariance, PTL
        DEF Spec, ListenerIsNotMisled, RecoveryIsOnce, IntentIsTruthful
=============================================================================
