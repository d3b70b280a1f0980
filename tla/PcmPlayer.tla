------------------------------- MODULE PcmPlayer -------------------------------
(***************************************************************************)
(* The PCM player of a run: AdaptivePcmPlayer of                           *)
(* apps/desktop/src/tts/pcm-playback.ts over the Web Audio backend of      *)
(* playback-backends/web-audio-pcm-playback.ts.  The player takes units    *)
(* from the buffer one at a time, says which was heard, keeps the silence  *)
(* between them and prepares the time stretching of another rate, while    *)
(* the device answers late: a suspension goes on sounding until it takes   *)
(* hold, the end of a unit is an event that may arrive after a pause.      *)
(*                                                                         *)
(* The handlers are written as functions of the whole state, `now`,        *)
(* because synchronize is a part of most of them.  Of the buffer           *)
(* (BufferScheduler) remains what the player reads and changes: units      *)
(* 1 .. produced, of which the first `gone` were consumed; whether the     *)
(* waiting audio reaches the target is `ready`, chosen at will.            *)
(*                                                                         *)
(* Left out: volume, payloads, counters shown to the user and the faults   *)
(* of building an audio graph.                                             *)
(***************************************************************************)
EXTENDS Integers, Sequences, SequencesExt

CONSTANTS
    Units,        \* bound: units of the range
    Transitions,  \* the units followed by a transition pause
    Frames,       \* frames of a unit
    PauseTicks,   \* length of a transition pause
    Rates, DefaultRate,
    PerTurn,      \* units released by a cleanup turn
    MaxRequests   \* bound: suspensions and resumptions under way

ASSUME PlayerAssumption ==
    /\ Units \in Nat /\ Transitions \subseteq 1 .. Units
    /\ Frames \in Nat \ {0} /\ PauseTicks \in Nat \ {0}
    /\ DefaultRate \in Rates /\ Rates \subseteq Nat \ {0}
    /\ PerTurn \in Nat \ {0} /\ MaxRequests \in Nat \ {0}

VARIABLE now

NoRate == 0
NoHandle == [unit |-> 0, rate |-> NoRate, armed |-> FALSE, sound |-> "no",
             played |-> 0, ending |-> FALSE, told |-> FALSE]
NoPause == [left |-> 0, elapsed |-> 0, running |-> FALSE]

PlayerInit == now \in
    [produced : {0}, gone : {0}, accounted : {0}, discarded : {0},
     state : {"preparing"},               \* the buffer's playback state
     rate : {[selected |-> r, active |-> NoRate,
              pending |-> IF r = DefaultRate THEN NoRate ELSE r] : r \in Rates},
     terminal : {"none"},
     handle : {NoHandle},                 \* the unit the device plays
     requests : {<<>>},                   \* of the audio context, unanswered
     context : {"suspended"},
     awaited : {FALSE},                   \* the last request is the handle's
     pause : {NoPause}, silence : {0}, pauses : {0},
     held : {FALSE},                      \* #pausedBeforeRateStart
     preparation : {"none"},              \* #playbackRatePreparation
     future : {FALSE},                    \* #futureRatePreparation
     stretcher : {"none"}, creation : {"none"},
     heard : {<<>>},                      \* what the listeners were told
     cleaning : {FALSE}, waiter : {"none"},
     backend : {"open"}]

-----------------------------------------------------------------------------
(* The buffer *)

Waiting(s) == s.state # "stopped" /\ s.gone < s.produced
AllProduced(s) == s.produced = Units

refresh(s, ready) ==
    LET going == s.state \notin {"stopped", "paused"} IN
    [s EXCEPT !.state =
        CASE going /\ ~Waiting(s) -> IF AllProduced(s) THEN "complete"
                                     ELSE IF @ = "preparing" THEN @ ELSE "buffering"
          [] going /\ Waiting(s) /\ (ready \/ AllProduced(s)) -> "playing"
          [] OTHER -> @]

\* accountRenderedSampleFrames: a unit heard to its end leaves the buffer.
account(s, frames, ready) ==
    IF frames < Frames THEN [s EXCEPT !.accounted = frames]
    ELSE refresh([s EXCEPT !.gone = @ + 1, !.accounted = 0], ready)

nextRate(s) == IF s.rate.pending # NoRate THEN s.rate.pending ELSE s.rate.selected

select(s, rate, ready) ==
    refresh([s EXCEPT !.rate.selected = rate,
                      !.rate.pending = IF s.rate.active = rate THEN NoRate ELSE rate],
            ready)

-----------------------------------------------------------------------------
(* The preparation of a rate, the player's and the backend's half *)

Prepared(s, rate) == rate = DefaultRate \/ s.stretcher = "ready"

\* A creation given up goes on, owned by nobody: who began it still gets its
\* outcome, who joined it later is only told that it is over.
Disowned == [owned |-> "adopted", stale |-> "void", adopted |-> "adopted",
             void |-> "void", refused |-> "refused", none |-> "none"]

\* The stretcher of a unit that is playing is kept.
releaseBackend(s) ==
    IF s.handle.rate \notin {NoRate, DefaultRate} THEN s
    ELSE [s EXCEPT !.stretcher = "none",
                   !.creation = IF s.preparation = "none" THEN @ ELSE Disowned[@]]

\* The player forgets its preparation: whatever becomes of it is ignored.
forget(s) ==
    [s EXCEPT !.future = FALSE, !.preparation = "none",
              !.creation = CASE @ \in {"none", "refused"} -> "none"
                             [] OTHER -> "stale"]

release(s) == forget(releaseBackend(s))

\* One preparation at a time, shared by the rates chosen meanwhile.  A failed
\* stretcher is refused, a creation owned by nobody is joined.
prepare(s, rate) ==
    IF Prepared(s, rate) \/ s.preparation # "none" THEN s
    ELSE [s EXCEPT
            !.future = s.rate.active = DefaultRate,
            !.preparation = IF s.rate.active = DefaultRate THEN "future" ELSE "due",
            !.creation = IF s.stretcher = "failed" THEN "refused"
                         ELSE IF @ = "none" THEN "owned" ELSE @]

fallback(s, ready) == release(select(s, DefaultRate, ready))

\* setPlaybackRatePercent
setRate(s, rate, ready) ==
    LET chosen == select(s, rate, ready) IN
    IF rate # DefaultRate
    THEN IF chosen.rate.pending = NoRate THEN chosen ELSE prepare(chosen, rate)
    ELSE IF s.rate.active \in {NoRate, DefaultRate} THEN release(chosen)
    ELSE chosen

-----------------------------------------------------------------------------
(* Stopping *)

\* Mutated form: the silence under way is not cancelled.
invalidate_keepsPause(s, terminal) ==
    [release(s) EXCEPT
        !.terminal = terminal, !.state = "stopped",
        !.discarded = s.produced - s.gone, !.held = FALSE,
        !.handle = NoHandle, !.awaited = FALSE, !.cleaning = TRUE]

\* #invalidate: what was queued is discarded and released turn by turn.
invalidate(s, terminal) ==
    [release(s) EXCEPT
        !.terminal = terminal, !.state = "stopped",
        !.discarded = s.produced - s.gone,
        !.silence = @ + s.pause.elapsed, !.pause = NoPause, !.held = FALSE,
        !.handle = NoHandle, !.awaited = FALSE, !.cleaning = TRUE]

fail(s) == invalidate(s, "failed")

-----------------------------------------------------------------------------
(* One unit *)

publish(s, kind) == [s EXCEPT !.heard = Append(@, <<kind, s.handle.unit>>)]

\* #confirmRendering: the start of a unit is told when it is first heard, or
\* when its end proves that it was.
confirm(s, completed) ==
    IF s.handle = NoHandle \/ s.handle.told
       \/ (~completed /\ s.handle.sound # "rendering")
    THEN s
    ELSE publish([s EXCEPT !.handle.told = TRUE], "started")

\* Mutated form: the device's counter, not its event, ends the unit.
Observed_toTheEnd(played) == played

\* The last frame is kept until the device says that the unit ended.
Observed(played) == IF played = Frames THEN Frames - 1 ELSE played

refreshProgress(s, ready) ==
    IF s.handle.sound = "rendering" /\ s.state = "playing"
    THEN account(confirm(s, FALSE), Observed(s.handle.played), ready)
    ELSE s

endPause(s) ==
    [s EXCEPT !.silence = @ + s.pause.elapsed, !.pause = NoPause,
              !.pauses = @ + 1]

settleElapsedPause(s) ==
    IF s.pause.running /\ s.pause.elapsed = s.pause.left THEN endPause(s) ELSE s

ask(s, request) ==
    [s EXCEPT !.requests = Append(@, request), !.awaited = TRUE]

\* #startCurrentUnit: the pending rate becomes active at the unit's start.
startUnit(s) ==
    LET rate == nextRate(s)
        free == IF rate = DefaultRate THEN releaseBackend(s) ELSE s
    IN ask([free EXCEPT
              !.rate.active = rate, !.rate.pending = NoRate,
              !.handle = [NoHandle EXCEPT !.unit = s.gone + 1, !.rate = rate]],
           "resume")

synchronize(s, ready) ==
    IF s.terminal # "none" THEN s
    ELSE LET progress == refreshProgress(s, ready)
             rated == IF progress.future /\ progress.stretcher = "failed"
                      THEN fallback(progress, ready) ELSE progress
             settled == settleElapsedPause(rated)
         IN IF settled.state = "playing" /\ settled.handle = NoHandle
               /\ settled.pause = NoPause
            THEN IF Prepared(settled, nextRate(settled)) THEN startUnit(settled)
                 ELSE prepare(settled, nextRate(settled))
            ELSE settled

beginPause(s) ==
    [s EXCEPT !.pause = [left |-> PauseTicks, elapsed |-> 0,
                         running |-> s.state = "playing"]]

\* Mutated form: an end during a pause is not remembered.
Holding_unlessEnded(s) == s.held

\* A unit that ends while paused leaves nothing to resume: the next one is held.
Holding(s) == s.held \/ s.state = "paused"

\* #handleEnded from the release of the unit on.
settleEnded(s, ready) ==
    LET counted == account(s, Frames, ready)
        done == [counted EXCEPT !.handle = NoHandle, !.awaited = FALSE,
                                !.held = Holding(s)]
        rated == IF done.rate.selected = DefaultRate
                    /\ done.rate.active # DefaultRate
                 THEN release(done) ELSE done
        silent == IF rated.state \in {"playing", "paused"} /\ Waiting(rated)
                     /\ s.handle.unit \in Transitions
                  THEN beginPause(rated) ELSE rated
    IN synchronize(silent, ready)

\* A listener told of the start or the end may stop the player at once.
handleEnded(s, stop, ready) ==
    LET started == confirm(s, TRUE)
        completed == publish(started, "completed")
        over(t) == invalidate([t EXCEPT !.handle = NoHandle], "stopped")
    IN CASE stop = "started" -> over(started)
         [] stop = "completed" -> over(completed)
         [] OTHER -> settleEnded(completed, ready)

-----------------------------------------------------------------------------
(* The run and the listener *)

Live == now.terminal = "none"

\* The rejection of a refused preparation comes before anything else.
Quiet == now.creation # "refused"

Becomes(state) == now' = state /\ now' # now

\* acceptCompletedUnit
UnitArrives ==
    /\ Quiet /\ Live /\ now.produced < Units
    /\ \E ready \in BOOLEAN :
         now' = refresh([now EXCEPT !.produced = @ + 1], ready)

\* The ticks of the coordinator, and every snapshot it publishes.
Synchronize ==
    /\ Quiet
    /\ \E ready \in BOOLEAN : Becomes(synchronize(now, ready))

Pausable == {"playing", "buffering", "complete"}

\* A pause that finds no unit, no silence and no preparation is refused.
Holds(s) ==
    \/ s.handle # NoHandle \/ s.pause # NoPause \/ s.preparation # "none"
    \/ s.state # "playing"

freezePause(s) ==
    LET frozen == [left |-> s.pause.left - s.pause.elapsed, elapsed |-> 0,
                   running |-> FALSE]
    IN IF frozen.left = 0 THEN [endPause(s) EXCEPT !.held = TRUE]
       ELSE [s EXCEPT !.silence = @ + s.pause.elapsed, !.pause = frozen]

quieten(s) ==
    IF s.handle # NoHandle THEN ask([s EXCEPT !.handle.sound = "no"], "suspend")
    ELSE IF s.pause # NoPause THEN freezePause(s)
    ELSE [s EXCEPT !.held = TRUE]

Pause ==
    /\ Quiet /\ Live /\ now.state \in Pausable
    /\ Len(now.requests) < MaxRequests
    /\ \E ready \in BOOLEAN :
         LET s == synchronize(now, ready) IN
         /\ Len(s.requests) < MaxRequests /\ Holds(s)
         /\ now' = [quieten(s) EXCEPT !.state = "paused"]

\* A resumption that finds nothing that was held is refused.
Held(s) == s.handle # NoHandle \/ s.pause # NoPause \/ s.held

awaken(s) ==
    IF s.handle # NoHandle THEN ask([s EXCEPT !.handle.sound = "no"], "resume")
    ELSE IF s.pause # NoPause THEN [s EXCEPT !.pause.running = TRUE]
    ELSE s

Resume ==
    /\ Quiet /\ Live /\ now.state = "paused" /\ Held(now)
    /\ Len(now.requests) < MaxRequests
    /\ \E ready \in BOOLEAN :
         LET going == IF Waiting(now) THEN "playing" ELSE "buffering"
             s == refresh([now EXCEPT !.state = going, !.held = FALSE], ready)
         IN now' = synchronize(awaken(s), ready)

\* A rate chosen is published, and whoever publishes synchronizes.
SelectRate ==
    /\ Quiet /\ Live
    /\ \E rate \in Rates, ready \in BOOLEAN :
         Becomes(synchronize(setRate(now, rate, ready), ready))

\* stop and invalidateForSeek, and close, which gives the device back as well.
Stop == Quiet /\ Live /\ now' = invalidate(now, "stopped")

closeBackend(s) ==
    [s EXCEPT !.backend = "closing", !.stretcher = "none", !.requests = <<>>,
              !.context = "suspended",
              !.creation = IF @ = "none" THEN "none" ELSE "stale"]

Close ==
    /\ Quiet /\ now.backend = "open"
    /\ now' = closeBackend(IF Live THEN invalidate(now, "stopped") ELSE now)

\* waitForCleanup, which the owners of a run call once they have closed it.
AwaitCleanup ==
    /\ ~Live /\ now.backend # "open" /\ now.waiter = "none"
    /\ now' = [now EXCEPT !.waiter = "waiting"]

CleanupTurn ==
    /\ now.cleaning
    /\ LET left == now.discarded - PerTurn IN
       now' = IF left > 0 THEN [now EXCEPT !.discarded = left]
              ELSE [now EXCEPT !.discarded = 0, !.cleaning = FALSE]

CleanupIsDone ==
    /\ now.waiter = "waiting"
    /\ ~now.cleaning /\ now.discarded = 0 /\ now.backend = "closed"
    /\ now' = [now EXCEPT !.waiter = "released"]

-----------------------------------------------------------------------------
(* The device *)

\* The context answers in the order it was asked; only the answer the unit
\* still awaits is acted on, and its failure ends the run.
ContextAnswers ==
    /\ Quiet /\ now.requests # <<>>
    /\ LET request == Head(now.requests)
           mine == now.awaited /\ Len(now.requests) = 1
           s == [now EXCEPT !.requests = Tail(@), !.awaited = @ /\ ~mine]
           settled == [s EXCEPT !.context = IF request = "resume" THEN "running"
                                            ELSE "suspended"]
       IN \/ now' = IF mine /\ request = "resume"
                    THEN [settled EXCEPT !.handle.armed = TRUE,
                                         !.handle.sound = "resumed"]
                    ELSE settled
          \/ now' = IF mine THEN fail(s) ELSE s

\* A unit that was started sounds for as long as the context runs.
DeviceRenders ==
    /\ Quiet /\ now.context = "running" /\ now.handle.armed
    /\ now.handle.played < Frames
    /\ now' = [now EXCEPT !.handle.played = @ + 1,
                          !.handle.ending = now.handle.played + 1 = Frames,
                          !.handle.sound = IF @ = "resumed" THEN "rendering" ELSE @]

UnitEnds ==
    /\ Quiet /\ now.handle.ending
    /\ \E stop \in {"no", "started", "completed"}, ready \in BOOLEAN :
         /\ stop = "started" => ~now.handle.told
         /\ now' = handleEnded(now, stop, ready)

TimePasses ==
    /\ now.pause.running /\ now.pause.elapsed < now.pause.left
    /\ now' = [now EXCEPT !.pause.elapsed = @ + 1]

\* A timer that fires early is set again for what is left.
PauseTimerFires ==
    /\ Quiet /\ now.pause.running /\ now.pause.elapsed > 0
    /\ \E ready \in BOOLEAN :
         now' = IF now.pause.elapsed = now.pause.left
                THEN synchronize(endPause(now), ready)
                ELSE [now EXCEPT !.silence = @ + now.pause.elapsed,
                                 !.pause.left = @ - now.pause.elapsed,
                                 !.pause.elapsed = 0]

Over(s) == [s EXCEPT !.creation = "none", !.preparation = "none"]

\* A rate prepared for nobody is given back at once.
settlePreparation(s) ==
    IF s.rate.selected = DefaultRate /\ s.rate.active \in {NoRate, DefaultRate}
    THEN release(s) ELSE s

StretcherReady ==
    \/ /\ now.creation = "owned"
       /\ now' = settlePreparation([Over(now) EXCEPT !.stretcher = "ready"])
    \/ /\ now.creation \in {"adopted", "void"}
       /\ now' = settlePreparation(Over(now))

\* Mutated form: who waited is not told.
Rejoin_forgets(s) == [s EXCEPT !.creation = "none"]

\* Who waits for a creation that nobody owns any more begins his own then.
Rejoin(s) ==
    [s EXCEPT !.creation = IF s.preparation = "none" THEN "none" ELSE "owned"]

StaleCreationSettles == now.creation = "stale" /\ now' = Rejoin(now)

\* A preparation for later units falls back, one that a unit waits for fails
\* the run.
PreparationFails ==
    /\ now.creation \in {"owned", "adopted", "refused"}
    /\ \/ /\ now.preparation = "future"
          /\ \E ready \in BOOLEAN : now' = fallback(Over(now), ready)
       \/ now.preparation = "due" /\ now' = fail(Over(now))

\* The audio thread drops the stretcher, with the unit it stretches.
ProcessorFails ==
    /\ Quiet /\ now.stretcher = "ready"
    /\ LET s == [now EXCEPT !.stretcher = "failed"] IN
       now' = IF now.handle.rate \in {NoRate, DefaultRate} THEN s
              ELSE fail([s EXCEPT !.handle = NoHandle])

BackendCloses ==
    /\ now.backend = "closing" /\ now.creation = "none"
    /\ now' = [now EXCEPT !.backend = "closed"]

-----------------------------------------------------------------------------
Device ==
    \/ ContextAnswers \/ DeviceRenders \/ UnitEnds
    \/ TimePasses \/ PauseTimerFires
    \/ StretcherReady \/ StaleCreationSettles \/ PreparationFails
    \/ ProcessorFails \/ BackendCloses

Run == UnitArrives \/ Synchronize \/ CleanupTurn \/ CleanupIsDone

Listener == Pause \/ Resume \/ SelectRate \/ Stop \/ Close \/ AwaitCleanup

PlayerNext == Device \/ Run \/ Listener

\* Ticks, timers and audio events keep coming and requests are answered; no unit
\* has to arrive and nobody has to press anything.
Fairness ==
    /\ WF_now(Synchronize) /\ WF_now(CleanupTurn) /\ WF_now(CleanupIsDone)
    /\ WF_now(ContextAnswers) /\ WF_now(DeviceRenders) /\ WF_now(UnitEnds)
    /\ WF_now(TimePasses) /\ WF_now(PauseTimerFires)
    /\ WF_now(StretcherReady \/ StaleCreationSettles \/ PreparationFails)
    /\ WF_now(BackendCloses)

PlayerSpec == PlayerInit /\ [][PlayerNext]_now /\ Fairness

-----------------------------------------------------------------------------
(* Properties *)

\* The state has its shape, and what the player holds excludes each other: a
\* unit and a silence, anything at all and a player that was stopped.
PlayerTypeOK ==
    /\ now.produced \in 0 .. Units /\ now.gone \in 0 .. now.produced
    /\ now.accounted \in 0 .. Frames - 1 /\ now.discarded \in 0 .. Units
    /\ now.state \in {"preparing", "playing", "paused", "buffering", "complete",
                      "stopped"}
    /\ now.rate \in [selected : Rates, active : Rates \cup {NoRate},
                     pending : Rates \cup {NoRate}]
    /\ now.terminal \in {"none", "stopped", "failed"}
    /\ now.handle \in {NoHandle} \cup
         [unit : {now.gone + 1}, rate : {now.rate.active}, armed : BOOLEAN,
          sound : {"no", "resumed", "rendering"}, played : 0 .. Frames,
          ending : BOOLEAN, told : BOOLEAN]
    /\ now.requests \in BoundedSeq({"suspend", "resume"}, MaxRequests + 1)
    /\ now.pause \in [left : 0 .. PauseTicks, elapsed : 0 .. PauseTicks,
                      running : BOOLEAN]
    /\ now.handle = NoHandle \/ now.pause = NoPause
    /\ Live \/ (now.handle = NoHandle /\ now.pause = NoPause /\ ~now.held)
    /\ now.preparation \in {"none", "future", "due"}
    /\ now.creation \in DOMAIN Disowned
    /\ now.creation \in {"owned", "adopted", "void", "refused"} =>
         now.preparation # "none"
    /\ now.stretcher \in {"none", "ready", "failed"}

\* What listeners are told is the text in order, every unit started and then
\* completed, once; a unit leaves the buffer when it was told to its end.
HeardInOrder ==
    LET Story(n) == [i \in 1 .. 2 * n |->
            <<IF i % 2 = 1 THEN "started" ELSE "completed", (i + 1) \div 2>>]
    IN /\ IsPrefix(now.heard, Story(Units))
       /\ Live => now.gone = Len(now.heard) \div 2

\* The silence kept so far is that of the pauses begun, less what the last one
\* still owes, however often it was frozen, resumed or ended early or late.
PausesAreKept ==
    Live => now.silence + now.pause.left =
              PauseTicks * (now.pauses + IF now.pause = NoPause THEN 0 ELSE 1)

\* While paused nothing starts to sound.
PausedIsSilent ==
    [][now.state = "paused" /\ now'.state = "paused" =>
         now'.handle.unit \in {0, now.handle.unit}
         /\ (now'.handle.sound = "no" \/ now'.handle.sound = now.handle.sound)]_now

\* What the reader hears is the text, unit after unit, with its silences: the
\* position that is saved and the highlight follow these events.
HeardAsWritten == [](HeardInOrder /\ PausesAreKept) /\ PausedIsSilent

\* Pause and Resume, pressed when they are offered, are accepted: a refusal
\* would fail the run.
PressesAreAccepted ==
    Quiet /\ Live =>
        /\ now.state \in Pausable =>
             \A ready \in BOOLEAN : Holds(synchronize(now, ready))
        /\ now.state = "paused" => Held(now)

\* A run heard at the ordinary rate is not failed by the preparation of another
\* one, tried, abandoned or chosen again meanwhile.  There is one exception: a
\* preparation begun between two units of another rate, which the ordinary rate
\* chosen again then overtakes, is kept and its failure fails the run.
OrdinaryRateSurvives ==
    now.preparation = "due" /\ now.rate.active = DefaultRate =>
        now.creation \in {"adopted", "void"}

\* No legal sequence of pauses, resumptions and rates fails a run.
ListenerCannotFailIt == PressesAreAccepted /\ OrdinaryRateSurvives

\* A run that plays gets on with its audio unless it is paused or stopped or
\* the listener keeps choosing rates, and who waits for the cleanup is released.
PlaybackGoesOn ==
    /\ []<><<SelectRate>>_now \/ (now.state = "playing" ~> now.state # "playing")
    /\ now.waiter = "waiting" ~> now.waiter = "released"
==============================================================================
