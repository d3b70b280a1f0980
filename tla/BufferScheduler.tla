--------------------------- MODULE BufferScheduler ---------------------------
(***************************************************************************)
(* The adaptive narration buffer: AdaptiveBufferScheduler of               *)
(* apps/desktop/src/tts/adaptive-buffer-scheduler.ts.  It decides when the *)
(* speech service starts, when text is prepared and when a segment is      *)
(* synthesized, owns every audio unit from synthesis to playback, and says *)
(* whether the listener hears audio or waits.                              *)
(*                                                                         *)
(* One action per method.  A method that throws leaves the state alone, so *)
(* its preconditions are the guards.  The callers are the narration        *)
(* coordinator (dispatch and answers), the PCM player (activation and      *)
(* consumption) and the listener (pause, resume, rate, play now).  Answers *)
(* of the service arrive at any later moment, after the run that asked for *)
(* them has been invalidated too.                                          *)
(*                                                                         *)
(* Data: a segment is its sequence number and the amount of text it holds  *)
(* (code points, UTF-8 bytes and sentences are counted in the same way); a *)
(* unit is its identity, its sample frames and how many were heard.        *)
(* Payload bytes are four times the frames and metadata entries equal the  *)
(* complete units in every assignment of the code, so one counter stands   *)
(* for each pair.  Sequences start at 1, and 0 stands for undefined.       *)
(***************************************************************************)
EXTENDS Integers, Sequences, SequencesExt, FiniteSets

CONSTANTS
    MaximumSampleFrames,    \* ceiling on frames retained or reserved
    MaximumCompleteUnits,   \* ceiling on units retained or reserved
    MaximumSegments,        \* ceiling on prepared segments
    MaximumText,            \* ceiling on prepared text
    Reservation,            \* frames reserved before a synthesis
    QuickStart,             \* listening time a quick start waits for
    RefillResume,           \* listening time a refill waits for
    PreparedTargets,        \* listening times a prepared start may wait for
    Rates, DefaultRate,     \* playback rates, in units of DefaultRate
    FrameCounts,            \* sample frames of a synthesized unit
    TextSizes,              \* text of a prepared segment
    RangeLength,            \* bound: segments of the publication range
    MaxGenerations          \* bound: runs of the narration

ASSUME LimitsAssumption ==
    /\ MaximumSampleFrames \in Nat /\ MaximumCompleteUnits \in Nat \ {0}
    /\ MaximumSegments \in Nat \ {0} /\ MaximumText \in Nat
    /\ Reservation \in Nat \ {0} /\ Reservation <= MaximumSampleFrames

\* No prepared start waits for less than a refill: the lowest of the authority's
\* prepared targets is its refill threshold.
ASSUME TargetsAssumption ==
    /\ QuickStart \in Nat \ {0} /\ RefillResume \in Nat \ {0}
    /\ PreparedTargets \subseteq Nat \ {0}
    /\ \A target \in PreparedTargets : target >= RefillResume

ASSUME InputsAssumption ==
    /\ Rates \subseteq Nat \ {0} /\ DefaultRate \in Rates
    /\ FrameCounts \subseteq 1 .. Reservation
    /\ TextSizes \subseteq Nat \ {0}
    /\ RangeLength \in Nat /\ MaxGenerations \in Nat

NoIdentity == 0
NoRate == 0
NoSequence == 0
NoSegment == [sequence |-> NoSequence, text |-> 0]

Quick == 0                             \* the mode of a quick start
Modes == {Quick} \cup PreparedTargets  \* a prepared mode is its target

VARIABLES
    identity,               \* generation this scheduler serves, or NoIdentity
    mode,
    serviceState,
    playbackState,
    pendingSegments,        \* prepared, not yet dispatched
    activeSynthesis,        \* the segment the service works on, or NoSegment
    audioUnits,             \* the playback FIFO
    discardedAudioUnits,    \* invalidated units, awaiting release
    lastAcceptedSequence,
    resources,              \* the counters checked against the ceilings
    rangeComplete,          \* the publication said: nothing follows
    initialPlaybackStarted,
    playbackRate,           \* selected, active and pending rate
    activePlaybackSequence, \* unit the active rate belongs to
    generation,             \* runs started so far
    remaining,              \* segments the publication still has to give
    inflight,               \* units the service was asked for, unanswered
    releases,               \* release() calls per delivered unit
    heard                   \* units of this run played to their end

schedulerVars == <<identity, mode, serviceState, playbackState,
    pendingSegments, activeSynthesis, audioUnits, discardedAudioUnits,
    lastAcceptedSequence, resources, rangeComplete, initialPlaybackStarted,
    playbackRate, activePlaybackSequence>>

textVars == <<pendingSegments, activeSynthesis, lastAcceptedSequence,
    rangeComplete, remaining>>
unitVars == <<audioUnits, discardedAudioUnits, inflight, releases, heard>>
rateVars == <<playbackRate, activePlaybackSequence>>
runVars == <<identity, mode, generation>>
listeningVars == <<playbackState, initialPlaybackStarted>>

vars == <<schedulerVars, generation, remaining, inflight, releases, heard>>

-----------------------------------------------------------------------------
(* Resources *)

Counters ==
    {"audioSampleFrames", "completeAudioUnits", "retainedPreparedBatches",
     "retainedPreparedSegments", "retainedNarrationText",
     "activeNarrationPreparations", "activeSyntheses"}

emptyResources == [counter \in Counters |-> 0]

WithinLimits(r) ==
    /\ r.audioSampleFrames <= MaximumSampleFrames
    /\ r.completeAudioUnits <= MaximumCompleteUnits
    /\ r.retainedPreparedBatches <= 1
    /\ r.retainedPreparedSegments <= MaximumSegments
    /\ r.retainedNarrationText <= MaximumText
    /\ r.activeNarrationPreparations <= 1
    /\ r.activeSyntheses <= 1

evaluateAdaptiveBufferResources(r) ==
    (\A counter \in Counters : r[counter] \in Nat) /\ WithinLimits(r)

Reserved(r) ==
    [r EXCEPT !.audioSampleFrames = @ + Reservation,
              !.completeAudioUnits = @ + 1,
              !.activeSyntheses = @ + 1]

\* Mutated form: a unit is dispatched when what is retained fits.
canReserve_withoutTheReservation(r) == evaluateAdaptiveBufferResources(r)

canReserveAdaptiveBufferServiceUnit(r) ==
    evaluateAdaptiveBufferResources(Reserved(r))

\* The counters once a unit has been handed back to its owner.
WithoutUnit(r, unit) ==
    [r EXCEPT !.audioSampleFrames = @ - unit.sampleFrames,
              !.completeAudioUnits = @ - 1]

\* Mutated form: the settled batch is kept.
settleActivePromptResources_keepsBatch(r) ==
    [r EXCEPT !.retainedPreparedSegments = @ - 1,
              !.retainedNarrationText = @ - activeSynthesis.text,
              !.activeSyntheses = 0]

\* The text of the active segment is dropped when its synthesis settles, and
\* the batch with the last of its segments.
settleActivePromptResources(r) ==
    LET segments == r.retainedPreparedSegments - 1 IN
    [r EXCEPT !.retainedPreparedSegments = segments,
              !.retainedNarrationText = @ - activeSynthesis.text,
              !.activeSyntheses = 0,
              !.retainedPreparedBatches =
                  IF pendingSegments = <<>> /\ segments = 0 THEN 0 ELSE @]

-----------------------------------------------------------------------------
(* Durations *)

UnitId(unit) == <<unit.generation, unit.sequence>>

Remaining(unit) == unit.sampleFrames - unit.consumedSampleFrames

playableSampleFrames ==
    FoldSeq(LAMBDA unit, total : total + Remaining(unit), 0, audioUnits)

\* Only the front unit can be the one the active rate belongs to.
ActiveFrames ==
    IF /\ audioUnits # <<>> /\ playbackRate.active # NoRate
       /\ audioUnits[1].sequence = activePlaybackSequence
    THEN Remaining(audioUnits[1]) ELSE 0

\* Frames heard at the active rate plus frames that will be heard at the
\* selected one, rounded down once.
effectiveListeningDuration ==
    LET active == IF playbackRate.active = NoRate THEN playbackRate.selected
                                                  ELSE playbackRate.active
        selected == playbackRate.selected
        waiting == playableSampleFrames - ActiveFrames
    IN  (DefaultRate * (ActiveFrames * selected + waiting * active))
            \div (active * selected)

initialTarget == IF mode = Quick THEN QuickStart ELSE mode
continuingTarget == IF mode = Quick THEN RefillResume ELSE mode

\* Mutated form: production stops at the start target after the start too.
targetBuffer_neverContinues == initialTarget

targetBuffer ==
    IF initialPlaybackStarted THEN continuingTarget ELSE initialTarget

\* Nothing is left to prepare or to synthesize.
AllProduced ==
    rangeComplete /\ pendingSegments = <<>> /\ activeSynthesis = NoSegment

-----------------------------------------------------------------------------
(* What the scheduler wants next *)

shouldProduce == effectiveListeningDuration < targetBuffer

nextAction ==
    IF identity = NoIdentity THEN "invalidated"
    ELSE IF \/ playbackState = "complete"
            \/ /\ AllProduced
               /\ resources.activeNarrationPreparations = 0
               /\ playableSampleFrames = 0
         THEN "complete"
    ELSE IF serviceState = "failed" THEN "failed"
    ELSE IF serviceState = "stopped" THEN "start-service"
    ELSE IF serviceState = "unloaded" THEN "prepare-service"
    ELSE IF serviceState \in {"starting", "preparing", "cancelling",
                              "stopping"} THEN "service-transition"
    ELSE IF \/ serviceState = "generating"
            \/ resources.activeNarrationPreparations # 0 THEN "active-work"
    ELSE IF \/ ~shouldProduce
            \/ ~canReserveAdaptiveBufferServiceUnit(resources)
         THEN "backpressure"
    ELSE IF pendingSegments # <<>> THEN "synthesize"
    ELSE IF rangeComplete THEN "complete" ELSE "prepare-narration"

\* Mutated form: the escape is offered to a refill only.
canPlayAvailableAudio_whenBuffering ==
    /\ playbackState = "buffering"
    /\ playableSampleFrames > 0
    /\ nextAction = "backpressure"
    /\ ~canReserveAdaptiveBufferServiceUnit(resources)

canPlayAvailableAudio ==
    /\ playbackState \in {"preparing", "buffering"}
    /\ playableSampleFrames > 0
    /\ nextAction = "backpressure"
    /\ ~canReserveAdaptiveBufferServiceUnit(resources)

\* The state the listener is in once units, text or rate have changed.  A
\* complete remaining range lowers the threshold to what is there, so it
\* always starts.
refreshPlaybackState ==
    LET threshold == IF initialPlaybackStarted THEN RefillResume
                                               ELSE initialTarget
    IN  \/ /\ \/ playbackState \in {"stopped", "paused"}
              \/ identity' = NoIdentity
           /\ UNCHANGED listeningVars
        \/ /\ playbackState \notin {"stopped", "paused"}
           /\ identity' # NoIdentity
           /\ playableSampleFrames' = 0
           /\ playbackState' =
                 IF AllProduced' THEN "complete"
                 ELSE IF serviceState' = "failed" THEN "failed"
                 ELSE IF initialPlaybackStarted THEN "buffering"
                 ELSE playbackState
           /\ UNCHANGED initialPlaybackStarted
        \/ /\ playbackState \notin {"stopped", "paused"}
           /\ identity' # NoIdentity
           /\ playableSampleFrames' > 0
           /\ IF /\ playbackState # "playing"
                 /\ AllProduced' \/ effectiveListeningDuration' >= threshold
              THEN /\ playbackState' = "playing"
                   /\ initialPlaybackStarted' = TRUE
              ELSE UNCHANGED listeningVars

\* The listener is told of a failure only once nothing is left to hear.
failPlaybackWhenSilent ==
    /\ playbackState' =
          IF playableSampleFrames = 0 THEN "failed" ELSE playbackState
    /\ UNCHANGED initialPlaybackStarted

-----------------------------------------------------------------------------
(* A run begins *)

\* Mutated form: the selection also reaches the unit being heard.
selectNarrationPlaybackRate_atOnce(state, rate) ==
    [state EXCEPT !.selected = rate,
                  !.active = IF @ = NoRate THEN NoRate ELSE rate,
                  !.pending = IF state.active = NoRate THEN rate ELSE NoRate]

selectNarrationPlaybackRate(state, rate) ==
    [state EXCEPT !.selected = rate,
                  !.pending = IF state.active = rate THEN NoRate ELSE rate]

initialPlaybackRate(rate) ==
    LET initial == [selected |-> DefaultRate, active |-> NoRate,
                    pending |-> NoRate]
    IN  IF rate = DefaultRate THEN initial
                              ELSE selectNarrationPlaybackRate(initial, rate)

Init ==
    /\ identity = 1 /\ generation = 1
    /\ mode \in Modes
    /\ serviceState = "stopped" /\ playbackState = "preparing"
    /\ pendingSegments = <<>> /\ activeSynthesis = NoSegment
    /\ audioUnits = <<>> /\ discardedAudioUnits = <<>>
    /\ lastAcceptedSequence = NoSequence
    /\ resources = emptyResources
    /\ rangeComplete = FALSE /\ initialPlaybackStarted = FALSE
    /\ \E rate \in Rates : playbackRate = initialPlaybackRate(rate)
    /\ activePlaybackSequence = NoSequence
    /\ remaining \in 0 .. RangeLength
    /\ inflight = {} /\ releases = <<>> /\ heard = 0

\* The coordinator replaces the scheduler once the old one has been
\* invalidated, its service has stopped and its units have been released.
NewRun(newMode, rate) ==
    /\ serviceState = "stopped" /\ identity = NoIdentity
    /\ resources.completeAudioUnits = 0
    /\ generation < MaxGenerations
    /\ generation' = generation + 1 /\ identity' = generation + 1
    /\ mode' = newMode
    /\ serviceState' = "stopped" /\ playbackState' = "preparing"
    /\ pendingSegments' = <<>> /\ activeSynthesis' = NoSegment
    /\ audioUnits' = <<>> /\ discardedAudioUnits' = <<>>
    /\ lastAcceptedSequence' = NoSequence
    /\ resources' = emptyResources
    /\ rangeComplete' = FALSE /\ initialPlaybackStarted' = FALSE
    /\ playbackRate' = initialPlaybackRate(rate)
    /\ activePlaybackSequence' = NoSequence
    /\ remaining' \in 0 .. RangeLength
    /\ heard' = 0
    /\ UNCHANGED <<inflight, releases>>

-----------------------------------------------------------------------------
(* The service starts and loads its model *)

ServiceStep(from, to) ==
    /\ serviceState = from
    /\ serviceState' = to
    /\ UNCHANGED <<runVars, textVars, unitVars, rateVars, listeningVars,
                   resources>>

beginServiceStart == nextAction = "start-service"
                        /\ ServiceStep("stopped", "starting")
markServiceStarted == ServiceStep("starting", "unloaded")
beginServicePrepare == nextAction = "prepare-service"
                        /\ ServiceStep("unloaded", "preparing")
markServiceReady == ServiceStep("preparing", "ready")

failServiceTransition ==
    /\ serviceState \in {"starting", "preparing"}
    /\ serviceState' = "failed"
    /\ failPlaybackWhenSilent
    /\ UNCHANGED <<runVars, textVars, unitVars, rateVars, resources>>

-----------------------------------------------------------------------------
(* Text is prepared *)

beginNarrationPreparation ==
    /\ nextAction = "prepare-narration"
    /\ resources' = [resources EXCEPT !.activeNarrationPreparations = 1]
    /\ UNCHANGED <<runVars, textVars, unitVars, rateVars, listeningVars,
                   serviceState>>

AwaitsBatch ==
    /\ resources.activeNarrationPreparations = 1
    /\ resources.retainedPreparedBatches = 0
    /\ pendingSegments = <<>> /\ activeSynthesis = NoSegment

TextOf(texts) == FoldSeq(LAMBDA text, total : total + text, 0, texts)

\* Mutated form: numbering starts one too low.
Numbered_offByOne(texts) ==
    [i \in 1 .. Len(texts) |->
        [sequence |-> lastAcceptedSequence + i - 1, text |-> texts[i]]]

\* The coordinator numbers the segments of a run consecutively.
Numbered(texts) ==
    [i \in 1 .. Len(texts) |->
        [sequence |-> lastAcceptedSequence + i, text |-> texts[i]]]

\* A batch over a limit is refused, and its preparation then fails.
acceptPreparedBatch(texts, complete) ==
    LET n == Len(texts)
        accepted == [resources EXCEPT
            !.retainedPreparedBatches = 1,
            !.retainedPreparedSegments = n,
            !.retainedNarrationText = TextOf(texts),
            !.activeNarrationPreparations = 0]
    IN  /\ AwaitsBatch
        /\ n > 0 /\ n <= remaining
        /\ complete => n = remaining
        /\ evaluateAdaptiveBufferResources(accepted)
        /\ resources' = accepted
        /\ pendingSegments' = Numbered(texts)
        /\ lastAcceptedSequence' = lastAcceptedSequence + n
        /\ rangeComplete' = complete
        /\ remaining' = remaining - n
        /\ UNCHANGED <<runVars, activeSynthesis, unitVars, rateVars,
                       listeningVars, serviceState>>

\* Content without anything to speak: it uses up some of the range.
acceptEmptyPreparedRange(complete) ==
    /\ AwaitsBatch
    /\ complete => remaining <= 1
    /\ ~complete => remaining > 0
    /\ resources' = [resources EXCEPT !.activeNarrationPreparations = 0]
    /\ rangeComplete' = complete
    /\ remaining' = IF remaining > 0 THEN remaining - 1 ELSE 0
    /\ UNCHANGED <<runVars, pendingSegments, activeSynthesis,
                   lastAcceptedSequence, unitVars, rateVars, serviceState>>
    /\ refreshPlaybackState

failNarrationPreparation ==
    /\ resources.activeNarrationPreparations = 1
    /\ resources' = [resources EXCEPT !.activeNarrationPreparations = 0]
    /\ serviceState' = "failed"
    /\ failPlaybackWhenSilent
    /\ UNCHANGED <<runVars, textVars, unitVars, rateVars>>

-----------------------------------------------------------------------------
(* A segment is synthesized *)

beginSynthesis ==
    /\ nextAction = "synthesize"
    /\ activeSynthesis' = Head(pendingSegments)
    /\ pendingSegments' = Tail(pendingSegments)
    /\ resources' = [Reserved(resources) EXCEPT !.activeSyntheses = 1]
    /\ serviceState' = "generating"
    /\ inflight' = inflight \cup {<<identity, Head(pendingSegments).sequence>>}
    /\ UNCHANGED <<runVars, lastAcceptedSequence, rangeComplete, remaining,
                   audioUnits, discardedAudioUnits, releases, heard, rateVars,
                   listeningVars>>

\* Mutated form: the run is not compared.
sameIdentity_anyRun(id) ==
    activeSynthesis # NoSegment /\ id[2] = activeSynthesis.sequence

\* The answer belongs to the work in hand: same run, same segment.
sameIdentity(id) ==
    /\ activeSynthesis # NoSegment
    /\ id = <<identity, activeSynthesis.sequence>>

Delivered(id, released) ==
    /\ inflight' = inflight \ {id}
    /\ releases' = [x \in DOMAIN releases \cup {id} |->
                       IF x = id THEN released ELSE releases[x]]

acceptCompletedUnit(id, frames) ==
    LET settled == settleActivePromptResources(resources) IN
    /\ id \in inflight /\ sameIdentity(id)
    /\ resources' =
          [settled EXCEPT !.audioSampleFrames = @ - Reservation + frames]
    /\ activeSynthesis' = NoSegment
    /\ audioUnits' = Append(audioUnits,
          [generation |-> id[1], sequence |-> activeSynthesis.sequence,
           sampleFrames |-> frames, consumedSampleFrames |-> 0])
    /\ serviceState' = "ready"
    /\ Delivered(id, 0)
    /\ UNCHANGED <<runVars, pendingSegments, lastAcceptedSequence,
                   rangeComplete, remaining, discardedAudioUnits, heard,
                   rateVars>>
    /\ refreshPlaybackState

\* The active synthesis is over without a unit: the reservation goes back.
settleActiveSynthesis ==
    LET settled == settleActivePromptResources(resources) IN
    /\ resources' = [settled EXCEPT !.audioSampleFrames = @ - Reservation,
                                    !.completeAudioUnits = @ - 1]
    /\ activeSynthesis' = NoSegment
    /\ serviceState' = "failed"
    /\ failPlaybackWhenSilent
    /\ UNCHANGED <<runVars, pendingSegments, lastAcceptedSequence,
                   rangeComplete, remaining, audioUnits, discardedAudioUnits,
                   heard, rateVars>>

rejectInvalidUnit(id) ==
    /\ id \in inflight /\ sameIdentity(id)
    /\ Delivered(id, 1)
    /\ settleActiveSynthesis

failActiveSynthesis ==
    /\ activeSynthesis # NoSegment /\ serviceState = "generating"
    /\ inflight' = inflight \ {<<identity, activeSynthesis.sequence>>}
    /\ UNCHANGED releases
    /\ settleActiveSynthesis

discardStaleUnit(id) ==
    /\ id \in inflight /\ ~sameIdentity(id)
    /\ Delivered(id, 1)
    /\ UNCHANGED <<schedulerVars, generation, remaining, heard>>

-----------------------------------------------------------------------------
(* The listener hears the front unit *)

selectPlaybackRatePercent(rate) ==
    /\ identity # NoIdentity /\ playbackState # "stopped"
    /\ playbackRate' = selectNarrationPlaybackRate(playbackRate, rate)
    /\ UNCHANGED <<runVars, textVars, unitVars, activePlaybackSequence,
                   resources, serviceState>>
    /\ refreshPlaybackState

\* The player starts a unit only while playing, once the one before it ended.
activateCurrentPlaybackRate ==
    /\ playbackState = "playing"
    /\ audioUnits # <<>>
    /\ activePlaybackSequence # audioUnits[1].sequence
    /\ playbackRate' =
          [playbackRate EXCEPT
              !.active = IF playbackRate.pending = NoRate
                         THEN playbackRate.selected ELSE playbackRate.pending,
              !.pending = NoRate]
    /\ activePlaybackSequence' = audioUnits[1].sequence
    /\ UNCHANGED <<runVars, textVars, unitVars, listeningVars, resources,
                   serviceState>>

\* The player reports frames of the unit it started, never past its end; while
\* pausing settles only the unit's end is still reported.
accountRenderedSampleFrames(frames) ==
    LET unit == audioUnits[1] IN
    /\ playbackState \in {"playing", "paused"}
    /\ audioUnits # <<>> /\ activePlaybackSequence = unit.sequence
    /\ frames <= Remaining(unit)
    /\ playbackState = "paused" => frames = Remaining(unit)
    /\ IF frames = Remaining(unit)
       THEN /\ audioUnits' = Tail(audioUnits)
            /\ resources' = WithoutUnit(resources, unit)
            /\ releases' = [releases EXCEPT ![UnitId(unit)] = @ + 1]
            /\ heard' = heard + 1
       ELSE /\ audioUnits' = [audioUnits EXCEPT
                                 ![1].consumedSampleFrames = @ + frames]
            /\ UNCHANGED <<resources, releases, heard>>
    /\ UNCHANGED <<runVars, textVars, discardedAudioUnits, inflight, rateVars,
                   serviceState>>
    /\ refreshPlaybackState

pausePlayback ==
    /\ initialPlaybackStarted
    /\ playbackState \in {"playing", "buffering", "complete"}
    /\ playbackState' = "paused"
    /\ UNCHANGED <<runVars, textVars, unitVars, rateVars, resources,
                   serviceState, initialPlaybackStarted>>

playAvailableAudio ==
    /\ canPlayAvailableAudio
    /\ playbackState' = "playing" /\ initialPlaybackStarted' = TRUE
    /\ UNCHANGED <<runVars, textVars, unitVars, rateVars, resources,
                   serviceState>>

\* What was buffered while paused plays on, without a new target; with nothing
\* buffered the narration is over or waits for audio.
resumePlayback ==
    /\ playbackState = "paused"
    /\ playbackState' =
          IF playableSampleFrames > 0 THEN "playing"
          ELSE IF AllProduced THEN "complete"
          ELSE IF serviceState = "failed" THEN "failed" ELSE "buffering"
    /\ UNCHANGED <<runVars, textVars, unitVars, rateVars, resources,
                   serviceState, initialPlaybackStarted>>

-----------------------------------------------------------------------------
(* The run is invalidated and cleaned up *)

invalidate ==
    LET active == IF activeSynthesis = NoSegment THEN 0 ELSE 1 IN
    /\ identity # NoIdentity
    /\ identity' = NoIdentity
    /\ pendingSegments' = <<>> /\ activeSynthesis' = NoSegment
    /\ discardedAudioUnits' = discardedAudioUnits \o audioUnits
    /\ audioUnits' = <<>>
    /\ resources' = [emptyResources EXCEPT
          !.audioSampleFrames =
              resources.audioSampleFrames - active * Reservation,
          !.completeAudioUnits = resources.completeAudioUnits - active]
    /\ rangeComplete' = FALSE /\ activePlaybackSequence' = NoSequence
    /\ playbackState' = "stopped"
    /\ serviceState' = IF active = 0 THEN "stopping" ELSE "cancelling"
    /\ UNCHANGED <<mode, generation, lastAcceptedSequence, remaining, inflight,
                   releases, heard, playbackRate, initialPlaybackStarted>>

\* A cleanup turn releases a few units, oldest first; each is one step here.
releaseDiscardedAudioUnits ==
    LET unit == discardedAudioUnits[1] IN
    /\ discardedAudioUnits # <<>>
    /\ discardedAudioUnits' = Tail(discardedAudioUnits)
    /\ releases' = [releases EXCEPT ![UnitId(unit)] = @ + 1]
    /\ resources' = WithoutUnit(resources, unit)
    /\ UNCHANGED <<runVars, textVars, audioUnits, inflight, heard, rateVars,
                   listeningVars, serviceState>>

\* The coordinator settles the service only after it invalidated the run.
settleServiceStop ==
    /\ identity = NoIdentity
    /\ \E state \in {"cancelling", "stopping", "failed"} :
          ServiceStep(state, "stopped")

-----------------------------------------------------------------------------
Dispatch ==
    \/ beginServiceStart \/ beginServicePrepare
    \/ beginNarrationPreparation \/ beginSynthesis

\* Every dispatched operation is answered, by a result or by a failure.
Answer ==
    \/ markServiceStarted \/ markServiceReady \/ failServiceTransition
    \/ \E n \in 1 .. MaximumSegments, complete \in BOOLEAN :
          \E texts \in [1 .. n -> TextSizes] :
              acceptPreparedBatch(texts, complete)
    \/ \E complete \in BOOLEAN : acceptEmptyPreparedRange(complete)
    \/ failNarrationPreparation
    \/ \E id \in inflight :
          \/ \E frames \in FrameCounts : acceptCompletedUnit(id, frames)
          \/ rejectInvalidUnit(id)
    \/ failActiveSynthesis

\* The device renders what the player started.
Render ==
    \/ activateCurrentPlaybackRate
    \/ \E frames \in 1 .. Reservation : accountRenderedSampleFrames(frames)

Listener ==
    \/ \E rate \in Rates : selectPlaybackRatePercent(rate)
    \/ pausePlayback \/ resumePlayback \/ playAvailableAudio

Teardown ==
    \/ invalidate \/ releaseDiscardedAudioUnits \/ settleServiceStop
    \/ \E id \in inflight : discardStaleUnit(id)
    \/ \E newMode \in Modes, rate \in Rates : NewRun(newMode, rate)

Next == Dispatch \/ Answer \/ Render \/ Listener \/ Teardown

Spec == Init /\ [][Next]_vars

-----------------------------------------------------------------------------
(* Properties *)

Sequence == Nat \ {NoSequence}
Segment == [sequence : Sequence, text : Nat]
Unit == [generation : Nat, sequence : Sequence, sampleFrames : Nat,
         consumedSampleFrames : Nat]

RunTypes == identity \in Nat /\ generation \in Nat /\ mode \in Nat

TextTypes ==
    /\ pendingSegments \in Seq(Segment)
    /\ activeSynthesis \in Segment \cup {NoSegment}
    /\ lastAcceptedSequence \in Nat /\ remaining \in Nat
    /\ rangeComplete \in BOOLEAN

UnitTypes ==
    /\ audioUnits \in Seq(Unit) /\ discardedAudioUnits \in Seq(Unit)
    /\ inflight \subseteq Nat \X Sequence
    /\ DOMAIN releases \subseteq Nat \X Sequence
    /\ heard \in Nat

StateTypes ==
    /\ serviceState \in {"stopped", "starting", "unloaded", "preparing",
          "ready", "generating", "cancelling", "stopping", "failed"}
    /\ playbackState \in {"preparing", "playing", "paused", "buffering",
          "complete", "stopped", "failed"}
    /\ initialPlaybackStarted \in BOOLEAN

RateTypes ==
    /\ playbackRate \in [selected : Nat, active : Nat, pending : Nat]
    /\ activePlaybackSequence \in Nat

ResourceTypes ==
    /\ DOMAIN resources = Counters
    /\ \A counter \in Counters : resources[counter] \in Int

\* Every variable has its type.
TypeOK ==
    /\ RunTypes /\ TextTypes /\ UnitTypes /\ StateTypes /\ RateTypes
    /\ ResourceTypes

Active == IF activeSynthesis = NoSegment THEN 0 ELSE 1

\* Nothing accepted for reading aloud is lost, repeated or overtaken between
\* the prepared batch and the listener's ear: heard units, buffered units, the
\* segment in synthesis and the pending segments are, in this order, exactly
\* the accepted sequence, and buffered audio belongs to the current run only.
\* (A failed service drops the segment it worked on; what is buffered still
\* follows what was heard.)
Conveyor ==
    /\ \A i \in 1 .. Len(audioUnits) :
          /\ audioUnits[i].sequence = heard + i
          /\ audioUnits[i].generation = identity
    /\ identity # NoIdentity /\ serviceState # "failed" =>
          LET buffered == heard + Len(audioUnits) IN
          /\ activeSynthesis # NoSegment =>
                activeSynthesis.sequence = buffered + 1
          /\ \A i \in 1 .. Len(pendingSegments) :
                pendingSegments[i].sequence = buffered + Active + i
          /\ lastAcceptedSequence =
                buffered + Active + Len(pendingSegments)

FramesOf(units) ==
    FoldSeq(LAMBDA unit, total : total + unit.sampleFrames, 0, units)
TextPending ==
    FoldSeq(LAMBDA segment, total : total + segment.text, 0, pendingSegments)

\* Every counter the ceilings are checked against equals what the scheduler
\* really owns, through reservations, failures, invalidation and cleanup.  A
\* counter that drifts either blocks synthesis for good or voids a ceiling.
ResourcesMatchOwners ==
    /\ resources.completeAudioUnits =
          Len(audioUnits) + Len(discardedAudioUnits) + Active
    /\ resources.audioSampleFrames =
          FramesOf(audioUnits) + FramesOf(discardedAudioUnits)
              + Active * Reservation
    /\ resources.retainedPreparedSegments = Len(pendingSegments) + Active
    /\ resources.retainedNarrationText = TextPending + activeSynthesis.text
    /\ resources.retainedPreparedBatches =
          IF resources.retainedPreparedSegments = 0 THEN 0 ELSE 1
    /\ resources.activeSyntheses = Active

Occurrences(units, id) ==
    Cardinality({i \in 1 .. Len(units) : UnitId(units[i]) = id})

\* Every unit the service delivered has exactly one owner until it is released
\* exactly once: it is in the FIFO, among the discarded units, or released -
\* played, stale, invalid or cleaned up.
UnitOwnership ==
    \A id \in DOMAIN releases :
        Occurrences(audioUnits, id) + Occurrences(discardedAudioUnits, id)
            + releases[id] = 1

\* Nothing is leaked, neither a counted resource nor a unit of audio.
EverythingIsAccountedFor == ResourcesMatchOwners /\ UnitOwnership

\* Memory stays bounded: no ceiling of the adaptive-buffer authority is ever
\* exceeded, whatever sizes the service returns and whenever runs are replaced.
WithinCeilings == WithinLimits(resources)

\* The listener never waits for nothing: while playback is preparing or
\* buffering and the service has not failed, the scheduler has an operation to
\* dispatch or in progress, or offers to play what is ready.
NoSilentStall ==
    \/ identity = NoIdentity \/ serviceState = "failed"
    \/ playbackState \notin {"preparing", "buffering"}
    \/ canPlayAvailableAudio
    \/ nextAction \notin {"backpressure", "complete", "failed"}

\* What the listener is told is true: playing means that audio is left, and
\* complete means that every accepted segment was heard to its end and that the
\* publication has no more (unless the service failed on the way).
TruthfulPlaybackState ==
    /\ playbackState = "playing" => audioUnits # <<>>
    /\ playbackState = "complete" /\ serviceState # "failed" =>
          heard = lastAcceptedSequence /\ remaining = 0

\* Whatever happens, the listener is neither kept waiting nor misled.
ListenerIsServed == NoSilentStall /\ TruthfulPlaybackState

\* A unit keeps the rate it started with: a rate selected meanwhile waits for
\* the next unit, whatever else happens before this one ends.
HeardUnitKeepsItsRate ==
    [][(/\ audioUnits # <<>> /\ audioUnits' # <<>>
        /\ audioUnits[1].sequence = activePlaybackSequence
        /\ UnitId(audioUnits'[1]) = UnitId(audioUnits[1]))
           => /\ playbackRate'.active = playbackRate.active
              /\ activePlaybackSequence' = activePlaybackSequence]_vars

\* The pump runs after every operation and every tick, every service call is
\* bounded by a timeout, the device renders.  Nothing is assumed of the listener.
FairSpec == Spec /\ WF_vars(Dispatch) /\ WF_vars(Answer) /\ WF_vars(Render)

\* The narration is over, has failed, or needs the listener.
Rests ==
    \/ identity = NoIdentity \/ serviceState = "failed"
    \/ playbackState \in {"complete", "failed", "paused"}
    \/ canPlayAvailableAudio

\* A narration always gets somewhere: left alone it is heard to its end, fails,
\* or offers the listener a choice.  From a resumed pause it does so again.
NarrationProgresses == ~Rests ~> Rests
=============================================================================
