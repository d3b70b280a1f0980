-------------------------- MODULE ReaderPositionSave --------------------------
(***************************************************************************)
(* Saving the reading position and the display preferences of one open     *)
(* publication: ReaderPositionSaveCoordinator of                           *)
(* apps/desktop/src/persistence/reader-position-save-coordinator.ts, with  *)
(* the narration bridge that takes the position over while a voice reads.  *)
(*                                                                         *)
(* The position and the preferences each have a lane: what is wanted, what *)
(* is queued behind the write in progress, and what is known to be saved.  *)
(* A lane writes one thing at a time; the write reaches the storage when   *)
(* it is made and its result is known later, at any moment.                *)
(*                                                                         *)
(* Data: a locator and a preference set are model values.  Locators the    *)
(* publication does not resolve to themselves are refused before anything  *)
(* changes, so only canonical ones occur here.                             *)
(***************************************************************************)
EXTENDS Naturals

CONSTANTS
    Publications,   \* what may be asked for in each: [locators, preferences]
    Segments,       \* narrated segments
    None            \* undefined

\* The positions of the publications, and the display preference sets.
Locators == UNION {p.locators : p \in Publications}
Preferences == UNION {p.preferences : p \in Publications}

ASSUME ValuesAssumption ==
    /\ None \notin Locators \cup Preferences \cup Segments
    /\ \A p, q \in Publications :
          p # q => p.locators \cap q.locators = {}

VARIABLES
    position,       \* the position's lane
    lastRequested,  \* the locator asked for last, or None
    saveRequested,  \* positionSaveRequested
    scheduled,      \* the timer: "none", "passive" or "immediate"
    narrating,      \* narrationActive
    checkpointed,   \* narrationCheckpointed
    protected,      \* protectHeardCheckpoint
    heardSegment,   \* activeHeardSegmentId
    preferences,    \* the preferences' lane
    lastPreferred,  \* the preferences asked for last, or None
    preferring,     \* the preferences' timer is running
    closed,
    heard,          \* locators heard during this narration
    lastHeard       \* the locator of the last heard checkpoint, or None

positionVars == <<position, lastRequested, saveRequested, scheduled>>
narrationVars ==
    <<narrating, checkpointed, protected, heardSegment, heard, lastHeard>>
preferenceVars == <<preferences, lastPreferred, preferring>>

vars == <<positionVars, narrationVars, preferenceVars, closed>>

\* The one that is open, by its positions.
publication == CHOOSE p \in Publications : position.latest \in p.locators

-----------------------------------------------------------------------------
(* A lane *)

\* latest: wanted now; writing, queued: None or a value; saved: the last value
\* known to be saved; written, ok: the last write and whether it succeeds;
\* stored: what the storage holds; writesLatest, queuesLatest: the write and
\* the queue hold the very object that is wanted.
EmptyLane(latest, stored) ==
    [latest |-> latest, writing |-> None, queued |-> None, saved |-> None,
     written |-> None, ok |-> TRUE, stored |-> stored,
     writesLatest |-> TRUE, queuesLatest |-> TRUE]

\* Another object is wanted.
Want(lane, value) ==
    [lane EXCEPT !.latest = value, !.writesLatest = FALSE,
                 !.queuesLatest = FALSE]

\* A write is made; ok is what the storage makes of it.
Begin(lane, value, isLatest, ok) ==
    [lane EXCEPT !.writing = value, !.queued = None, !.written = value,
                 !.ok = ok, !.stored = IF ok THEN value ELSE @,
                 !.writesLatest = isLatest]

\* Mutated form: an obsolete value stays queued.
QueueLatest_keepsQueue(lane, ok) ==
    IF lane.writing # None
    THEN IF lane.writing = lane.latest THEN lane
         ELSE [lane EXCEPT !.queued = lane.latest, !.queuesLatest = TRUE]
    ELSE IF lane.saved = lane.latest THEN [lane EXCEPT !.queued = None]
    ELSE Begin(lane, lane.latest, TRUE, ok)

\* What is wanted is written now or after the write in progress, unless that
\* write, or the last one saved, holds the same value.
QueueLatest(lane, ok) ==
    IF lane.writing # None
    THEN [lane EXCEPT !.queued = IF lane.writing = lane.latest THEN None
                                                               ELSE lane.latest,
                      !.queuesLatest = TRUE]
    ELSE IF lane.saved = lane.latest THEN [lane EXCEPT !.queued = None]
    ELSE Begin(lane, lane.latest, TRUE, ok)

\* Mutated form: the drain ends with the write it was started for.
Settle_endsDrain(lane, ok) ==
    [lane EXCEPT !.saved = IF lane.ok THEN lane.writing ELSE @,
                 !.writing = None]

\* The result of the write arrives; the drain goes on with the queued value.
Settle(lane, ok) ==
    LET settled == [lane EXCEPT !.saved = IF lane.ok THEN lane.writing ELSE @,
                                !.writing = None]
    IN  IF lane.queued = None THEN settled
        ELSE Begin(settled, lane.queued, lane.queuesLatest, ok)

queueLatestPosition(ok) ==
    IF saveRequested THEN QueueLatest(position, ok) ELSE position

queueLatestPreferences(ok) ==
    IF preferences.latest = None THEN preferences ELSE QueueLatest(preferences, ok)

-----------------------------------------------------------------------------
\* A publication is opened where it was left (nothing to save), at its start
\* (saved by the first flush), or at a recovered place.
Init ==
    /\ \E p \in Publications :
          \E locator \in p.locators, stored \in p.locators \cup {None} :
             /\ position = EmptyLane(locator, stored)
             /\ saveRequested = (stored = None)
    /\ lastRequested = None /\ scheduled = "none"
    /\ narrating = FALSE /\ checkpointed = FALSE /\ protected = FALSE
    /\ heardSegment = None /\ heard = {} /\ lastHeard = None
    /\ preferences = EmptyLane(None, None)
    /\ lastPreferred = None /\ preferring = FALSE
    /\ closed = FALSE

-----------------------------------------------------------------------------
(* The position is asked for *)

Duplicate(locator, kind) ==
    /\ lastRequested = locator
    /\ kind = "passive" \/ scheduled # "passive"

\* Nothing is written where the storage already holds the locator.
AlreadySaved(locator) == position.writing = None /\ position.saved = locator

\* Whether schedulePosition accepts the locator.
Accepts(locator, kind) == ~Duplicate(locator, kind) /\ ~AlreadySaved(locator)

schedulePosition(locator, kind) ==
    IF Duplicate(locator, kind) THEN UNCHANGED positionVars
    ELSE /\ position' = [position EXCEPT !.latest = locator]
         /\ lastRequested' = locator /\ saveRequested' = TRUE
         /\ scheduled' = IF AlreadySaved(locator) THEN "none"
                         ELSE IF scheduled = "immediate" THEN "immediate"
                         ELSE kind

\* schedulePassive and scheduleImmediate: the reader moved.
UserMoves(locator, kind) ==
    /\ ~closed /\ ~narrating
    /\ schedulePosition(locator, kind)
    /\ protected' = IF Accepts(locator, kind) THEN FALSE ELSE protected
    /\ UNCHANGED <<narrating, checkpointed, heardSegment, heard, lastHeard,
                   preferenceVars, closed>>

\* The page was laid out again around the same place.
scheduleReflow(locator) ==
    /\ ~closed /\ ~narrating /\ ~protected
    /\ schedulePosition(locator, "immediate")
    /\ UNCHANGED <<narrationVars, preferenceVars, closed>>

\* The position's timer runs out.
positionTimer ==
    /\ scheduled # "none"
    /\ scheduled' = "none"
    /\ \E ok \in BOOLEAN : position' = queueLatestPosition(ok)
    /\ UNCHANGED <<lastRequested, saveRequested, narrationVars, preferenceVars,
                   closed>>

-----------------------------------------------------------------------------
(* A voice reads *)

\* Mutated form: what the reader asked for before stays queued.
beginNarration_keepsQueue ==
    /\ ~closed /\ ~narrating
    /\ narrating' = TRUE /\ checkpointed' = FALSE
    /\ heardSegment' = None /\ heard' = {}
    /\ scheduled' = "none" /\ lastRequested' = None /\ saveRequested' = FALSE
    /\ UNCHANGED <<position, protected, lastHeard, preferenceVars, closed>>

\* Pending visual saves are cancelled: what is heard counts from here.
beginNarration ==
    /\ ~closed /\ ~narrating
    /\ narrating' = TRUE /\ checkpointed' = FALSE
    /\ heardSegment' = None /\ heard' = {}
    /\ scheduled' = "none" /\ lastRequested' = None /\ saveRequested' = FALSE
    /\ position' = [position EXCEPT !.queued = None]
    /\ UNCHANGED <<protected, lastHeard, preferenceVars, closed>>

\* A segment became audible, or the audible one was heard to its end.
recordHeardCheckpoint(kind, segment, locator) ==
    /\ ~closed /\ narrating
    /\ kind = "segment-completed" => segment = heardSegment
    /\ heardSegment' = IF kind = "segment-started" THEN segment ELSE None
    /\ checkpointed' = TRUE /\ protected' = TRUE
    /\ heard' = heard \cup {locator} /\ lastHeard' = locator
    /\ schedulePosition(locator, "immediate")
    /\ UNCHANGED <<narrating, preferenceVars, closed>>

\* What flush does to the timers and the lanes.
Flush ==
    /\ scheduled' = "none" /\ preferring' = FALSE
    /\ \E ok \in BOOLEAN : position' = queueLatestPosition(ok)
    /\ \E ok \in BOOLEAN : preferences' = queueLatestPreferences(ok)
    /\ UNCHANGED <<lastRequested, saveRequested, lastPreferred>>

\* The voice stops, fails, completes or is replaced.
finishNarration ==
    /\ ~closed /\ narrating
    /\ narrating' = FALSE /\ checkpointed' = FALSE /\ heardSegment' = None
    /\ protected' = (protected \/ checkpointed)
    /\ Flush
    /\ UNCHANGED <<heard, lastHeard, closed>>

-----------------------------------------------------------------------------
(* Preferences, lifecycle, results *)

savePreferences(chosen) ==
    /\ ~closed /\ lastPreferred # chosen
    /\ preferences' = Want(preferences, chosen)
    /\ lastPreferred' = chosen /\ preferring' = TRUE
    /\ UNCHANGED <<positionVars, narrationVars, closed>>

preferencesTimer ==
    /\ preferring
    /\ preferring' = FALSE
    /\ \E ok \in BOOLEAN : preferences' = queueLatestPreferences(ok)
    /\ UNCHANGED <<positionVars, narrationVars, lastPreferred, closed>>

\* Pause, buffering, a hidden document, a page that is left.
flush ==
    /\ ~closed
    /\ Flush
    /\ UNCHANGED <<narrationVars, closed>>

close ==
    /\ ~closed
    /\ closed' = TRUE
    /\ Flush
    /\ UNCHANGED narrationVars

settlePosition ==
    /\ position.writing # None
    /\ \E ok \in BOOLEAN : position' = Settle(position, ok)
    /\ UNCHANGED <<lastRequested, saveRequested, scheduled, narrationVars,
                   preferenceVars, closed>>

\* A failed write of what is wanted may be asked for again.
settlePreferences ==
    /\ preferences.writing # None
    /\ \E ok \in BOOLEAN : preferences' = Settle(preferences, ok)
    /\ lastPreferred' =
          IF ~closed /\ preferences.writesLatest /\ ~preferences.ok
          THEN None ELSE lastPreferred
    /\ UNCHANGED <<positionVars, narrationVars, preferring, closed>>

-----------------------------------------------------------------------------
Reader ==
    \/ \E locator \in publication.locators :
          \/ \E kind \in {"passive", "immediate"} : UserMoves(locator, kind)
          \/ scheduleReflow(locator)
    \/ \E chosen \in publication.preferences : savePreferences(chosen)
    \/ flush \/ close

Voice ==
    \/ beginNarration \/ finishNarration
    \/ \E kind \in {"segment-started", "segment-completed"},
          segment \in Segments, locator \in publication.locators :
              recordHeardCheckpoint(kind, segment, locator)

Timers == positionTimer \/ preferencesTimer

Results == settlePosition \/ settlePreferences

Next == Reader \/ Voice \/ Timers \/ Results

Spec == Init /\ [][Next]_vars

\* Timers run out and the storage answers; nothing is assumed of the reader.
FairSpec ==
    /\ Spec
    /\ WF_vars(positionTimer) /\ WF_vars(preferencesTimer)
    /\ WF_vars(settlePosition) /\ WF_vars(settlePreferences)

-----------------------------------------------------------------------------
(* Properties *)

Lane(Values) ==
    [latest : Values \cup {None}, writing : Values \cup {None},
     queued : Values \cup {None}, saved : Values \cup {None},
     written : Values \cup {None}, ok : BOOLEAN,
     stored : Values \cup {None}, writesLatest : BOOLEAN,
     queuesLatest : BOOLEAN]

\* Every variable has its type, and nothing is queued without a write to wait
\* for: a position left there would be forgotten.
TypeOK ==
    /\ position \in Lane(Locators) /\ position.latest # None
    /\ preferences \in Lane(Preferences)
    /\ position.queued # None => position.writing # None
    /\ preferences.queued # None => preferences.writing # None
    /\ lastRequested \in Locators \cup {None}
    /\ lastPreferred \in Preferences \cup {None}
    /\ scheduled \in {"none", "passive", "immediate"}
    /\ heardSegment \in Segments \cup {None}
    /\ heard \subseteq Locators /\ lastHeard \in Locators \cup {None}
    /\ saveRequested \in BOOLEAN /\ preferring \in BOOLEAN
    /\ narrating \in BOOLEAN /\ checkpointed \in BOOLEAN
    /\ protected \in BOOLEAN /\ closed \in BOOLEAN

Attempted(lane) ==
    \/ lane.stored = lane.latest
    \/ lane.written = lane.latest /\ ~lane.ok

\* Closing a publication loses no position: once its writes have settled, the
\* storage holds the last position asked for, unless that very write failed.
CloseSavesPosition ==
    closed /\ saveRequested /\ position.writing = None => Attempted(position)

\* Nor does it lose the preferences chosen last.
CloseSavesPreferences ==
    closed /\ preferences.latest # None /\ preferences.writing = None
        => Attempted(preferences)

\* Preferences whose write failed can be asked for again: what is refused as a
\* repetition is stored, or on its way.  (The exception is a choice repeated
\* while the failing write of the same choice is in progress.)
RefusedPreferencesAreSaved ==
    ~closed /\ lastPreferred # None =>
        \/ preferring \/ preferences.writing # None
        \/ preferences.saved = lastPreferred
        \/ ~preferences.writesLatest

\* What the reader asked for reaches the storage: closing loses neither the
\* position nor the preferences, and no choice is refused that is not saved.
NothingAskedForIsLost ==
    CloseSavesPosition /\ CloseSavesPreferences /\ RefusedPreferencesAreSaved

\* While a voice reads, only what was heard is written: no visual position
\* asked for before it started, and none the reader scrolls past meanwhile.
OnlyHeardWhileNarrating ==
    [][(/\ narrating
        /\ position'.writing # None /\ position'.writing # position.writing)
           => checkpointed /\ position'.writing \in heard]_vars

\* A heard position stays the one to be saved until the reader moves: neither
\* a new layout nor the end of the narration replaces it.  (A move back to the
\* position that is already saved needs no write and leaves the mark.)
HeardIsProtected ==
    protected => position.latest \in {lastHeard, position.saved}

\* Between the voice, the layout and the reader, the position belongs to the
\* voice while it reads, and to what was heard until the reader moves.
VoiceOwnsThePosition == OnlyHeardWhileNarrating /\ []HeardIsProtected

\* Every position that was asked for is written, or replaced by another one,
\* or dropped because a voice starts.
PositionsSettle ==
    \A locator \in Locators :
        lastRequested = locator
            ~> lastRequested # locator \/ Attempted(position)
=============================================================================
