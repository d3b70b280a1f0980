-------------------------- MODULE HeardAndSaved_proofs --------------------------
(***************************************************************************)
(* What a listener hears and what is kept of it: theorems about the saving *)
(* of the reading position (ReaderPositionSave) and about the player       *)
(* (PcmPlayer).  The two are proved side by side, neither rests on the     *)
(* other.                                                                  *)
(*                                                                         *)
(* Saving: TypeOK, NothingAskedForIsLost and VoiceOwnsThePosition, for any *)
(* publications, positions, preference sets and segments.  None of them is *)
(* inductive.  What a lane knows of the storage (Sound) is needed to see   *)
(* that a value that is not written again is there already; that what is   *)
(* wanted is being written or next in line (InHand) is what a flush leaves *)
(* behind and every result keeps.  The narration's part is in PositionInv: *)
(* while a voice reads, whatever waits to be written was heard.            *)
(*                                                                         *)
(* Playing: PlayerTypeOK, ListenerCannotFailIt and HeardAsWritten, for any *)
(* number of units and transitions, lengths, rates and requests.  The      *)
(* inductive invariant is Good: the unit that plays is the first of the    *)
(* buffer (Plays), what the context was asked and still owes (Asks), the   *)
(* silence kept so far (Keeps), what a stop leaves (Ended), that a         *)
(* preparation and the creation it waits for go together (Prepares), that  *)
(* a pause holds something back (HeldBack), and the story told so far      *)
(* (Told).  The handlers all end with synchronize, so what synchronize     *)
(* keeps (SynchronizeGood) is proved once, from what each of its parts     *)
(* keeps.                                                                  *)
(***************************************************************************)
EXTENDS PcmPlayer, ReaderPositionSave, TLAPS

-----------------------------------------------------------------------------
(* Saving: the parts of the invariant *)

\* What a lane knows: the write in progress is the last one, a write that
\* succeeds is in the storage, and so is what is known to be saved, unless a
\* newer write has just succeeded.
Sound(lane) ==
    /\ lane.queued # None => lane.writing # None
    /\ lane.writing # None => lane.written = lane.writing
    /\ lane.written # None /\ lane.ok => lane.stored = lane.written
    /\ lane.saved # None /\ (lane.writing = None \/ ~lane.ok) =>
          lane.stored = lane.saved

\* What is wanted was attempted, is being written, or comes next.
InHand(lane) ==
    /\ lane.writing = None => Attempted(lane)
    /\ lane.writing # None /\ lane.queued = None => lane.writing = lane.latest
    /\ lane.queued # None => lane.queued = lane.latest

\* The flags tell whether the very object is meant.
Objects(lane) ==
    /\ lane.writesLatest /\ lane.writing # None => lane.writing = lane.latest
    /\ lane.queuesLatest /\ lane.queued # None => lane.queued = lane.latest

-----------------------------------------------------------------------------
(* A lane *)

\* What is wanted is queued, or written at once.
LEMMA Queued ==
    ASSUME NEW Values, None \notin Values, NEW lane \in Lane(Values),
           Sound(lane), lane.latest # None, NEW ok \in BOOLEAN,
           NEW after, after = QueueLatest(lane, ok)
    PROVE  /\ after \in Lane(Values) /\ Sound(after) /\ InHand(after)
           /\ Objects(lane) => Objects(after)
           /\ after.latest = lane.latest /\ after.saved = lane.saved
           /\ after.queued \in {None, lane.latest}
           /\ after.writing \in {lane.writing, lane.latest}
           /\ IF lane.writing = None /\ lane.saved = lane.latest
              THEN after.writing = None
              ELSE after.writing # None
<1>1. CASE lane.writing # None
  <2>1. after = [lane EXCEPT !.queued = IF lane.writing = lane.latest THEN None
                                        ELSE lane.latest,
                             !.queuesLatest = TRUE]
    BY <1>1 DEF QueueLatest
  <2>2. after \in Lane(Values)
    BY <2>1 DEF Lane
  <2>3. /\ after.latest = lane.latest /\ after.saved = lane.saved
        /\ after.writing = lane.writing /\ after.written = lane.written
        /\ after.ok = lane.ok /\ after.stored = lane.stored
        /\ after.writesLatest = lane.writesLatest
        /\ after.queued = IF lane.writing = lane.latest THEN None ELSE lane.latest
    BY <2>1 DEF Lane
  <2> QED BY <1>1, <2>2, <2>3 DEF Sound, InHand, Objects
<1>2. CASE lane.writing = None /\ lane.saved = lane.latest
  <2>1. after = [lane EXCEPT !.queued = None]
    BY <1>2 DEF QueueLatest
  <2>2. after \in Lane(Values)
    BY <2>1 DEF Lane
  <2>3. /\ after.latest = lane.latest /\ after.saved = lane.saved
        /\ after.writing = lane.writing /\ after.written = lane.written
        /\ after.ok = lane.ok /\ after.stored = lane.stored
        /\ after.writesLatest = lane.writesLatest /\ after.queued = None
    BY <2>1 DEF Lane
  <2> QED BY <1>2, <2>2, <2>3 DEF Sound, InHand, Objects, Attempted
<1>3. CASE lane.writing = None /\ lane.saved # lane.latest
  <2>1. after = Begin(lane, lane.latest, TRUE, ok)
    BY <1>3 DEF QueueLatest
  <2>2. after \in Lane(Values)
    BY <2>1 DEF Lane, Begin
  <2>3. /\ after.latest = lane.latest /\ after.saved = lane.saved
        /\ after.writing = lane.latest /\ after.written = lane.latest
        /\ after.ok = ok /\ after.queued = None
        /\ after.stored = IF ok THEN lane.latest ELSE lane.stored
    BY <2>1 DEF Lane, Begin
  <2> QED BY <1>3, <2>2, <2>3 DEF Sound, InHand, Objects
<1> QED BY <1>1, <1>2, <1>3

\* The result of a write arrives, and what is queued is written.
LEMMA SettledLane ==
    ASSUME NEW Values, None \notin Values, NEW lane \in Lane(Values),
           Sound(lane), lane.writing # None, NEW ok \in BOOLEAN,
           NEW after, after = Settle(lane, ok)
    PROVE  /\ after \in Lane(Values) /\ Sound(after)
           /\ InHand(lane) => InHand(after)
           /\ Objects(lane) => Objects(after)
           /\ after.latest = lane.latest
           /\ after.queued = None /\ after.writing = lane.queued
           /\ lane.queued = None =>
                 /\ after.saved = IF lane.ok THEN lane.writing ELSE lane.saved
                 /\ after.writesLatest = lane.writesLatest
<1> DEFINE settled == [lane EXCEPT !.saved = IF lane.ok THEN lane.writing ELSE @,
                                   !.writing = None]
<1>1. settled \in Lane(Values)
  BY DEF Lane
<1>2. /\ settled.latest = lane.latest /\ settled.queued = lane.queued
      /\ settled.saved = IF lane.ok THEN lane.writing ELSE lane.saved
      /\ settled.writing = None /\ settled.written = lane.written
      /\ settled.ok = lane.ok /\ settled.stored = lane.stored
      /\ settled.writesLatest = lane.writesLatest
      /\ settled.queuesLatest = lane.queuesLatest
  BY DEF Lane
<1>3. after = IF lane.queued = None THEN settled
              ELSE Begin(settled, lane.queued, lane.queuesLatest, ok)
  BY DEF Settle
<1> HIDE DEF settled
<1>4. settled.saved # None => settled.stored = settled.saved
  BY <1>2 DEF Sound
<1>5. CASE lane.queued = None
  BY <1>1, <1>2, <1>3, <1>4, <1>5 DEF Sound, InHand, Objects, Attempted
<1>6. CASE lane.queued # None
  <2>1. after = Begin(settled, lane.queued, lane.queuesLatest, ok)
    BY <1>3, <1>6
  <2>2. lane.queued \in Values /\ lane.queuesLatest \in BOOLEAN
    BY <1>6 DEF Lane
  <2>3. after \in Lane(Values)
    BY <1>1, <2>1, <2>2 DEF Lane, Begin
  <2>4. /\ after.latest = lane.latest /\ after.saved = settled.saved
        /\ after.writing = lane.queued /\ after.written = lane.queued
        /\ after.ok = ok /\ after.queued = None
        /\ after.stored = IF ok THEN lane.queued ELSE settled.stored
        /\ after.writesLatest = lane.queuesLatest
    BY <1>1, <1>2, <2>1 DEF Lane, Begin
  <2> QED BY <1>4, <1>6, <2>3, <2>4 DEF Sound, InHand, Objects
<1> QED BY <1>5, <1>6

-----------------------------------------------------------------------------
(* The invariant *)

\* What is asked for belongs to the publication that is open.
LEMMA OpenPublication ==
    ASSUME position.latest \in Locators
    PROVE  publication.locators \subseteq Locators
           /\ publication.preferences \subseteq Preferences
<1>1. \E p \in Publications : position.latest \in p.locators
  BY DEF Locators
<1>2. publication \in Publications
  BY <1>1 DEF publication
<1> HIDE DEF publication
<1> QED BY <1>2 DEF Locators, Preferences

PositionTypes ==
    /\ position \in Lane(Locators) /\ position.latest # None
    /\ lastRequested \in {None, position.latest}
    /\ scheduled \in {"none", "passive", "immediate"}
    /\ saveRequested \in BOOLEAN

NarrationTypes ==
    /\ heardSegment \in Segments \cup {None}
    /\ heard \subseteq Locators /\ lastHeard \in Locators \cup {None}
    /\ narrating \in BOOLEAN /\ checkpointed \in BOOLEAN
    /\ protected \in BOOLEAN /\ closed \in BOOLEAN

\* A position that is protected is the heard one, or is saved with nothing under
\* way that could replace it.
Protects ==
    protected => \/ position.latest = lastHeard
                 \/ position.latest = position.saved /\ position.writing = None

\* While a voice reads, whatever waits to be written was heard.
OnlyHeardWaits ==
    /\ checkpointed => protected /\ narrating
    /\ narrating =>
          /\ saveRequested => checkpointed /\ position.latest \in heard
          /\ position.queued # None => checkpointed /\ position.queued \in heard

\* A close has left the timer off and what was asked for in hand.
PositionCloses ==
    closed => scheduled = "none" /\ (saveRequested => InHand(position))

PositionInv ==
    /\ PositionTypes /\ NarrationTypes /\ Sound(position)
    /\ Protects /\ OnlyHeardWaits /\ PositionCloses

PreferencesInv ==
    /\ preferences \in Lane(Preferences) /\ preferring \in BOOLEAN
    /\ Sound(preferences) /\ Objects(preferences)
    /\ lastPreferred \in {None, preferences.latest}
    /\ ~closed /\ lastPreferred # None =>
          \/ preferring \/ preferences.writing # None
          \/ preferences.saved = lastPreferred
          \/ ~preferences.writesLatest
    /\ closed => ~preferring
                 /\ (preferences.latest # None => InHand(preferences))

SavesInv == PositionInv /\ PreferencesInv

LEMMA Values ==
    None \notin Locators /\ None \notin Preferences /\ None \notin Segments
BY ValuesAssumption

LEMMA SavesAtStart == Init => SavesInv
<1> SUFFICES ASSUME Init PROVE SavesInv
  OBVIOUS
<1>a. PICK p \in Publications :
         \E locator \in p.locators, stored \in p.locators \cup {None} :
            /\ position = EmptyLane(locator, stored)
            /\ saveRequested = (stored = None)
  BY DEF Init
<1>1. PICK locator \in p.locators, stored \in p.locators \cup {None} :
         /\ position = EmptyLane(locator, stored)
         /\ saveRequested = (stored = None)
  BY <1>a
<1>2. locator \in Locators /\ stored \in Locators \cup {None} /\ locator # None
  BY <1>1, Values DEF Locators
<1>3. /\ position \in Lane(Locators) /\ position.latest # None
      /\ position.queued = None /\ position.writing = None
      /\ position.written = None /\ position.saved = None
  BY <1>1, <1>2 DEF EmptyLane, Lane
<1>4. saveRequested \in BOOLEAN
  BY <1>1
<1>5. PositionInv
  BY <1>3, <1>4 DEF Init, PositionInv, PositionTypes, NarrationTypes, Sound, Protects,
                    OnlyHeardWaits, PositionCloses
<1>6. preferences = EmptyLane(None, None)
  BY DEF Init
<1>7. /\ preferences \in Lane(Preferences)
      /\ preferences.queued = None /\ preferences.writing = None
      /\ preferences.written = None /\ preferences.saved = None
      /\ preferences.latest = None
  BY <1>6 DEF EmptyLane, Lane
<1>8. PreferencesInv
  BY <1>7 DEF Init, PreferencesInv, Sound, Objects
<1> QED BY <1>5, <1>8 DEF SavesInv

-----------------------------------------------------------------------------
(* The position *)

\* A flush or a timer leaves what was asked for in hand.
LEMMA PositionQueued ==
    ASSUME PositionInv, NEW ok \in BOOLEAN, position' = queueLatestPosition(ok)
    PROVE  /\ position' \in Lane(Locators) /\ Sound(position)'
           /\ position'.latest = position.latest
           /\ position'.saved = position.saved
           /\ saveRequested => InHand(position)'
           /\ saveRequested => position'.queued \in {None, position.latest}
           /\ ~saveRequested => position' = position
           /\ position'.writing # position.writing =>
                 saveRequested /\ position'.writing = position.latest
           /\ position.latest = position.saved /\ position.writing = None =>
                 position'.writing = None
<1>1. position \in Lane(Locators) /\ Sound(position) /\ position.latest # None
  BY DEF PositionInv, PositionTypes
<1>2. CASE saveRequested
  <2> DEFINE after == QueueLatest(position, ok)
  <2>1. position' = after
    BY <1>2 DEF queueLatestPosition
  <2>2. /\ after \in Lane(Locators) /\ Sound(after) /\ InHand(after)
        /\ after.latest = position.latest /\ after.saved = position.saved
        /\ after.queued \in {None, position.latest}
        /\ after.writing \in {position.writing, position.latest}
        /\ IF position.writing = None /\ position.saved = position.latest
           THEN after.writing = None
           ELSE after.writing # None
    <3> HIDE DEF after
    <3> QED BY <1>1, Queued, Values DEF after
  <2> HIDE DEF after
  <2>3. Sound(position)' /\ InHand(position)'
    BY <2>1, <2>2 DEF Sound, InHand, Attempted
  <2> QED BY <1>2, <2>1, <2>2, <2>3
<1>3. CASE ~saveRequested
  <2>1. position' = position
    BY <1>3 DEF queueLatestPosition
  <2> QED BY <1>1, <1>3, <2>1 DEF Sound
<1> QED BY <1>2, <1>3

\* A request changes what is wanted, and leaves the writes alone.
LEMMA PositionAsked ==
    ASSUME PositionInv, NEW locator \in Locators, NEW kind \in {"passive", "immediate"},
           schedulePosition(locator, kind)
    PROVE  /\ PositionTypes' /\ Sound(position)'
           /\ position'.latest = locator
           /\ position'.saved = position.saved /\ position'.writing = position.writing
           /\ position'.queued = position.queued
           /\ Duplicate(locator, kind) => position' = position
<1>1. /\ position \in Lane(Locators) /\ Sound(position) /\ position.latest # None
      /\ PositionTypes /\ locator # None
  BY Values DEF PositionInv, PositionTypes
<1>2. CASE Duplicate(locator, kind)
  <2>1. UNCHANGED positionVars
    BY <1>2 DEF schedulePosition
  <2>2. position.latest = locator
    BY <1>1, <1>2 DEF Duplicate, PositionTypes
  <2> QED BY <1>1, <2>1, <2>2 DEF positionVars, PositionTypes, Sound
<1>3. CASE ~Duplicate(locator, kind)
  <2>1. /\ position' = [position EXCEPT !.latest = locator]
        /\ lastRequested' = locator /\ saveRequested' = TRUE
        /\ scheduled' \in {"none", "passive", "immediate"}
    BY <1>3 DEF schedulePosition
  <2>2. position' \in Lane(Locators)
    BY <1>1, <2>1 DEF Lane
  <2>3. /\ position'.latest = locator
        /\ position'.saved = position.saved /\ position'.writing = position.writing
        /\ position'.queued = position.queued /\ position'.written = position.written
        /\ position'.ok = position.ok /\ position'.stored = position.stored
    BY <1>1, <2>1 DEF Lane
  <2> QED BY <1>1, <1>3, <2>1, <2>2, <2>3 DEF PositionTypes, Sound
<1> QED BY <1>2, <1>3

\* The reader moves, or the page is laid out again.
LEMMA ReaderStep ==
    ASSUME PositionInv, NEW locator \in publication.locators,
           \/ \E kind \in {"passive", "immediate"} : UserMoves(locator, kind)
           \/ scheduleReflow(locator)
    PROVE  PositionInv'
<1>0. locator \in Locators
  BY OpenPublication DEF PositionInv, PositionTypes, Lane
<1>1. /\ ~closed /\ ~narrating /\ closed' = closed
      /\ UNCHANGED <<narrating, checkpointed, heardSegment, heard, lastHeard>>
  BY DEF UserMoves, scheduleReflow, narrationVars
<1>2. PICK kind \in {"passive", "immediate"} :
         /\ schedulePosition(locator, kind)
         /\ \/ UserMoves(locator, kind)
            \/ ~protected /\ protected' = protected
  BY DEF UserMoves, scheduleReflow, narrationVars
<1>3. /\ PositionTypes' /\ Sound(position)'
      /\ position'.latest = locator
      /\ position'.saved = position.saved /\ position'.writing = position.writing
      /\ Duplicate(locator, kind) => position' = position
  BY <1>0, <1>2, PositionAsked
<1>4. protected' \in BOOLEAN /\ (protected' => protected)
  <2>1. CASE UserMoves(locator, kind) /\ Accepts(locator, kind)
    BY <2>1 DEF UserMoves
  <2>2. CASE UserMoves(locator, kind) /\ ~Accepts(locator, kind)
    <3>1. protected' = protected
      BY <2>2 DEF UserMoves
    <3> QED BY <3>1 DEF PositionInv, NarrationTypes
  <2>3. CASE ~protected /\ protected' = protected
    BY <2>3 DEF PositionInv, NarrationTypes
  <2> QED BY <1>2, <2>1, <2>2, <2>3
<1>5. Protects'
  <2>1. SUFFICES ASSUME protected' PROVE
            \/ position'.latest = lastHeard
            \/ position'.latest = position'.saved /\ position'.writing = None
    BY <1>1 DEF Protects
  <2>2. protected /\ UserMoves(locator, kind) /\ ~Accepts(locator, kind)
    BY <1>2, <1>4, <2>1 DEF UserMoves
  <2>3. CASE Duplicate(locator, kind)
    BY <1>3, <2>2, <2>3 DEF PositionInv, Protects
  <2>4. CASE AlreadySaved(locator)
    BY <1>3, <2>4 DEF AlreadySaved
  <2> QED BY <2>2, <2>3, <2>4 DEF Accepts
<1>6. OnlyHeardWaits' /\ PositionCloses' /\ NarrationTypes'
  BY <1>1, <1>4 DEF PositionInv, OnlyHeardWaits, PositionCloses, NarrationTypes
<1> QED BY <1>3, <1>5, <1>6 DEF PositionInv

\* A voice begins: nothing waits.
LEMMA BeginStep ==
    ASSUME PositionInv, beginNarration
    PROVE  PositionInv'
<1>1. position \in Lane(Locators) /\ position.latest # None /\ ~closed /\ ~narrating
  BY DEF PositionInv, PositionTypes, beginNarration
<1>2. position' = [position EXCEPT !.queued = None]
  BY DEF beginNarration
<1>3. position' \in Lane(Locators)
  BY <1>1, <1>2 DEF Lane
<1>4. /\ position'.latest = position.latest /\ position'.queued = None
      /\ position'.saved = position.saved /\ position'.writing = position.writing
      /\ position'.written = position.written
      /\ position'.ok = position.ok /\ position'.stored = position.stored
  BY <1>1, <1>2 DEF Lane
<1>5. PositionTypes' /\ Sound(position)'
  BY <1>1, <1>3, <1>4 DEF PositionInv, PositionTypes, Sound, beginNarration
<1>6. /\ narrating' = TRUE /\ checkpointed' = FALSE /\ heardSegment' = None
      /\ heard' = {} /\ saveRequested' = FALSE
      /\ UNCHANGED <<protected, lastHeard, closed>>
  BY DEF beginNarration
<1>7. Protects' /\ OnlyHeardWaits' /\ PositionCloses' /\ NarrationTypes'
  BY <1>1, <1>4, <1>6
     DEF PositionInv, Protects, OnlyHeardWaits, PositionCloses, NarrationTypes
<1> QED BY <1>5, <1>7 DEF PositionInv

\* A checkpoint makes what was heard the position that is wanted.
LEMMA CheckpointStep ==
    ASSUME PositionInv, NEW locator \in publication.locators, NEW segment \in Segments,
           NEW kind \in {"segment-started", "segment-completed"},
           recordHeardCheckpoint(kind, segment, locator)
    PROVE  PositionInv'
<1>0. locator \in Locators
  BY OpenPublication DEF PositionInv, PositionTypes, Lane
<1>1. /\ ~closed /\ narrating /\ narrating' = narrating /\ closed' = closed
      /\ checkpointed' = TRUE /\ protected' = TRUE
      /\ heard' = heard \cup {locator} /\ lastHeard' = locator
      /\ heardSegment' \in Segments \cup {None}
  BY DEF recordHeardCheckpoint
<1>2. /\ PositionTypes' /\ Sound(position)' /\ position'.latest = locator
      /\ position'.queued = position.queued
  BY <1>0, PositionAsked DEF recordHeardCheckpoint
<1>3. Protects' /\ OnlyHeardWaits' /\ PositionCloses' /\ NarrationTypes'
  BY <1>0, <1>1, <1>2
     DEF PositionInv, Protects, OnlyHeardWaits, PositionCloses, NarrationTypes
<1> QED BY <1>2, <1>3 DEF PositionInv

\* What is wanted is queued or written: by the timer, a flush, the end of a
\* narration or a close.
LEMMA FlushStep ==
    ASSUME PositionInv,
           positionTimer \/ finishNarration \/ flush \/ close
    PROVE  PositionInv'
<1>1. PICK ok \in BOOLEAN : position' = queueLatestPosition(ok)
  BY DEF positionTimer, finishNarration, flush, close, Flush
<1>2. /\ scheduled' = "none" /\ UNCHANGED <<lastRequested, saveRequested>>
      /\ UNCHANGED <<heard, lastHeard>>
      /\ \/ UNCHANGED <<narrating, checkpointed, heardSegment, protected>>
         \/ /\ narrating /\ narrating' = FALSE /\ checkpointed' = FALSE
            /\ heardSegment' = None /\ protected' = (protected \/ checkpointed)
      /\ closed' \in {closed, TRUE}
  BY DEF positionTimer, finishNarration, flush, close, Flush, narrationVars
<1>3. /\ position' \in Lane(Locators) /\ Sound(position)'
      /\ position'.latest = position.latest
      /\ position'.saved = position.saved
      /\ saveRequested => InHand(position)'
      /\ saveRequested => position'.queued \in {None, position.latest}
      /\ ~saveRequested => position' = position
      /\ position.latest = position.saved /\ position.writing = None =>
            position'.writing = None
  BY <1>1, PositionQueued
<1>4. PositionTypes' /\ NarrationTypes'
  BY <1>2, <1>3 DEF PositionInv, PositionTypes, NarrationTypes
<1>5. Protects'
  BY <1>2, <1>3 DEF PositionInv, Protects, OnlyHeardWaits
<1>6. OnlyHeardWaits'
  BY <1>2, <1>3 DEF PositionInv, OnlyHeardWaits
<1>7. PositionCloses'
  BY <1>2, <1>3 DEF PositionCloses
<1> QED BY <1>3, <1>4, <1>5, <1>6, <1>7 DEF PositionInv

\* The result of a write arrives.
LEMMA ResultStep ==
    ASSUME PositionInv, settlePosition
    PROVE  PositionInv'
<1>1. PICK ok \in BOOLEAN : position' = Settle(position, ok)
  BY DEF settlePosition
<1>2. /\ position \in Lane(Locators) /\ Sound(position) /\ position.writing # None
      /\ position.latest # None
      /\ UNCHANGED <<lastRequested, saveRequested, scheduled, narrationVars, closed>>
  BY DEF PositionInv, PositionTypes, settlePosition
<1> DEFINE after == Settle(position, ok)
<1>3. /\ after \in Lane(Locators) /\ Sound(after)
      /\ InHand(position) => InHand(after)
      /\ after.latest = position.latest /\ after.queued = None
  <2> HIDE DEF after
  <2> QED BY <1>2, SettledLane, Values DEF after
<1> HIDE DEF after
<1>4. position' = after
  BY <1>1 DEF after
<1>5. Sound(position)' /\ (InHand(position) => InHand(position)')
  BY <1>3, <1>4 DEF Sound, InHand, Attempted
<1>6. PositionTypes' /\ NarrationTypes'
  BY <1>2, <1>3, <1>4 DEF PositionInv, PositionTypes, NarrationTypes, narrationVars
<1>7. Protects' /\ OnlyHeardWaits' /\ PositionCloses'
  BY <1>2, <1>3, <1>4, <1>5
     DEF PositionInv, Protects, OnlyHeardWaits, PositionCloses, narrationVars
<1> QED BY <1>5, <1>6, <1>7 DEF PositionInv

-----------------------------------------------------------------------------
(* The preferences *)

\* A flush or the timer leaves what was chosen in hand.
LEMMA PreferencesQueued ==
    ASSUME PreferencesInv, NEW ok \in BOOLEAN,
           preferences' = queueLatestPreferences(ok),
           preferring' = FALSE, lastPreferred' = lastPreferred,
           closed' \in {closed, TRUE}
    PROVE  PreferencesInv'
<1>1. /\ preferences \in Lane(Preferences) /\ Sound(preferences)
      /\ Objects(preferences)
  BY DEF PreferencesInv
<1>2. CASE preferences.latest = None
  <2>1. preferences' = preferences /\ lastPreferred = None
    BY <1>2 DEF queueLatestPreferences, PreferencesInv
  <2> QED BY <1>1, <1>2, <2>1 DEF PreferencesInv, Sound, Objects
<1>3. CASE preferences.latest # None
  <2> DEFINE after == QueueLatest(preferences, ok)
  <2>1. preferences' = after
    BY <1>3 DEF queueLatestPreferences
  <2>2. /\ after \in Lane(Preferences) /\ Sound(after) /\ InHand(after)
        /\ Objects(after)
        /\ after.latest = preferences.latest /\ after.saved = preferences.saved
        /\ IF preferences.writing = None /\ preferences.saved = preferences.latest
           THEN after.writing = None
           ELSE after.writing # None
    <3> HIDE DEF after
    <3> QED BY <1>1, <1>3, Queued, Values DEF after
  <2> HIDE DEF after
  <2>3. Sound(preferences)' /\ InHand(preferences)' /\ Objects(preferences)'
    BY <2>1, <2>2 DEF Sound, InHand, Attempted, Objects
  <2> QED BY <1>3, <2>1, <2>2, <2>3 DEF PreferencesInv
<1> QED BY <1>2, <1>3

\* Another set is chosen.
LEMMA ChoiceStep ==
    ASSUME SavesInv, NEW chosen \in publication.preferences, savePreferences(chosen)
    PROVE  PreferencesInv'
<1>1. chosen \in Preferences /\ chosen # None
  BY OpenPublication, Values DEF SavesInv, PositionInv, PositionTypes, Lane
<1>2. preferences \in Lane(Preferences) /\ Sound(preferences)
  BY DEF SavesInv, PreferencesInv
<1>3. /\ preferences' = Want(preferences, chosen) /\ ~closed /\ closed' = closed
      /\ lastPreferred' = chosen /\ preferring' = TRUE
  BY DEF savePreferences
<1>4. preferences' \in Lane(Preferences)
  BY <1>1, <1>2, <1>3 DEF Want, Lane
<1>5. /\ preferences'.latest = chosen /\ preferences'.writesLatest = FALSE
      /\ preferences'.queuesLatest = FALSE
      /\ preferences'.saved = preferences.saved
      /\ preferences'.writing = preferences.writing
      /\ preferences'.queued = preferences.queued
      /\ preferences'.written = preferences.written
      /\ preferences'.ok = preferences.ok /\ preferences'.stored = preferences.stored
  BY <1>1, <1>2, <1>3 DEF Want, Lane
<1>6. Sound(preferences)' /\ Objects(preferences)'
  BY <1>2, <1>5 DEF Sound, Objects
<1> QED BY <1>3, <1>4, <1>5, <1>6 DEF PreferencesInv

\* The result of a write arrives; a failed one may be chosen again.
LEMMA ChoiceResultStep ==
    ASSUME PreferencesInv, settlePreferences
    PROVE  PreferencesInv'
<1>1. PICK ok \in BOOLEAN : preferences' = Settle(preferences, ok)
  BY DEF settlePreferences
<1>2. /\ preferences \in Lane(Preferences) /\ Sound(preferences)
      /\ Objects(preferences) /\ preferences.writing # None
      /\ preferring' = preferring /\ closed' = closed
      /\ lastPreferred' = IF ~closed /\ preferences.writesLatest /\ ~preferences.ok
                          THEN None ELSE lastPreferred
  BY DEF PreferencesInv, settlePreferences
<1> DEFINE after == Settle(preferences, ok)
<1>3. /\ after \in Lane(Preferences) /\ Sound(after) /\ Objects(after)
      /\ InHand(preferences) => InHand(after)
      /\ after.latest = preferences.latest /\ after.writing = preferences.queued
      /\ preferences.queued = None =>
            /\ after.saved = IF preferences.ok THEN preferences.writing
                             ELSE preferences.saved
            /\ after.writesLatest = preferences.writesLatest
  <2> HIDE DEF after
  <2> QED BY <1>2, SettledLane, Values DEF after
<1> HIDE DEF after
<1>4. preferences' = after
  BY <1>1 DEF after
<1>5. /\ Sound(preferences)' /\ Objects(preferences)'
      /\ InHand(preferences) => InHand(preferences)'
  BY <1>3, <1>4 DEF Sound, InHand, Attempted, Objects
<1>6. lastPreferred' \in {None, preferences'.latest}
  BY <1>2, <1>3, <1>4 DEF PreferencesInv
<1>7. ASSUME ~closed, lastPreferred' # None
      PROVE  \/ preferring' \/ preferences'.writing # None
             \/ preferences'.saved = lastPreferred'
             \/ ~preferences'.writesLatest
  <2>1. lastPreferred' = preferences.latest
    BY <1>3, <1>4, <1>6, <1>7
  <2>2. CASE preferences.queued # None
    BY <1>3, <1>4, <2>2
  <2>3. CASE preferences.queued = None /\ preferences.writesLatest
    <3>1. preferences.writing = preferences.latest
      BY <1>2, <2>3 DEF Objects
    <3> QED BY <1>2, <1>3, <1>4, <1>7, <2>1, <2>3, <3>1
  <2>4. CASE preferences.queued = None /\ ~preferences.writesLatest
    BY <1>3, <1>4, <2>4
  <2> QED BY <2>2, <2>3, <2>4
<1> QED BY <1>2, <1>3, <1>4, <1>5, <1>6, <1>7 DEF PreferencesInv

-----------------------------------------------------------------------------
(* Every step *)

LEMMA SavesStep == SavesInv /\ [Next]_vars => SavesInv'
<1> SUFFICES ASSUME SavesInv, [Next]_vars PROVE SavesInv'
  OBVIOUS
<1>1. PositionInv /\ PreferencesInv
  BY DEF SavesInv
\* Each lane keeps its part while the other one moves.
<1>a. ASSUME UNCHANGED <<positionVars, narrationVars, closed>>
      PROVE  PositionInv'
  BY <1>1, <1>a DEF PositionInv, PositionTypes, NarrationTypes, Sound, Protects,
       OnlyHeardWaits, PositionCloses, InHand, Attempted, positionVars, narrationVars
<1>b. ASSUME UNCHANGED <<preferenceVars, closed>>
      PROVE  PreferencesInv'
  BY <1>1, <1>b DEF PreferencesInv, Sound, Objects, InHand, Attempted, preferenceVars
<1>2. ASSUME NEW locator \in publication.locators,
             \/ \E kind \in {"passive", "immediate"} : UserMoves(locator, kind)
             \/ scheduleReflow(locator)
      PROVE  SavesInv'
  <2>1. UNCHANGED <<preferenceVars, closed>>
    BY <1>2 DEF UserMoves, scheduleReflow
  <2> QED BY <1>1, <1>2, <1>b, <2>1, ReaderStep DEF SavesInv
<1>3. ASSUME NEW chosen \in publication.preferences, savePreferences(chosen)
      PROVE  SavesInv'
  <2>1. UNCHANGED <<positionVars, narrationVars, closed>>
    BY <1>3 DEF savePreferences
  <2> QED BY <1>3, <1>a, <2>1, ChoiceStep DEF SavesInv
<1>4. CASE finishNarration \/ flush \/ close
  <2>1. PositionInv'
    BY <1>1, <1>4, FlushStep
  <2>2. PICK ok \in BOOLEAN :
          /\ preferences' = queueLatestPreferences(ok) /\ preferring' = FALSE
          /\ lastPreferred' = lastPreferred
    BY <1>4 DEF finishNarration, flush, close, Flush
  <2>3. closed' \in {closed, TRUE}
    BY <1>4 DEF finishNarration, flush, close
  <2> QED BY <1>1, <2>1, <2>2, <2>3, PreferencesQueued DEF SavesInv
<1>5. CASE positionTimer
  <2>1. UNCHANGED <<preferenceVars, closed>>
    BY <1>5 DEF positionTimer
  <2> QED BY <1>1, <1>5, <1>b, <2>1, FlushStep DEF SavesInv
<1>6. CASE preferencesTimer
  <2>1. PICK ok \in BOOLEAN :
          /\ preferences' = queueLatestPreferences(ok) /\ preferring' = FALSE
          /\ lastPreferred' = lastPreferred
    BY <1>6 DEF preferencesTimer
  <2>2. UNCHANGED <<positionVars, narrationVars, closed>>
    BY <1>6 DEF preferencesTimer
  <2> QED BY <1>1, <1>a, <2>1, <2>2, PreferencesQueued DEF SavesInv
<1>7. CASE beginNarration
  <2>1. UNCHANGED <<preferenceVars, closed>>
    BY <1>7 DEF beginNarration
  <2> QED BY <1>1, <1>7, <1>b, <2>1, BeginStep DEF SavesInv
<1>8. ASSUME NEW kind \in {"segment-started", "segment-completed"},
             NEW segment \in Segments, NEW locator \in publication.locators,
             recordHeardCheckpoint(kind, segment, locator)
      PROVE  SavesInv'
  <2>1. UNCHANGED <<preferenceVars, closed>>
    BY <1>8 DEF recordHeardCheckpoint
  <2> QED BY <1>1, <1>8, <1>b, <2>1, CheckpointStep DEF SavesInv
<1>9. CASE settlePosition
  <2>1. UNCHANGED <<preferenceVars, closed>>
    BY <1>9 DEF settlePosition
  <2> QED BY <1>1, <1>9, <1>b, <2>1, ResultStep DEF SavesInv
<1>10. CASE settlePreferences
  <2>1. UNCHANGED <<positionVars, narrationVars, closed>>
    BY <1>10 DEF settlePreferences
  <2> QED BY <1>1, <1>10, <1>a, <2>1, ChoiceResultStep DEF SavesInv
<1>11. CASE UNCHANGED vars
  BY <1>11, <1>a, <1>b DEF SavesInv, vars
<1> QED BY <1>2, <1>3, <1>4, <1>5, <1>6, <1>7, <1>8, <1>9, <1>10, <1>11
        DEF Next, Reader, Voice, Timers, Results

-----------------------------------------------------------------------------
\* Every variable has its type, and nothing is queued without a write to wait
\* for, for any publications and however late the storage answers.
THEOREM SavesTyped == Spec => []TypeOK
<1>1. SavesInv => TypeOK
  BY DEF SavesInv, PositionInv, PositionTypes, NarrationTypes, PreferencesInv, Sound,
         TypeOK, Lane
<1> QED BY <1>1, SavesAtStart, SavesStep, PTL DEF Spec

\* Closing loses neither the position nor the preferences asked for last, and no
\* choice is refused that is not saved, whichever writes fail or are late.
THEOREM NothingIsLost == Spec => []NothingAskedForIsLost
<1>1. ASSUME SavesInv PROVE NothingAskedForIsLost
  <2>1. CloseSavesPosition
    BY <1>1 DEF SavesInv, PositionInv, PositionCloses, InHand, CloseSavesPosition
  <2>2. CloseSavesPreferences
    BY <1>1 DEF SavesInv, PreferencesInv, InHand, CloseSavesPreferences
  <2>3. RefusedPreferencesAreSaved
    BY <1>1 DEF SavesInv, PreferencesInv, RefusedPreferencesAreSaved
  <2> QED BY <2>1, <2>2, <2>3 DEF NothingAskedForIsLost
<1> QED BY <1>1, SavesAtStart, SavesStep, PTL DEF Spec

\* The writes made while a voice reads.
HeardWrite ==
    (/\ narrating
     /\ position'.writing # None /\ position'.writing # position.writing)
        => checkpointed /\ position'.writing \in heard

LEMMA OnlyHeardIsWritten == SavesInv /\ [Next]_vars => HeardWrite
<1> SUFFICES ASSUME SavesInv, [Next]_vars, narrating,
                    position'.writing # None, position'.writing # position.writing
             PROVE  checkpointed /\ position'.writing \in heard
  BY DEF HeardWrite
<1>1. PositionInv /\ OnlyHeardWaits
  BY DEF SavesInv, PositionInv
<1>2. CASE positionTimer \/ finishNarration \/ flush \/ close
  <2>1. PICK ok \in BOOLEAN : position' = queueLatestPosition(ok)
    BY <1>2 DEF positionTimer, finishNarration, flush, close, Flush
  <2>2. saveRequested /\ position'.writing = position.latest
    BY <1>1, <2>1, PositionQueued
  <2> QED BY <1>1, <2>2 DEF OnlyHeardWaits
<1>3. CASE settlePosition
  <2>1. PICK ok \in BOOLEAN : position' = Settle(position, ok)
    BY <1>3 DEF settlePosition
  <2>2. /\ position \in Lane(Locators) /\ Sound(position) /\ position.writing # None
    BY <1>1, <1>3 DEF PositionInv, PositionTypes, settlePosition
  <2>3. position'.writing = position.queued
    BY <2>1, <2>2, SettledLane, Values
  <2> QED BY <1>1, <2>3 DEF OnlyHeardWaits
<1>4. ASSUME NEW kind \in {"segment-started", "segment-completed"},
             NEW segment \in Segments, NEW locator \in publication.locators,
             recordHeardCheckpoint(kind, segment, locator)
      PROVE  FALSE
  <2>1. locator \in Locators
    BY <1>1, OpenPublication DEF PositionInv, PositionTypes, Lane
  <2>2. position'.writing = position.writing
    BY <1>1, <1>4, <2>1, PositionAsked DEF recordHeardCheckpoint
  <2> QED BY <2>2
<1>5. ASSUME \/ \E locator \in publication.locators :
                   \/ \E kind \in {"passive", "immediate"} : UserMoves(locator, kind)
                   \/ scheduleReflow(locator)
             \/ \E chosen \in publication.preferences : savePreferences(chosen)
             \/ beginNarration \/ preferencesTimer \/ settlePreferences
             \/ UNCHANGED vars
      PROVE  FALSE
  BY <1>5 DEF UserMoves, scheduleReflow, savePreferences, beginNarration,
              preferencesTimer, settlePreferences, positionVars, vars
<1> QED BY <1>2, <1>3, <1>4, <1>5 DEF Next, Reader, Voice, Timers, Results

\* While a voice reads, only what was heard is written, and a heard position
\* stays the one to be saved until the reader moves.
THEOREM VoiceOwns == Spec => VoiceOwnsThePosition
<1>1. SavesInv => HeardIsProtected
  BY DEF SavesInv, PositionInv, Protects, HeardIsProtected
<1>2. SavesInv /\ [Next]_vars => [HeardWrite]_vars
  BY OnlyHeardIsWritten
<1>3. Spec => [](SavesInv /\ HeardIsProtected)
  BY <1>1, SavesAtStart, SavesStep, PTL DEF Spec
<1>4. Spec => []HeardIsProtected /\ [][HeardWrite]_vars
  BY <1>2, <1>3, SavesStep, PTL DEF Spec
<1> QED BY <1>4 DEF VoiceOwnsThePosition, OnlyHeardWhileNarrating, HeardWrite

-----------------------------------------------------------------------------
(* Playing: the parts of the invariant *)

\* What the state holds.
Kinds == {"started", "completed"}
Rated == [selected : Rates, active : Rates \cup {NoRate},
          pending : Rates \cup {NoRate}]
Handles == [unit : Nat, rate : Rates \cup {NoRate}, armed : BOOLEAN,
            sound : {"no", "resumed", "rendering"}, played : 0 .. Frames,
            ending : BOOLEAN, told : BOOLEAN]
Silences == [left : 0 .. PauseTicks, elapsed : 0 .. PauseTicks, running : BOOLEAN]
Goings == {"preparing", "playing", "paused", "buffering", "complete", "stopped"}
Terminals == {"none", "stopped", "failed"}
Requests == Seq({"suspend", "resume"})
Contexts == {"suspended", "running"}
Preparations == {"none", "future", "due"}
Stretchers == {"none", "ready", "failed"}
Creations == {"none", "owned", "stale", "adopted", "void", "refused"}
Stories == Seq(Kinds \X Nat)
Waiters == {"none", "waiting", "released"}
Backends == {"open", "closing", "closed"}
Accounts == 0 .. Frames - 1
States ==
    [produced : Nat, gone : Nat, accounted : Accounts, discarded : Nat,
     state : Goings, rate : Rated, terminal : Terminals,
     handle : Handles, requests : Requests, context : Contexts,
     awaited : BOOLEAN,
     pause : Silences, silence : Nat, pauses : Nat, held : BOOLEAN,
     preparation : Preparations, future : BOOLEAN,
     stretcher : Stretchers, creation : Creations,
     heard : Stories, cleaning : BOOLEAN,
     waiter : Waiters, backend : Backends]

\* The buffer holds what plays.
Buffered(s) ==
    /\ s.gone <= s.produced /\ s.produced <= Units /\ s.discarded <= Units
    /\ s.state = "playing" => s.gone < s.produced

\* The unit that plays is the first of the buffer, and excludes a silence.
Plays(s) ==
    /\ s.handle # NoHandle =>
         /\ s.handle.unit = s.gone + 1 /\ s.gone < s.produced
         /\ s.handle.rate = s.rate.active /\ s.rate.active # NoRate
         /\ s.pause = NoPause
    /\ s.handle.ending => s.handle.armed
    /\ s.state = "paused" => s.handle.sound = "no"

\* A unit that was started found the context idle; one that is paused awaits
\* nothing but its suspension.
Asks(s) ==
    /\ Len(s.requests) <= MaxRequests + 1
    /\ s.terminal = "none" /\ (s.handle = NoHandle \/ s.handle.armed) =>
          Len(s.requests) <= MaxRequests
    /\ s.awaited => s.handle # NoHandle /\ s.requests # <<>>
    /\ s.awaited /\ s.state = "paused" =>
          s.requests[Len(s.requests)] = "suspend"

\* PausesAreKept, and a silence under way still owes something.
Owed(s) == IF s.pause = NoPause THEN s.pauses ELSE s.pauses + 1
Keeps(s) ==
    /\ s.pause = NoPause \/ (s.pause.left > 0 /\ s.pause.elapsed <= s.pause.left)
    /\ s.pause.running => s.state # "paused"
    /\ s.terminal = "none" => s.silence + s.pause.left = PauseTicks * Owed(s)

Ended(s) ==
    /\ s.terminal # "none" <=> s.state = "stopped"
    /\ s.terminal # "none" =>
          /\ s.handle = NoHandle /\ s.pause = NoPause /\ ~s.held
          /\ s.preparation = "none"

\* OrdinaryRateSurvives
Survives(s) ==
    s.preparation = "due" /\ s.rate.active = DefaultRate =>
        s.creation \in {"adopted", "void"}

Prepares(s) ==
    /\ s.creation \in {"owned", "adopted", "void", "refused"} =>
         s.preparation # "none"
    /\ s.preparation # "none" => s.creation # "none"
    /\ Survives(s)

HeldBack(s) == s.state = "paused" => Held(s)

\* HeardInOrder
Event(i) == <<IF i % 2 = 1 THEN "started" ELSE "completed", (i + 1) \div 2>>
Told(s) ==
    /\ s.terminal = "none" =>
         Len(s.heard) = 2 * s.gone + (IF s.handle.told THEN 1 ELSE 0)
    /\ Len(s.heard) <= 2 * Units
    /\ \A i \in 1 .. Len(s.heard) : s.heard[i] = Event(i)

Good(s) ==
    /\ s \in States
    /\ Buffered(s) /\ Plays(s) /\ Asks(s) /\ Keeps(s) /\ Ended(s)
    /\ Prepares(s) /\ HeldBack(s) /\ Told(s)

\* A refused creation is not joined by a unit of the ordinary rate.
Unrefused(s) == s.creation = "refused" => nextRate(s) # DefaultRate

USE PlayerAssumption

-----------------------------------------------------------------------------
\* Nothing at all has its shape.
LEMMA NothingTyped ==
    /\ NoHandle \in Handles /\ NoPause \in Silences /\ NoRate \notin Rates
BY DEF NoHandle, Handles, NoPause, Silences, NoRate

\* A player starts good.
LEMMA InitGood == PlayerInit => Good(now)
<1> SUFFICES ASSUME PlayerInit PROVE Good(now)
  OBVIOUS
<1>1. /\ now.produced = 0 /\ now.gone = 0 /\ now.accounted = 0
      /\ now.discarded = 0 /\ now.state = "preparing" /\ now.terminal = "none"
      /\ now.handle = NoHandle /\ now.requests = <<>> /\ now.awaited = FALSE
      /\ now.pause = NoPause /\ now.silence = 0 /\ now.pauses = 0
      /\ now.preparation = "none" /\ now.creation = "none" /\ now.heard = <<>>
      /\ now.held = FALSE
  BY DEF PlayerInit
<1>2. now.rate \in Rated
  BY DEF PlayerInit, Rated
<1>3. now \in States
  <2>1. <<>> \in Requests /\ <<>> \in Stories /\ 0 \in Accounts
    BY DEF Requests, Stories, Accounts
  <2>2. /\ "preparing" \in Goings /\ "none" \in Terminals
        /\ "suspended" \in Contexts /\ "none" \in Preparations
        /\ "none" \in Stretchers /\ "none" \in Creations
        /\ "none" \in Waiters /\ "open" \in Backends
    BY DEF Goings, Terminals, Contexts, Preparations, Stretchers, Creations,
           Waiters, Backends
  <2>3. PICK A : now \in
          [produced : {0}, gone : {0}, accounted : {0}, discarded : {0},
           state : {"preparing"}, rate : A, terminal : {"none"},
           handle : {NoHandle}, requests : {<<>>}, context : {"suspended"},
           awaited : {FALSE}, pause : {NoPause}, silence : {0}, pauses : {0},
           held : {FALSE}, preparation : {"none"}, future : {FALSE},
           stretcher : {"none"}, creation : {"none"}, heard : {<<>>},
           cleaning : {FALSE}, waiter : {"none"}, backend : {"open"}]
    BY Zenon DEF PlayerInit
  <2>4. now = [produced |-> 0, gone |-> 0, accounted |-> 0, discarded |-> 0,
           state |-> "preparing", rate |-> now.rate, terminal |-> "none",
           handle |-> NoHandle, requests |-> <<>>, context |-> "suspended",
           awaited |-> FALSE, pause |-> NoPause, silence |-> 0, pauses |-> 0,
           held |-> FALSE, preparation |-> "none", future |-> FALSE,
           stretcher |-> "none", creation |-> "none", heard |-> <<>>,
           cleaning |-> FALSE, waiter |-> "none", backend |-> "open"]
    BY <2>3
  <2>5. NoHandle \in Handles /\ NoPause \in Silences /\ now.rate \in Rated
    BY <1>2, NothingTyped
  <2>6. ASSUME NEW r \in Rated, NEW h \in Handles, NEW p \in Silences,
               NEW q \in Requests, NEW z \in Stories
        PROVE  [produced |-> 0, gone |-> 0, accounted |-> 0, discarded |-> 0,
           state |-> "preparing", rate |-> r, terminal |-> "none",
           handle |-> h, requests |-> q, context |-> "suspended",
           awaited |-> FALSE, pause |-> p, silence |-> 0, pauses |-> 0,
           held |-> FALSE, preparation |-> "none", future |-> FALSE,
           stretcher |-> "none", creation |-> "none", heard |-> z,
           cleaning |-> FALSE, waiter |-> "none", backend |-> "open"] \in States
    BY <2>1, <2>2 DEF States
  <2> QED BY <2>1, <2>4, <2>5, <2>6
<1>4. Buffered(now) /\ Ended(now) /\ Prepares(now) /\ HeldBack(now)
  BY <1>1 DEF Buffered, Ended, Prepares, HeldBack, Survives
<1>5. Plays(now) /\ Asks(now)
  BY <1>1 DEF Plays, Asks, NoHandle
<1>6. Keeps(now)
  BY <1>1 DEF Keeps, Owed, NoPause
<1>7. Told(now)
  BY <1>1 DEF Told, NoHandle
<1> QED BY <1>3, <1>4, <1>5, <1>6, <1>7 DEF Good

-----------------------------------------------------------------------------
(* The parts of a state that a handler leaves alone *)

SameBuffer(s, t) == t.produced = s.produced /\ t.gone = s.gone /\ t.discarded = s.discarded
SamePlay(s, t) == t.handle = s.handle /\ t.requests = s.requests /\ t.awaited = s.awaited
SamePause(s, t) == t.pause = s.pause /\ t.silence = s.silence /\ t.pauses = s.pauses
                    /\ t.held = s.held
SamePreparation(s, t) ==
    t.preparation = s.preparation /\ t.future = s.future /\ t.stretcher = s.stretcher
    /\ t.creation = s.creation
SameStory(s, t) == t.heard = s.heard /\ t.terminal = s.terminal

\* A state goes on, or stays paused or stopped.
SameGoing(s, t) ==
    /\ s.state \in {"stopped", "paused"} => t.state = s.state
    /\ s.state \notin {"stopped", "paused"} => t.state \notin {"stopped", "paused"}

\* All but the rate and the playback state
SameUnit(s, t) ==
    SameBuffer(s, t) /\ SamePlay(s, t) /\ SamePause(s, t) /\ SameStory(s, t) /\ SameGoing(s, t)

\* refresh changes the playback state alone, and plays only what waits.
LEMMA Refresh ==
    ASSUME NEW s \in States, NEW ready \in BOOLEAN
    PROVE  LET t == refresh(s, ready) IN
           /\ t \in States /\ SameUnit(s, t) /\ SamePreparation(s, t)
           /\ t.rate = s.rate
           /\ s.state \notin {"stopped", "paused"} /\ t.state = "playing" =>
                t.gone < t.produced
<1> DEFINE going == s.state \notin {"stopped", "paused"}
           x == CASE going /\ ~Waiting(s) ->
                          IF AllProduced(s) THEN "complete"
                          ELSE IF s.state = "preparing" THEN s.state ELSE "buffering"
                  [] going /\ Waiting(s) /\ (ready \/ AllProduced(s)) -> "playing"
                  [] OTHER -> s.state
<1>1. refresh(s, ready) = [s EXCEPT !.state = x]
  BY DEF refresh, States
<1>2. x \in Goings
  BY DEF States, Goings
<1>3. /\ s.state \in {"stopped", "paused"} => x = s.state
      /\ s.state \notin {"stopped", "paused"} => x \notin {"stopped", "paused"}
      /\ s.state \notin {"stopped", "paused"} /\ x = "playing" => s.gone < s.produced
  <2>1. CASE s.state \in {"stopped", "paused"}
    BY <2>1 DEF Waiting
  <2>2. CASE s.state \notin {"stopped", "paused"} /\ ~Waiting(s)
    BY <2>2 DEF AllProduced
  <2>3. CASE s.state \notin {"stopped", "paused"} /\ Waiting(s)
    BY <2>3 DEF Waiting, AllProduced
  <2> QED BY <2>1, <2>2, <2>3
<1> HIDE DEF x
<1>4. refresh(s, ready) \in States
  BY <1>1, <1>2 DEF States
<1>5. /\ SameBuffer(s, refresh(s, ready)) /\ SamePlay(s, refresh(s, ready))
      /\ SamePause(s, refresh(s, ready))
  BY <1>1 DEF States, SameBuffer, SamePlay, SamePause
<1>6. /\ SameStory(s, refresh(s, ready)) /\ SamePreparation(s, refresh(s, ready))
      /\ refresh(s, ready).rate = s.rate /\ refresh(s, ready).state = x
  BY <1>1 DEF States, SameStory, SamePreparation
<1> QED BY <1>3, <1>4, <1>5, <1>6 DEF SameUnit, SameBuffer, SameGoing

\* Nor who waits for the cleanup.
SameRest(s, t) ==
    t.cleaning = s.cleaning /\ t.waiter = s.waiter /\ t.backend = s.backend
    /\ t.context = s.context

\* A good state stays one whose unit goes on in a rate chosen or prepared.
LEMMA GoodUnit ==
    ASSUME NEW s, Good(s), NEW t \in States, SameUnit(s, t),
           t.rate.active = s.rate.active, Prepares(t),
           s.terminal # "none" => t.preparation = "none",
           t.state = "playing" => t.gone < t.produced
    PROVE  Good(t)
<1>1. Buffered(t) /\ Ended(t)
  BY DEF Good, SameUnit, SameBuffer, SamePlay, SamePause, SameStory, SameGoing, Buffered, Ended
<1>2. Plays(t) /\ Asks(t)
  BY DEF Good, SameUnit, SameBuffer, SamePlay, SamePause, SameStory, SameGoing, Plays, Asks
<1>3. Keeps(t) /\ HeldBack(t)
  BY DEF Good, SameUnit, SamePlay, SamePause, SameStory, SameGoing, Keeps, Owed, HeldBack, Held
<1>4. Told(t)
  BY DEF Good, SameUnit, SameBuffer, SamePlay, SameStory, Told
<1> QED BY <1>1, <1>2, <1>3, <1>4 DEF Good

\* A good state stays good when it is refreshed.
LEMMA RefreshGood ==
    ASSUME NEW s, Good(s), NEW ready \in BOOLEAN
    PROVE  Good(refresh(s, ready))
<1> DEFINE t == refresh(s, ready)
<1>1. /\ t \in States /\ SameUnit(s, t) /\ SamePreparation(s, t)
      /\ t.rate = s.rate
      /\ s.state \notin {"stopped", "paused"} /\ t.state = "playing" =>
           t.gone < t.produced
  BY Refresh DEF Good
<1> SUFFICES Good(t)
  OBVIOUS
<1> HIDE DEF t
<1>2. Prepares(t) /\ (s.terminal # "none" => t.preparation = "none")
  BY <1>1 DEF Good, Prepares, Survives, SamePreparation, Ended
<1>3. t.state = "playing" => t.gone < t.produced
  BY <1>1 DEF SameUnit, SameGoing
<1> QED BY <1>1, <1>2, <1>3, GoodUnit

-----------------------------------------------------------------------------
(* Rates *)

\* select leaves the unit alone, and its rate to the next one.
LEMMA Select ==
    ASSUME NEW s, Good(s), NEW rate \in Rates, NEW ready \in BOOLEAN
    PROVE  LET t == select(s, rate, ready) IN
           /\ Good(t) /\ SameUnit(s, t) /\ SamePreparation(s, t)
           /\ t.rate.active = s.rate.active /\ t.rate.selected = rate
           /\ t.rate.pending = IF s.rate.active = rate THEN NoRate ELSE rate
<1> DEFINE x == IF s.rate.active = rate THEN NoRate ELSE rate
           r == [s.rate EXCEPT !.selected = rate, !.pending = x]
           c == [s EXCEPT !.rate = r]
           t == refresh(c, ready)
<1>1. /\ r \in Rated /\ r.active = s.rate.active /\ r.selected = rate
      /\ r.pending = x
  BY DEF Good, States, Rated
<1>2. select(s, rate, ready) = t
  BY DEF select, Good, States
<1> HIDE DEF r, x
<1>3. /\ c \in States /\ c.rate = r
      /\ SamePreparation(s, c) /\ c.state = s.state
  BY <1>1 DEF Good, States, SamePreparation
<1>4. SameUnit(s, c)
  BY DEF Good, States, SameUnit, SameBuffer, SamePlay, SamePause, SameStory, SameGoing
<1> HIDE DEF c
<1>5. Prepares(c) /\ (s.terminal # "none" => c.preparation = "none")
  BY <1>1, <1>3 DEF Good, Prepares, Survives, SamePreparation, Ended
<1>6. c.state = "playing" => c.gone < c.produced
  BY <1>3, <1>4 DEF Good, Buffered, SameUnit, SameBuffer
<1>7. Good(c)
  BY <1>1, <1>3, <1>4, <1>5, <1>6, GoodUnit
<1>8. Good(t) /\ SameUnit(c, t) /\ SamePreparation(c, t) /\ t.rate = c.rate
  BY <1>3, <1>7, RefreshGood, Refresh
<1> HIDE DEF t
<1>9. SameUnit(s, t) /\ SamePreparation(s, t)
  BY <1>3, <1>4, <1>8
     DEF SameUnit, SameBuffer, SamePlay, SamePause, SameStory, SameGoing, SamePreparation
<1> QED BY <1>1, <1>2, <1>3, <1>8, <1>9 DEF x

\* Only the preparation of a rate changes.
PreparationOnly(s, t) ==
    SameUnit(s, t) /\ t.rate = s.rate /\ t.state = s.state

\* A good state stays good when only its preparation changes.
LEMMA PreparationOnlyGood ==
    ASSUME NEW s, Good(s), NEW t \in States, PreparationOnly(s, t), Prepares(t),
           s.terminal # "none" => t.preparation = "none"
    PROVE  Good(t)
<1>1. t.state = "playing" => t.gone < t.produced
  BY DEF Good, Buffered, PreparationOnly, SameUnit, SameBuffer
<1> QED BY <1>1, GoodUnit DEF PreparationOnly

Writing(s, p, f, z, c) ==
    [s EXCEPT !.preparation = p, !.future = f, !.stretcher = z, !.creation = c]

\* Writing a preparation writes nothing else.
LEMMA Writes ==
    ASSUME NEW s \in States, NEW p \in Preparations, NEW f \in BOOLEAN,
           NEW z \in Stretchers, NEW c \in Creations
    PROVE  LET t == Writing(s, p, f, z, c)
           IN /\ t \in States /\ PreparationOnly(s, t)
              /\ t.preparation = p /\ t.future = f /\ t.stretcher = z
              /\ t.creation = c
<1> DEFINE t == [s EXCEPT !.preparation = p, !.future = f, !.stretcher = z,
                          !.creation = c]
<1>1. t \in States
  BY DEF States
<1>2. PreparationOnly(s, t)
  BY DEF States, PreparationOnly, SameUnit, SameBuffer, SamePlay, SamePause, SameStory,
         SameGoing
<1>3. /\ t.preparation = p /\ t.future = f /\ t.stretcher = z
      /\ t.creation = c
  BY DEF States
<1> QED BY <1>1, <1>2, <1>3 DEF Writing

\* What becomes of a creation that is given up.
GivenUp(c) == IF c \in {"owned", "adopted"} THEN "adopted"
              ELSE IF c \in {"stale", "void"} THEN "void" ELSE c

\* What a release does to any state, and that a good one stays good.
LEMMA BackendReleased ==
    ASSUME NEW s \in States
    PROVE  LET t == releaseBackend(s) IN
           /\ t \in States /\ PreparationOnly(s, t)
           /\ t.preparation = s.preparation
           /\ t.creation = s.creation
              \/ (s.preparation # "none" /\ t.creation = GivenUp(s.creation))
           /\ s.handle = NoHandle /\ s.preparation # "none" =>
                t.creation = GivenUp(s.creation)
<1> DEFINE c == IF s.preparation = "none" THEN s.creation ELSE Disowned[s.creation]
           u == Writing(s, s.preparation, s.future, "none", c)
<1>1. s.creation \in Creations
  BY DEF States
<1>2. Disowned[s.creation] = GivenUp(s.creation)
  BY <1>1 DEF Disowned, GivenUp, Creations
<1>3. /\ c \in Creations /\ "none" \in Stretchers
      /\ s.preparation \in Preparations /\ s.future \in BOOLEAN
  BY <1>1, <1>2 DEF GivenUp, Creations, Stretchers, States
<1>4. releaseBackend(s) = IF s.handle.rate \notin {NoRate, DefaultRate} THEN s ELSE u
  BY <1>1 DEF releaseBackend, States, Writing
<1>5. c = s.creation \/ (s.preparation # "none" /\ c = GivenUp(s.creation))
  BY <1>2
<1>6. s.preparation # "none" => c = GivenUp(s.creation)
  BY <1>2
<1> HIDE DEF c
<1>7. /\ u \in States /\ PreparationOnly(s, u)
      /\ u.preparation = s.preparation /\ u.creation = c
  BY <1>1, <1>3, Writes
<1> HIDE DEF u
<1>8. s.handle = NoHandle => s.handle.rate = NoRate
  BY DEF NoHandle
<1>9. PreparationOnly(s, s)
  BY DEF PreparationOnly, SameUnit, SameBuffer, SamePlay, SamePause, SameStory, SameGoing
<1> QED BY <1>4, <1>5, <1>6, <1>7, <1>8, <1>9

\* What forget leaves.
LEMMA Forgotten ==
    ASSUME NEW s \in States
    PROVE  LET t == forget(s) IN
           /\ t \in States /\ PreparationOnly(s, t)
           /\ t.preparation = "none" /\ ~t.future /\ t.creation \in {"none", "stale"}
<1> DEFINE c == CASE s.creation \in {"none", "refused"} -> "none" [] OTHER -> "stale"
           f == FALSE
           t == Writing(s, "none", f, s.stretcher, c)
<1>1. f \in BOOLEAN /\ ~f /\ s.stretcher \in Stretchers /\ "none" \in Preparations
      /\ c \in {"none", "stale"} /\ c \in Creations
  BY DEF States, Preparations, Creations
<1>2. forget(s) = t
  BY <1>1 DEF forget, States, Writing
<1> HIDE DEF c, f
<1>3. /\ t \in States /\ PreparationOnly(s, t)
      /\ t.preparation = "none" /\ t.future = f /\ t.creation = c
  BY <1>1, Writes
<1> HIDE DEF t
<1> QED BY <1>1, <1>2, <1>3

\* Two handlers that keep the unit keep it.
LEMMA SameUnitTrans ==
    ASSUME NEW s, NEW t, NEW u, SameUnit(s, t), SameUnit(t, u)
    PROVE  SameUnit(s, u)
BY DEF SameUnit, SameBuffer, SamePlay, SamePause, SameStory, SameGoing

\* What release leaves.
LEMMA Released ==
    ASSUME NEW s \in States
    PROVE  LET t == release(s) IN
           /\ t \in States /\ PreparationOnly(s, t)
           /\ t.preparation = "none" /\ ~t.future /\ t.creation \in {"none", "stale"}
<1> DEFINE b == releaseBackend(s)
           t == forget(b)
<1>1. b \in States /\ PreparationOnly(s, b)
  BY BackendReleased
<1>2. release(s) = t
  BY DEF release
<1> HIDE DEF b
<1>3. /\ t \in States /\ PreparationOnly(b, t)
      /\ t.preparation = "none" /\ ~t.future /\ t.creation \in {"none", "stale"}
  BY <1>1, Forgotten
<1> HIDE DEF t
<1>4. PreparationOnly(s, t)
  BY <1>1, <1>3, SameUnitTrans DEF PreparationOnly
<1> QED BY <1>2, <1>3, <1>4

\* The stretcher is given back from a good state.
LEMMA ReleaseBackend ==
    ASSUME NEW s, Good(s)
    PROVE  LET t == releaseBackend(s) IN
           /\ Good(t) /\ PreparationOnly(s, t)
           /\ t.preparation = s.preparation
           /\ s.creation # "refused" => t.creation # "refused"
           /\ s.handle = NoHandle /\ s.creation # "refused" /\ s.preparation # "none" =>
                t.creation \in {"adopted", "void"}
<1> DEFINE t == releaseBackend(s)
<1>1. s \in States /\ s.creation \in Creations
  BY DEF Good, States
<1>2. /\ t \in States /\ PreparationOnly(s, t)
      /\ t.preparation = s.preparation
      /\ t.creation = s.creation
         \/ (s.preparation # "none" /\ t.creation = GivenUp(s.creation))
      /\ s.handle = NoHandle /\ s.preparation # "none" =>
           t.creation = GivenUp(s.creation)
  BY <1>1, BackendReleased
<1> SUFFICES Good(t) /\ (s.creation # "refused" => t.creation # "refused")
             /\ (s.handle = NoHandle /\ s.creation # "refused" /\ s.preparation # "none" =>
                   t.creation \in {"adopted", "void"})
  BY <1>2
<1> HIDE DEF t
<1>3. Prepares(t) /\ (s.terminal # "none" => t.preparation = "none")
  BY <1>1, <1>2 DEF Good, Prepares, Survives, GivenUp, PreparationOnly, Creations, Ended
<1>4. Good(t)
  BY <1>2, <1>3, PreparationOnlyGood
<1>5. /\ s.creation # "refused" => t.creation # "refused"
      /\ s.handle = NoHandle /\ s.creation # "refused" /\ s.preparation # "none" =>
           t.creation \in {"adopted", "void"}
  BY <1>1, <1>2 DEF GivenUp, Creations, Good, Prepares
<1> QED BY <1>4, <1>5

\* The preparation is given up from a good state.
LEMMA Release ==
    ASSUME NEW s, Good(s)
    PROVE  LET t == release(s) IN
           /\ Good(t) /\ PreparationOnly(s, t)
           /\ t.preparation = "none" /\ ~t.future /\ t.creation \in {"none", "stale"}
<1> DEFINE t == release(s)
<1>1. /\ t \in States /\ PreparationOnly(s, t)
      /\ t.preparation = "none" /\ ~t.future /\ t.creation \in {"none", "stale"}
  BY Released DEF Good
<1> SUFFICES Good(t)
  BY <1>1
<1> HIDE DEF t
<1>2. Prepares(t)
  BY <1>1 DEF Prepares, Survives
<1> QED BY <1>1, <1>2, PreparationOnlyGood

\* A rate that is not there is being prepared afterwards.
LEMMA Prepare ==
    ASSUME NEW s, Good(s), NEW rate, s.terminal = "none"
    PROVE  LET t == prepare(s, rate) IN
           /\ Good(t) /\ PreparationOnly(s, t)
           /\ t.preparation # "none" \/ (Prepared(s, rate) /\ t = s)
<1> DEFINE p == IF s.rate.active = DefaultRate THEN "future" ELSE "due"
           f == s.rate.active = DefaultRate
           c == IF s.stretcher = "failed" THEN "refused"
                ELSE IF s.creation = "none" THEN "owned" ELSE s.creation
           u == Writing(s, p, f, s.stretcher, c)
<1>1. s \in States /\ s.stretcher \in Stretchers /\ p \in Preparations
      /\ f \in BOOLEAN /\ c \in Creations /\ c # "none"
  BY DEF Good, States, Preparations, Creations
<1>2. prepare(s, rate) = IF Prepared(s, rate) \/ s.preparation # "none" THEN s ELSE u
  BY <1>1, ZenonT(60) DEF prepare, States, Writing
<1>3. p # "none" /\ (p = "due" => s.rate.active # DefaultRate)
  OBVIOUS
<1> HIDE DEF c, p, f
<1>4. /\ u \in States /\ PreparationOnly(s, u)
      /\ u.preparation = p /\ u.creation = c
  BY <1>1, Writes
<1> HIDE DEF u
<1>5. Prepares(u)
  BY <1>1, <1>3, <1>4 DEF Prepares, Survives, PreparationOnly
<1>6. Good(u)
  BY <1>4, <1>5, PreparationOnlyGood
<1>7. PreparationOnly(s, s)
  BY DEF PreparationOnly, SameUnit, SameBuffer, SamePlay, SamePause, SameStory, SameGoing
<1> QED BY <1>2, <1>3, <1>4, <1>6, <1>7

\* After a fallback nothing is being prepared.
LEMMA Fallback ==
    ASSUME NEW s, Good(s), NEW ready \in BOOLEAN
    PROVE  LET t == fallback(s, ready) IN
           /\ Good(t) /\ SameUnit(s, t) /\ t.rate.active = s.rate.active
           /\ t.rate.selected = DefaultRate
           /\ t.preparation = "none" /\ t.creation \in {"none", "stale"}
<1> DEFINE c == select(s, DefaultRate, ready)
           t == release(c)
<1>1. fallback(s, ready) = t
  BY DEF fallback
<1>2. /\ Good(c) /\ SameUnit(s, c)
      /\ c.rate.active = s.rate.active /\ c.rate.selected = DefaultRate
  BY Select
<1> HIDE DEF c
<1>3. /\ Good(t) /\ PreparationOnly(c, t)
      /\ t.preparation = "none" /\ t.creation \in {"none", "stale"}
  BY <1>2, Release
<1> HIDE DEF t
<1> QED BY <1>1, <1>2, <1>3, SameUnitTrans DEF PreparationOnly

\* Whichever rate is chosen, the unit goes on.
LEMMA SetRate ==
    ASSUME NEW s, Good(s), NEW rate \in Rates, NEW ready \in BOOLEAN,
           s.terminal = "none", s.creation # "refused"
    PROVE  LET t == setRate(s, rate, ready) IN
           /\ Good(t) /\ SameUnit(s, t) /\ Unrefused(t)
<1> DEFINE c == select(s, rate, ready)
           p == prepare(c, rate)
           r == release(c)
<1>1. setRate(s, rate, ready) =
        IF rate # DefaultRate THEN IF c.rate.pending = NoRate THEN c ELSE p
        ELSE IF s.rate.active \in {NoRate, DefaultRate} THEN r ELSE c
  BY DEF setRate
<1>2. /\ Good(c) /\ SameUnit(s, c) /\ SamePreparation(s, c)
      /\ c.rate.pending = IF s.rate.active = rate THEN NoRate ELSE rate
  BY Select
<1> HIDE DEF c
<1>3. c.terminal = "none" /\ c.creation # "refused" /\ Unrefused(c)
  BY <1>2 DEF SameUnit, SameStory, SamePreparation, Unrefused
<1>4. Good(p) /\ PreparationOnly(c, p)
  BY <1>2, <1>3, Prepare
<1> HIDE DEF p
<1>5. Good(r) /\ PreparationOnly(c, r) /\ r.creation \in {"none", "stale"}
  BY <1>2, Release
<1> HIDE DEF r
<1>6. rate # DefaultRate /\ c.rate.pending # NoRate => Unrefused(p)
  BY <1>2, <1>4 DEF PreparationOnly, Unrefused, nextRate
<1>7. Unrefused(r)
  BY <1>5 DEF Unrefused
<1>8. SameUnit(s, p) /\ SameUnit(s, r)
  BY <1>2, <1>4, <1>5, SameUnitTrans DEF PreparationOnly
<1> QED BY <1>1, <1>2, <1>3, <1>4, <1>5, <1>6, <1>7, <1>8

-----------------------------------------------------------------------------
(* Stopping *)

\* What a state need be to be stopped: one in the middle of an event may.
Stoppable(s) ==
    /\ s \in States
    /\ s.gone <= s.produced /\ s.produced <= Units
    /\ Len(s.requests) <= MaxRequests + 1
    /\ Len(s.heard) <= 2 * Units
    /\ \A i \in 1 .. Len(s.heard) : s.heard[i] = Event(i)

\* A good state may be stopped.
LEMMA GoodStops == ASSUME NEW s, Good(s) PROVE Stoppable(s)
BY DEF Good, Stoppable, Buffered, Asks, Told

\* What an invalidation leaves.
StoppedFrom(s, t) ==
    /\ t.terminal # "none" /\ t.state = "stopped" /\ t.handle = NoHandle
    /\ t.pause = NoPause /\ ~t.held /\ t.awaited = FALSE
    /\ t.discarded = s.produced - s.gone
    /\ t.produced = s.produced /\ t.gone = s.gone /\ t.requests = s.requests
    /\ t.heard = s.heard
    /\ t.preparation = "none" /\ t.creation \in {"none", "stale"}

\* A player that was stopped is good.
LEMMA OverGood ==
    ASSUME NEW s, Stoppable(s), NEW t \in States, StoppedFrom(s, t)
    PROVE  Good(t)
<1>1. s.produced \in Nat /\ s.gone \in Nat
  BY DEF Stoppable, States
<1>2. Buffered(t) /\ Ended(t)
  BY <1>1 DEF Stoppable, StoppedFrom, Buffered, Ended
<1>3. Plays(t)
  BY DEF StoppedFrom, Plays, NoHandle
<1>4. Asks(t)
  BY DEF Stoppable, StoppedFrom, Asks
<1>5. Keeps(t) /\ HeldBack(t)
  BY DEF StoppedFrom, Keeps, HeldBack, NoPause
<1>6. Prepares(t)
  BY DEF StoppedFrom, Prepares, Survives
<1>7. Told(t)
  BY DEF Stoppable, StoppedFrom, Told
<1> QED BY <1>2, <1>3, <1>4, <1>5, <1>6, <1>7 DEF Good

\* Whatever is stopped is over, for good.
LEMMA Invalidate ==
    ASSUME NEW s, Stoppable(s), NEW terminal \in {"stopped", "failed"}
    PROVE  LET t == invalidate(s, terminal) IN
           Good(t) /\ t.terminal = terminal /\ StoppedFrom(s, t)
<1> DEFINE r == release(s)
           d == s.produced - s.gone
           e == r.silence + s.pause.elapsed
           y == FALSE
           x == TRUE
           t == [r EXCEPT !.terminal = terminal, !.state = "stopped",
                   !.discarded = d, !.silence = e, !.pause = NoPause,
                   !.held = y, !.handle = NoHandle, !.awaited = y,
                   !.cleaning = x]
<1>1. /\ r \in States /\ PreparationOnly(s, r)
      /\ r.preparation = "none" /\ r.creation \in {"none", "stale"}
  BY Released DEF Stoppable
<1>2. /\ d \in Nat /\ e \in Nat /\ terminal \in Terminals /\ "stopped" \in Goings
      /\ x \in BOOLEAN /\ y \in BOOLEAN /\ ~y
  <2>1. s.produced \in Nat /\ s.gone \in Nat /\ s.gone <= s.produced /\ s.pause \in Silences
    BY DEF Stoppable, States
  <2>2. s.pause.elapsed \in Nat /\ r.silence \in Nat
    BY <1>1, <2>1 DEF Silences, States
  <2> QED BY <2>1, <2>2 DEF Terminals, Goings
<1>3. invalidate(s, terminal) = t
  BY <1>1 DEF invalidate, States
<1> HIDE DEF r, d, e, x, y
<1>4. t \in States
  BY <1>1, <1>2, NothingTyped DEF States
<1>5. /\ t.terminal = terminal /\ t.state = "stopped" /\ t.handle = NoHandle
      /\ t.pause = NoPause /\ t.held = y /\ t.awaited = y /\ t.discarded = d
  BY <1>1 DEF States
<1>6. /\ t.produced = r.produced /\ t.gone = r.gone /\ t.requests = r.requests
      /\ t.heard = r.heard /\ t.preparation = r.preparation /\ t.creation = r.creation
  BY <1>1 DEF States
<1> HIDE DEF t
<1>7. StoppedFrom(s, t)
  BY <1>1, <1>2, <1>5, <1>6
     DEF StoppedFrom, d, y, PreparationOnly, SameUnit, SameBuffer, SamePlay, SameStory
<1> QED BY <1>3, <1>4, <1>5, <1>7, OverGood

-----------------------------------------------------------------------------
(* What listeners are told *)

\* The events of a unit, by their places in the story.
LEMMA Events ==
    ASSUME NEW n \in Nat
    PROVE  Event(2 * n + 1) = <<"started", n + 1>> /\ Event(2 * n + 2) = <<"completed", n + 1>>
<1>1. /\ (2 * n + 1) % 2 = 1 /\ (2 * n + 2) % 2 = 0
      /\ (2 * n + 1 + 1) \div 2 = n + 1 /\ (2 * n + 2 + 1) \div 2 = n + 1
  OBVIOUS
<1> QED BY <1>1 DEF Event

\* A story goes on with the event that is due.
LEMMA OneMoreEvent ==
    ASSUME NEW h \in Stories, \A i \in 1 .. Len(h) : h[i] = Event(i),
           NEW k \in Kinds, NEW u \in Nat, <<k, u>> = Event(Len(h) + 1)
    PROVE  LET g == Append(h, <<k, u>>) IN
           /\ g \in Stories /\ Len(g) = Len(h) + 1
           /\ \A i \in 1 .. Len(g) : g[i] = Event(i)
<1>1. <<k, u>> \in Kinds \X Nat /\ h \in Seq(Kinds \X Nat)
  BY DEF Stories
<1> DEFINE e == <<k, u>>
<1> HIDE DEF e
<1>2. e \in Kinds \X Nat
  BY <1>1 DEF e
<1>3. /\ Append(h, e) \in Seq(Kinds \X Nat) /\ Len(Append(h, e)) = Len(h) + 1
      /\ \A i \in 1 .. Len(h) : Append(h, e)[i] = h[i]
      /\ Append(h, e)[Len(h) + 1] = e /\ Len(h) \in Nat
  BY <1>1, <1>2
<1>4. e = Event(Len(h) + 1)
  BY DEF e
<1>5. \A i \in 1 .. Len(h) + 1 : Append(h, e)[i] = Event(i)
  BY <1>3, <1>4
<1> QED BY <1>3, <1>5 DEF e, Stories

\* A listener is told what happened to the unit that plays; confirm.
LEMMA Confirm ==
    ASSUME NEW s, Good(s), NEW completed \in BOOLEAN
    PROVE  LET t == confirm(s, completed) IN
           /\ Good(t) /\ t.rate = s.rate /\ t.state = s.state
           /\ SameBuffer(s, t) /\ SamePause(s, t) /\ SamePreparation(s, t)
           /\ t.terminal = s.terminal
           /\ t.handle = s.handle \/ t.handle # NoHandle
           /\ t.handle.unit = s.handle.unit /\ t.handle.sound = s.handle.sound
           /\ t.handle.armed = s.handle.armed /\ t.handle.played = s.handle.played
           /\ t.requests = s.requests /\ t.awaited = s.awaited
           /\ completed /\ s.handle # NoHandle => t.handle.told
<1>1. CASE \/ s.handle = NoHandle \/ s.handle.told
           \/ (~completed /\ s.handle.sound # "rendering")
  BY <1>1 DEF confirm, SameBuffer, SamePause, SamePreparation
<1>2. CASE ~(\/ s.handle = NoHandle \/ s.handle.told
             \/ (~completed /\ s.handle.sound # "rendering"))
  <2> DEFINE x == TRUE
             h == [s.handle EXCEPT !.told = x]
             g == Append(s.heard, <<"started", s.handle.unit>>)
             t == [s EXCEPT !.handle = h, !.heard = g]
  <2>1. s \in States /\ s.handle \in Handles /\ s.terminal = "none"
    BY <1>2 DEF Good, States, Ended
  <2>2. /\ h \in Handles /\ h.told /\ h.unit = s.handle.unit /\ h.rate = s.handle.rate
        /\ h.sound = s.handle.sound /\ h.armed = s.handle.armed
        /\ h.played = s.handle.played /\ h.ending = s.handle.ending
    BY <2>1 DEF Handles
  <2>3. confirm(s, completed) = t
    BY <1>2, <2>1 DEF confirm, publish, States, Handles
  <2>4. h # NoHandle
    BY <2>2 DEF NoHandle
  <2>5. /\ s.handle.unit = s.gone + 1 /\ s.gone \in Nat /\ s.gone < s.produced
        /\ s.produced <= Units /\ s.produced \in Nat
        /\ Len(s.heard) = 2 * s.gone
    BY <1>2, <2>1 DEF Good, Plays, Told, Buffered, States
  <2>6. g \in Stories /\ Len(g) = Len(s.heard) + 1 /\ \A i \in 1 .. Len(g) : g[i] = Event(i)
    <3>1. <<"started", s.handle.unit>> = Event(Len(s.heard) + 1)
      BY <2>5, Events
    <3>2. s.heard \in Stories /\ "started" \in Kinds /\ s.handle.unit \in Nat
      BY <2>1, <2>5 DEF States, Kinds
    <3>3. \A i \in 1 .. Len(s.heard) : s.heard[i] = Event(i)
      BY DEF Good, Told
    <3> QED BY <3>1, <3>2, <3>3, OneMoreEvent
  <2> HIDE DEF x, h, g
  <2>7. t \in States /\ t.handle = h /\ t.heard = g
    BY <2>1, <2>2, <2>6 DEF States
  <2>8. /\ t.rate = s.rate /\ t.state = s.state /\ t.terminal = s.terminal
        /\ SameBuffer(s, t) /\ SamePause(s, t) /\ SamePreparation(s, t)
        /\ t.requests = s.requests /\ t.awaited = s.awaited
    BY <2>1 DEF States, SameBuffer, SamePause, SamePreparation
  <2> HIDE DEF t
  <2>9. Buffered(t) /\ Ended(t)
    BY <2>1, <2>8 DEF Good, Buffered, Ended, SameBuffer
  <2>10. Plays(t)
    BY <1>2, <2>2, <2>7, <2>8 DEF Good, Plays, SameBuffer, SamePause
  <2>11. Asks(t)
    BY <1>2, <2>2, <2>4, <2>7, <2>8 DEF Good, Asks
  <2>12. Keeps(t) /\ Prepares(t)
    BY <2>8 DEF Good, Keeps, Owed, Prepares, Survives, SamePause, SamePreparation
  <2>13. HeldBack(t)
    BY <2>4, <2>7 DEF HeldBack, Held
  <2>14. Told(t)
    BY <2>2, <2>5, <2>6, <2>7, <2>8 DEF Told, SameBuffer
  <2>15. Good(t)
    BY <2>7, <2>9, <2>10, <2>11, <2>12, <2>13, <2>14 DEF Good
  <2> QED BY <2>2, <2>3, <2>4, <2>7, <2>8, <2>15
<1> QED BY <1>1, <1>2

\* Only the frames that were heard change, beside what the listeners are told.
LEMMA Progress ==
    ASSUME NEW s, Good(s), NEW ready \in BOOLEAN
    PROVE  LET t == refreshProgress(s, ready) IN
           /\ Good(t) /\ t.rate = s.rate /\ t.state = s.state
           /\ t.terminal = s.terminal
           /\ SamePause(s, t) /\ SamePreparation(s, t)
           /\ s.state # "playing" => t.handle = s.handle
<1> DEFINE c == confirm(s, FALSE)
           n == Observed(s.handle.played)
           t == [c EXCEPT !.accounted = n]
<1>1. /\ Good(c) /\ c.rate = s.rate /\ c.state = s.state
      /\ c.terminal = s.terminal
      /\ SamePause(s, c) /\ SamePreparation(s, c)
  BY Confirm
<1>2. n \in Accounts /\ n < Frames
  BY DEF Observed, Good, States, Handles, Accounts
<1>3. refreshProgress(s, ready) =
        IF s.handle.sound = "rendering" /\ s.state = "playing" THEN t ELSE s
  BY <1>2 DEF refreshProgress, account
<1> HIDE DEF c, n
<1>4. /\ t \in States /\ SameUnit(c, t) /\ t.rate = c.rate /\ t.state = c.state
      /\ SamePreparation(c, t)
  <2>1. c \in States
    BY <1>1 DEF Good
  <2>2. t \in States
    BY <1>2, <2>1 DEF States
  <2>3. SameUnit(c, t)
    BY <2>1 DEF States, SameUnit, SameBuffer, SamePlay, SamePause, SameStory, SameGoing
  <2>4. t.rate = c.rate /\ t.state = c.state /\ SamePreparation(c, t)
    BY <2>1 DEF States, SamePreparation
  <2> QED BY <2>2, <2>3, <2>4
<1> HIDE DEF t
<1>5. /\ Prepares(t) /\ (c.terminal # "none" => t.preparation = "none")
      /\ (t.state = "playing" => t.gone < t.produced)
  BY <1>1, <1>4 DEF Good, Prepares, Survives, SamePreparation, Ended, Buffered, SameUnit, SameBuffer
<1>6. Good(t)
  BY <1>1, <1>4, <1>5, GoodUnit
<1> QED BY <1>1, <1>3, <1>4, <1>6
        DEF SamePause, SamePreparation, SameUnit, SameStory

-----------------------------------------------------------------------------
(* Silences *)

\* All but a silence and what was held back.
SameButPause(s, t) ==
    /\ SameBuffer(s, t) /\ SamePlay(s, t) /\ SamePreparation(s, t) /\ SameStory(s, t)
    /\ t.rate = s.rate

\* A good state stays good when only its silence changes.
LEMMA SilenceGood ==
    ASSUME NEW s, Good(s), s.terminal = "none", s.handle = NoHandle,
           NEW t \in States, SameButPause(s, t), Keeps(t), HeldBack(t),
           t.state = s.state \/ (t.state = "paused" /\ s.state # "stopped")
    PROVE  Good(t)
<1>1. Buffered(t) /\ Ended(t)
  BY DEF Good, SameButPause, SameBuffer, SamePlay, SameStory, Buffered, Ended
<1>2. Plays(t) /\ Asks(t)
  BY DEF Good, SameButPause, SameBuffer, SamePlay, SameStory, Plays, Asks, NoHandle
<1>3. Told(t) /\ Prepares(t)
  BY DEF Good, SameButPause, SameBuffer, SamePlay, SameStory, SamePreparation, Told,
         Prepares, Survives
<1> QED BY <1>1, <1>2, <1>3 DEF Good

Resting(s, p, n, m, h, x) ==
    [s EXCEPT !.pause = p, !.silence = n, !.pauses = m, !.held = h, !.state = x]

\* Writing a silence writes nothing else.
LEMMA Rests ==
    ASSUME NEW s \in States, NEW p \in Silences, NEW n \in Nat, NEW m \in Nat,
           NEW h \in BOOLEAN, NEW x \in Goings
    PROVE  LET t == Resting(s, p, n, m, h, x) IN
           /\ t \in States /\ SameButPause(s, t)
           /\ t.pause = p /\ t.silence = n /\ t.pauses = m /\ t.held = h
           /\ t.state = x
<1> DEFINE t == [s EXCEPT !.pause = p, !.silence = n, !.pauses = m, !.held = h,
                          !.state = x]
<1>1. t \in States
  BY DEF States
<1>2. SameButPause(s, t)
  BY DEF States, SameButPause, SameBuffer, SamePlay, SamePreparation, SameStory
<1>3. /\ t.pause = p /\ t.silence = n /\ t.pauses = m /\ t.held = h
      /\ t.state = x
  BY DEF States
<1> QED BY <1>1, <1>2, <1>3 DEF Resting

\* One silence more.
LEMMA Distributes ==
    ASSUME NEW n \in Nat
    PROVE  PauseTicks * (n + 1) = PauseTicks * n + PauseTicks /\ PauseTicks * n \in Nat
OBVIOUS

\* A silence that was kept is over.
LEMMA PauseEnds ==
    ASSUME NEW s, Good(s), s.pause # NoPause, s.pause.elapsed = s.pause.left,
           NEW h \in BOOLEAN, NEW x \in Goings,
           (x = s.state /\ x # "paused") \/ (x = "paused" /\ h)
    PROVE  LET t == Resting(s, NoPause, s.silence + s.pause.elapsed, s.pauses + 1, h, x)
           IN Good(t) /\ SameButPause(s, t) /\ t.pause = NoPause /\ t.state = x
              /\ t.held = h
<1> DEFINE n == s.silence + s.pause.elapsed
           m == s.pauses + 1
           p == NoPause
           t == Resting(s, p, n, m, h, x)
<1>1. /\ s \in States /\ s.handle = NoHandle /\ s.terminal = "none" /\ s.state # "stopped"
      /\ s.pause \in Silences /\ s.silence \in Nat /\ s.pauses \in Nat
  BY DEF Good, Plays, Ended, States
<1>2. n \in Nat /\ m \in Nat /\ s.pause.left \in Nat
  BY <1>1 DEF Silences
<1>3. n = PauseTicks * m
  BY <1>1 DEF Good, Keeps, Owed
<1> HIDE DEF n, m
<1>7. p \in Silences
  BY NothingTyped
<1> HIDE DEF p
<1>4. /\ t \in States /\ SameButPause(s, t)
      /\ t.pause = p /\ t.silence = n /\ t.pauses = m /\ t.held = h
      /\ t.state = x
  BY <1>1, <1>2, <1>7, Rests, SMTT(60)
<1> HIDE DEF t
<1> USE DEF p
<1>5. Keeps(t)
  <2>1. NoPause.left = 0 /\ NoPause.running = FALSE
    BY DEF NoPause
  <2> QED BY <1>2, <1>3, <1>4, <2>1 DEF Keeps, Owed
<1> SUFFICES Good(t)
  BY <1>4 DEF t, n, m
<1>6. HeldBack(t)
  BY <1>4 DEF HeldBack, Held
<1> QED BY <1>1, <1>4, <1>5, <1>6, SilenceGood

\* endPause writes a silence.
LEMMA EndPause ==
    ASSUME NEW s \in States
    PROVE  endPause(s) = Resting(s, NoPause, s.silence + s.pause.elapsed, s.pauses + 1,
                                 s.held, s.state)
BY DEF endPause, Resting, States

\* A silence that has elapsed is settled unless it is paused.
LEMMA SettleElapsed ==
    ASSUME NEW s, Good(s)
    PROVE  LET t == settleElapsedPause(s) IN
           /\ Good(t) /\ SameButPause(s, t) /\ t.state = s.state
           /\ t.pause = s.pause \/ s.state # "paused"
<1> DEFINE t == endPause(s)
<1>1. s \in States /\ s.held \in BOOLEAN /\ s.state \in Goings
  BY DEF Good, States
<1>2. CASE s.pause.running /\ s.pause.elapsed = s.pause.left
  <2>1. s.pause # NoPause /\ s.state # "paused"
    BY <1>2 DEF Good, Keeps, NoPause
  <2>2. /\ Good(t) /\ SameButPause(s, t) /\ t.state = s.state
    BY <1>1, <1>2, <2>1, PauseEnds, EndPause
  <2> QED BY <1>2, <2>1, <2>2 DEF settleElapsedPause
<1>3. CASE ~(s.pause.running /\ s.pause.elapsed = s.pause.left)
  BY <1>3 DEF settleElapsedPause, SameButPause, SameBuffer, SamePlay, SamePreparation,
              SameStory
<1> QED BY <1>2, <1>3

\* A silence begins after a unit.
LEMMA BeginPause ==
    ASSUME NEW s, Good(s), s.terminal = "none", s.handle = NoHandle, s.pause = NoPause
    PROVE  LET t == beginPause(s) IN
           Good(t) /\ SameButPause(s, t) /\ t.state = s.state
<1> DEFINE r == (s.state = "playing")
           p == [left |-> PauseTicks, elapsed |-> 0, running |-> r]
           t == Resting(s, p, s.silence, s.pauses, s.held, s.state)
<1>1. /\ s \in States /\ s.held \in BOOLEAN /\ s.state \in Goings
      /\ s.silence \in Nat /\ s.pauses \in Nat
  BY DEF Good, States
<1>2. beginPause(s) = t
  BY <1>1 DEF beginPause, Resting, States
<1>3. /\ p \in Silences /\ p.left = PauseTicks /\ p.elapsed = 0 /\ p.running = r
      /\ p # NoPause
  BY DEF Silences, NoPause
<1>4. r => s.state # "paused"
  OBVIOUS
<1> HIDE DEF p, r
<1>5. /\ t \in States /\ SameButPause(s, t)
      /\ t.pause = p /\ t.silence = s.silence /\ t.pauses = s.pauses /\ t.held = s.held
      /\ t.state = s.state
  BY <1>1, <1>3, Rests
<1> HIDE DEF t
<1>6. Keeps(t)
  <2>1. s.silence = PauseTicks * s.pauses
    BY <1>1 DEF Good, Keeps, Owed, NoPause
  <2>2. PauseTicks * (s.pauses + 1) = PauseTicks * s.pauses + PauseTicks
    BY <1>1, Distributes
  <2> QED BY <1>1, <1>3, <1>4, <1>5, <2>1, <2>2 DEF Keeps, Owed
<1>7. HeldBack(t)
  BY <1>3, <1>5 DEF HeldBack, Held
<1> QED BY <1>2, <1>5, <1>6, <1>7, SilenceGood

-----------------------------------------------------------------------------
(* Units *)

Playing(s, r, h, q) == [s EXCEPT !.rate = r, !.handle = h, !.requests = q, !.awaited = TRUE]

\* Writing a unit writes nothing else.
LEMMA PlaysUnit ==
    ASSUME NEW s \in States, NEW r \in Rated, NEW h \in Handles, NEW q \in Requests
    PROVE  LET t == Playing(s, r, h, q) IN
           /\ t \in States
           /\ SameBuffer(s, t) /\ SamePause(s, t) /\ SamePreparation(s, t)
           /\ SameStory(s, t) /\ t.state = s.state
           /\ t.rate = r /\ t.handle = h /\ t.requests = q /\ t.awaited
<1> DEFINE x == TRUE
           t == [s EXCEPT !.rate = r, !.handle = h, !.requests = q, !.awaited = x]
<1>1. x \in BOOLEAN /\ x
  OBVIOUS
<1>2. t = Playing(s, r, h, q)
  BY DEF Playing
<1> HIDE DEF x
<1>3. t \in States
  BY <1>1 DEF States
<1>4. /\ SameBuffer(s, t) /\ SamePause(s, t) /\ SamePreparation(s, t)
      /\ SameStory(s, t) /\ t.state = s.state
  BY DEF States, SameBuffer, SamePause, SamePreparation, SameStory
<1>5. t.rate = r /\ t.handle = h /\ t.requests = q /\ t.awaited = x
  BY DEF States
<1> QED BY <1>1, <1>2, <1>3, <1>4, <1>5

\* The request made last is the last of the queue.
LEMMA Asked ==
    ASSUME NEW s \in States, NEW request \in {"suspend", "resume"}
    PROVE  LET q == Append(s.requests, request) IN
           /\ q \in Requests /\ Len(q) = Len(s.requests) + 1 /\ q[Len(q)] = request
           /\ q # <<>> /\ Len(s.requests) \in Nat
<1>1. s.requests \in Seq({"suspend", "resume"})
  BY DEF States, Requests
<1> QED BY <1>1 DEF Requests

Fresh(n, rate) == [NoHandle EXCEPT !.unit = n, !.rate = rate]

\* A unit that was not started yet.
LEMMA FreshUnit ==
    ASSUME NEW n \in Nat, NEW rate \in Rates
    PROVE  LET h == Fresh(n, rate) IN
           /\ h \in Handles /\ h.unit = n /\ h.rate = rate
           /\ ~h.armed /\ h.sound = "no" /\ ~h.ending /\ ~h.told
           /\ n # 0 => h # NoHandle
<1> DEFINE h == [NoHandle EXCEPT !.unit = n, !.rate = rate]
<1>1. ASSUME NEW z \in Handles
      PROVE  /\ [z EXCEPT !.unit = n, !.rate = rate] \in Handles
             /\ [z EXCEPT !.unit = n, !.rate = rate].unit = n
             /\ [z EXCEPT !.unit = n, !.rate = rate].rate = rate
             /\ [z EXCEPT !.unit = n, !.rate = rate].armed = z.armed
             /\ [z EXCEPT !.unit = n, !.rate = rate].sound = z.sound
             /\ [z EXCEPT !.unit = n, !.rate = rate].ending = z.ending
             /\ [z EXCEPT !.unit = n, !.rate = rate].told = z.told
  BY <1>1 DEF Handles
<1>2. /\ ~NoHandle.armed /\ NoHandle.sound = "no" /\ ~NoHandle.ending
      /\ ~NoHandle.told /\ NoHandle.unit = 0
  BY DEF NoHandle
<1>3. /\ h \in Handles /\ h.unit = n /\ h.rate = rate
      /\ h.armed = NoHandle.armed /\ h.sound = NoHandle.sound
      /\ h.ending = NoHandle.ending /\ h.told = NoHandle.told
  BY <1>1, NothingTyped
<1> HIDE DEF h
<1>4. n # 0 => h # NoHandle
  BY <1>2, <1>3
<1> USE DEF h
<1> QED BY <1>2, <1>3, <1>4 DEF Fresh

\* A unit starts where nothing plays and nothing is awaited; an ordinary unit
\* leaves the preparation to nobody.
LEMMA StartUnit ==
    ASSUME NEW s, Good(s), s.state = "playing", s.handle = NoHandle, s.pause = NoPause,
           Unrefused(s)
    PROVE  LET t == startUnit(s) IN
           /\ Good(t) /\ t.handle # NoHandle /\ t.terminal = s.terminal
           /\ t.state = s.state
<1> DEFINE rate == nextRate(s)
           b == IF rate = DefaultRate THEN releaseBackend(s) ELSE s
           r == [s.rate EXCEPT !.active = rate, !.pending = NoRate]
           h == Fresh(s.gone + 1, rate)
           q == Append(s.requests, "resume")
           t == Playing(b, r, h, q)
<1>1. s \in States /\ s.rate \in Rated /\ s.gone \in Nat /\ s.terminal = "none"
  BY DEF Good, States, Ended
<1>2. rate \in Rates /\ rate # NoRate
  BY <1>1, NothingTyped DEF nextRate, Rated
<1>3. r \in Rated /\ r.active = rate
  BY <1>1, <1>2 DEF Rated
<1>4. /\ h \in Handles /\ h.unit = s.gone + 1 /\ h.rate = rate /\ h # NoHandle
      /\ ~h.armed /\ h.sound = "no" /\ ~h.ending /\ ~h.told
  <2>1. s.gone + 1 \in Nat /\ s.gone + 1 # 0
    BY <1>1
  <2> HIDE DEF rate
  <2> QED BY <1>2, <2>1, FreshUnit
<1>5. /\ Good(b) /\ PreparationOnly(s, b)
      /\ b.preparation = s.preparation
      /\ rate = DefaultRate /\ s.preparation # "none" => b.creation \in {"adopted", "void"}
  <2>1. PreparationOnly(s, s)
    BY DEF PreparationOnly, SameUnit, SameBuffer, SamePlay, SamePause, SameStory, SameGoing
  <2> QED BY <2>1, ReleaseBackend DEF Unrefused
<1>6. b.requests = s.requests
  BY <1>5 DEF PreparationOnly, SameUnit, SamePlay
<1>7. startUnit(s) = t
  <2>1. b \in States /\ b.rate = s.rate
    BY <1>5 DEF Good, PreparationOnly
  <2> HIDE DEF b
  <2>2. b.handle = NoHandle
    BY <1>5 DEF PreparationOnly, SameUnit, SamePlay
  <2>3. startUnit(s) =
          ask([b EXCEPT !.rate.active = rate, !.rate.pending = NoRate, !.handle = h],
              "resume")
    BY DEF startUnit, b, Fresh
  <2>4. [b EXCEPT !.rate.active = rate, !.rate.pending = NoRate, !.handle = h]
          = [b EXCEPT !.rate = r, !.handle = h]
    BY <1>1, <2>1 DEF States, Rated
  <2> HIDE DEF r, h, rate
  <2>5. ask([b EXCEPT !.rate = r, !.handle = h], "resume") = t
    BY <1>6, <2>1 DEF ask, Playing, States
  <2> QED BY <2>3, <2>4, <2>5
<1>8. /\ q \in Requests /\ Len(q) = Len(s.requests) + 1 /\ q[Len(q)] = "resume"
      /\ q # <<>> /\ Len(s.requests) \in Nat
  BY <1>1, Asked
<1> HIDE DEF b, r, h, q, rate
<1>9. /\ t \in States
      /\ SameBuffer(b, t) /\ SamePause(b, t) /\ SamePreparation(b, t)
      /\ SameStory(b, t) /\ t.state = b.state
      /\ t.rate = r /\ t.handle = h /\ t.requests = q /\ t.awaited
  BY <1>3, <1>4, <1>5, <1>8, PlaysUnit DEF Good
<1> HIDE DEF t
<1>10. /\ SameBuffer(s, t) /\ SamePause(s, t) /\ SameStory(s, t) /\ t.state = s.state
  BY <1>5, <1>9 DEF PreparationOnly, SameUnit, SameBuffer, SamePause, SameStory, SameGoing
<1>11. Buffered(t) /\ Ended(t)
  BY <1>1, <1>10 DEF Good, Buffered, Ended, SameBuffer, SameStory
<1>12. Plays(t)
  BY <1>2, <1>3, <1>4, <1>9, <1>10 DEF Good, Plays, Buffered, SameBuffer, SamePause
<1>13. Asks(t)
  <2>1. Len(s.requests) <= MaxRequests
    BY <1>1 DEF Good, Asks
  <2> QED BY <1>4, <1>8, <1>9, <1>10, <2>1 DEF Asks
<1>14. Keeps(t) /\ HeldBack(t)
  BY <1>9, <1>10 DEF Good, Keeps, Owed, HeldBack, SamePause, SameStory
<1>15. Prepares(t)
  <2>1. Prepares(b)
    BY <1>5 DEF Good
  <2>2. t.preparation = "due" /\ t.rate.active = DefaultRate => t.creation \in {"adopted", "void"}
    BY <1>3, <1>5, <1>9 DEF SamePreparation
  <2> QED BY <1>9, <2>1, <2>2 DEF Prepares, Survives, SamePreparation
<1>16. Told(t)
  <2>1. ~s.handle.told
    BY DEF NoHandle
  <2> QED BY <1>4, <1>9, <1>10, <2>1 DEF Good, Told, SameBuffer, SameStory
<1> QED BY <1>4, <1>7, <1>9, <1>10, <1>11, <1>12, <1>13, <1>14, <1>15, <1>16
        DEF Good, SameStory

-----------------------------------------------------------------------------
(* What most handlers end with *)

\* synchronize keeps a good state good, a paused one paused with its unit,
\* and leaves something to pause.
LEMMA SynchronizeGood ==
    ASSUME NEW s, Good(s), NEW ready \in BOOLEAN, Unrefused(s)
    PROVE  LET t == synchronize(s, ready) IN
           /\ Good(t) /\ t.terminal = s.terminal
           /\ s.state = "paused" => t.state = "paused" /\ t.handle = s.handle
           /\ t.state = "paused" => s.state = "paused"
           /\ s.terminal = "none" => Holds(t)
<1>1. CASE s.terminal # "none"
  BY <1>1 DEF synchronize
<1>2. CASE s.terminal = "none"
  <2> DEFINE p == refreshProgress(s, ready)
             f == fallback(p, ready)
             r == IF p.future /\ p.stretcher = "failed" THEN f ELSE p
             e == settleElapsedPause(r)
             u == startUnit(e)
             w == prepare(e, nextRate(e))
  <2>1. synchronize(s, ready) =
          IF e.state = "playing" /\ e.handle = NoHandle /\ e.pause = NoPause
          THEN IF Prepared(e, nextRate(e)) THEN u ELSE w ELSE e
    BY <1>2 DEF synchronize
  <2>2. /\ Good(p) /\ p.rate = s.rate /\ p.state = s.state
        /\ p.terminal = "none" /\ SamePreparation(s, p)
        /\ s.state # "playing" => p.handle = s.handle
    BY <1>2, Progress
  <2> HIDE DEF p
  <2>3. Unrefused(p)
    BY <2>2 DEF Unrefused, nextRate, SamePreparation
  <2>4. /\ Good(f) /\ SameUnit(p, f) /\ f.creation \in {"none", "stale"}
    BY <2>2, Fallback
  <2> HIDE DEF f
  <2>5. /\ Good(r) /\ Unrefused(r) /\ r.terminal = "none"
        /\ s.state = "paused" => r.state = "paused" /\ r.handle = s.handle
        /\ r.state = "paused" => s.state = "paused"
    BY <2>2, <2>3, <2>4 DEF SameUnit, SameStory, SameGoing, SamePlay, Unrefused
  <2> HIDE DEF r
  <2>6. /\ Good(e) /\ SameButPause(r, e) /\ e.state = r.state
    BY <2>5, SettleElapsed
  <2> HIDE DEF e
  <2>7. /\ Unrefused(e) /\ e.terminal = "none"
        /\ s.state = "paused" => e.state = "paused" /\ e.handle = s.handle
        /\ e.state = "paused" => s.state = "paused"
    BY <2>5, <2>6
       DEF SameButPause, SamePlay, SameStory, SamePreparation, Unrefused, nextRate
  <2>8. CASE /\ e.state = "playing" /\ e.handle = NoHandle /\ e.pause = NoPause
             /\ Prepared(e, nextRate(e))
    <3>1. Good(u) /\ u.handle # NoHandle /\ u.terminal = "none" /\ u.state = "playing"
      BY <2>6, <2>7, <2>8, StartUnit
    <3> HIDE DEF u
    <3> QED BY <1>2, <2>1, <2>7, <2>8, <3>1 DEF Holds
  <2>9. CASE /\ e.state = "playing" /\ e.handle = NoHandle /\ e.pause = NoPause
             /\ ~Prepared(e, nextRate(e))
    <3>1. Good(w) /\ PreparationOnly(e, w) /\ w.preparation # "none"
      BY <2>6, <2>7, <2>9, Prepare
    <3> HIDE DEF w
    <3>2. w.terminal = "none" /\ w.state = "playing"
      BY <2>7, <2>9, <3>1 DEF PreparationOnly, SameUnit, SameStory
    <3> QED BY <1>2, <2>1, <2>7, <2>9, <3>1, <3>2 DEF Holds
  <2>10. CASE ~(e.state = "playing" /\ e.handle = NoHandle /\ e.pause = NoPause)
    BY <1>2, <2>1, <2>6, <2>7, <2>10 DEF Holds
  <2> QED BY <2>8, <2>9, <2>10
<1>3. s.terminal = "none" \/ s.terminal # "none"
  OBVIOUS
<1> QED BY <1>1, <1>2, <1>3

-----------------------------------------------------------------------------
(* The run and the listener *)

\* PausedIsSilent
Silently(s, t) ==
    s.state = "paused" /\ t.state = "paused" =>
        t.handle.unit \in {0, s.handle.unit}
        /\ (t.handle.sound = "no" \/ t.handle.sound = s.handle.sound)

\* Who keeps the unit stays silent.
LEMMA Stays == ASSUME NEW s, NEW t, t.handle = s.handle PROVE Silently(s, t)
BY DEF Silently

\* Who drops the unit falls silent.
LEMMA Gone == ASSUME NEW s, NEW t, t.handle = NoHandle PROVE Silently(s, t)
BY DEF Silently, NoHandle

\* PausedIsSilent asks nothing unless both states are paused.
LEMMA NotPaused ==
    ASSUME NEW s, NEW t, s.state # "paused" \/ t.state # "paused" PROVE Silently(s, t)
BY DEF Silently

\* synchronize, as a handler ends with it.
LEMMA Synchronizes ==
    ASSUME NEW s, Good(s), NEW ready \in BOOLEAN, Unrefused(s)
    PROVE  Good(synchronize(s, ready)) /\ Silently(s, synchronize(s, ready))
BY SynchronizeGood, Stays, NotPaused

\* acceptCompletedUnit
LEMMA UnitArrivesGood ==
    ASSUME Good(now), UnitArrives
    PROVE  Good(now') /\ Silently(now, now')
<1> DEFINE n == now.produced + 1
           c == [now EXCEPT !.produced = n]
<1>1. PICK ready \in BOOLEAN : now' = refresh(c, ready)
  BY DEF UnitArrives
<1>2. now.terminal = "none" /\ now.produced < Units
  BY DEF UnitArrives, Live
<1>3. now \in States /\ now.produced \in Nat /\ n \in Nat
  BY DEF Good, States
<1>4. c \in States /\ c.produced = n
  BY <1>3 DEF States
<1>5. /\ c.gone = now.gone /\ c.discarded = now.discarded /\ SamePlay(now, c)
      /\ SamePause(now, c) /\ SamePreparation(now, c) /\ SameStory(now, c)
      /\ c.rate = now.rate /\ c.state = now.state
  BY <1>3 DEF States, SamePlay, SamePause, SamePreparation, SameStory
<1>6. now.gone \in Nat /\ now.discarded \in Nat
  BY <1>3 DEF States
<1> HIDE DEF c
<1>7. Buffered(c) /\ Plays(c)
  BY <1>2, <1>3, <1>4, <1>5, <1>6 DEF Good, Buffered, Plays, SamePlay, SamePause
<1>8. Asks(c) /\ Keeps(c) /\ HeldBack(c)
  BY <1>5 DEF Good, Asks, Keeps, Owed, HeldBack, Held, SamePlay, SamePause, SameStory
<1>9. Ended(c) /\ Prepares(c) /\ Told(c)
  BY <1>5 DEF Good, Ended, Prepares, Survives, Told, SamePlay, SamePause, SameStory,
              SamePreparation
<1>10. Good(c)
  BY <1>4, <1>7, <1>8, <1>9 DEF Good
<1>11. Good(now') /\ now'.handle = c.handle
  BY <1>1, <1>4, <1>10, RefreshGood, Refresh DEF SameUnit, SamePlay
<1> QED BY <1>5, <1>11, Stays DEF SamePlay

\* A tick of the coordinator
LEMMA SynchronizeIsGood ==
    ASSUME Good(now), Synchronize
    PROVE  Good(now') /\ Silently(now, now')
BY Synchronizes DEF Synchronize, Becomes, Quiet, Unrefused

\* A request for the unit that plays.
Asking(s, h, q, x) ==
    [s EXCEPT !.handle = h, !.requests = q, !.awaited = TRUE, !.state = x]

\* A unit paused or resumed awaits the answer to its last request.
LEMMA AsksGood ==
    ASSUME NEW s, Good(s), s.handle # NoHandle, Len(s.requests) < MaxRequests,
           NEW request \in {"suspend", "resume"}, NEW x \in Goings,
           x = "paused" => request = "suspend",
           x = s.state \/ x = "paused"
    PROVE  LET t == Asking(s, [s.handle EXCEPT !.sound = "no"],
                           Append(s.requests, request), x) IN
           /\ Good(t) /\ t.state = x /\ t.handle # NoHandle
           /\ t.handle.unit = s.handle.unit /\ t.handle.sound = "no"
           /\ t.terminal = "none" /\ t.creation = s.creation
<1> DEFINE o == "no"
           y == TRUE
           h == [s.handle EXCEPT !.sound = o]
           q == Append(s.requests, request)
           t == [s EXCEPT !.handle = h, !.requests = q, !.awaited = y, !.state = x]
<1>1. s \in States /\ s.handle \in Handles /\ s.terminal = "none" /\ s.state # "stopped"
  BY DEF Good, States, Ended
<1>2. /\ h \in Handles /\ h.sound = o /\ h.unit = s.handle.unit /\ h.rate = s.handle.rate
      /\ h.armed = s.handle.armed /\ h.told = s.handle.told /\ h.ending = s.handle.ending
  BY <1>1 DEF Handles
<1>3. /\ q \in Requests /\ Len(q) = Len(s.requests) + 1 /\ q[Len(q)] = request
      /\ q # <<>> /\ Len(s.requests) \in Nat
  BY <1>1, Asked
<1>4. y \in BOOLEAN /\ y
  OBVIOUS
<1>5. h # NoHandle
  <2>1. s.handle.unit # 0
    BY <1>1 DEF Good, Plays, States
  <2>2. NoHandle.unit = 0
    BY DEF NoHandle
  <2> HIDE DEF h
  <2> QED BY <1>2, <2>1, <2>2
<1>6. t = Asking(s, [s.handle EXCEPT !.sound = "no"], Append(s.requests, request), x)
  BY DEF Asking
<1> HIDE DEF h, q, y
<1>7. t \in States
  BY <1>1, <1>2, <1>3, <1>4 DEF States
<1>8. t.handle = h /\ t.requests = q /\ t.awaited = y /\ t.state = x /\ t.rate = s.rate
  BY <1>1 DEF States
<1>9. SameBuffer(s, t) /\ SamePause(s, t) /\ SamePreparation(s, t) /\ SameStory(s, t)
  BY <1>1 DEF States, SameBuffer, SamePause, SamePreparation, SameStory
<1> HIDE DEF t
<1>10. Buffered(t) /\ Ended(t)
  BY <1>1, <1>8, <1>9 DEF Good, Buffered, Ended, SameBuffer, SameStory
<1>11. Plays(t)
  BY <1>2, <1>8, <1>9 DEF Good, Plays, SameBuffer, SamePause
<1>12. Asks(t)
  BY <1>2, <1>3, <1>5, <1>8, <1>9 DEF Asks, SameStory
<1>13. Keeps(t)
  <2>1. s.pause = NoPause /\ ~NoPause.running
    BY DEF Good, Plays, NoPause
  <2> QED BY <1>9, <2>1 DEF Good, Keeps, Owed, SamePause, SameStory
<1>14. Prepares(t) /\ HeldBack(t)
  BY <1>5, <1>8, <1>9 DEF Good, Prepares, Survives, HeldBack, Held, SamePreparation
<1>15. Told(t)
  BY <1>2, <1>8, <1>9 DEF Good, Told, SameBuffer, SameStory
<1>16. Good(t)
  BY <1>7, <1>10, <1>11, <1>12, <1>13, <1>14, <1>15 DEF Good
<1> QED BY <1>1, <1>2, <1>5, <1>6, <1>8, <1>9, <1>16 DEF SameStory, SamePreparation

\* What is held back when nothing plays: the rest of a silence, or the unit to
\* come.
LEMMA HoldsBack ==
    ASSUME NEW s, Good(s), s.terminal = "none", s.handle = NoHandle
    PROVE  LET t == [quieten(s) EXCEPT !.state = "paused"] IN
           Good(t) /\ t.handle = NoHandle
<1>1. /\ s \in States /\ "paused" \in Goings /\ s.state # "stopped"
      /\ s.silence \in Nat /\ s.pauses \in Nat /\ s.pause \in Silences
      /\ s.held \in BOOLEAN
  BY DEF Good, States, Ended, Goings
<1>2. s.pause.left \in 0 .. PauseTicks /\ s.pause.elapsed \in 0 .. PauseTicks
  BY <1>1 DEF Silences
<1>3. TRUE \in BOOLEAN
  OBVIOUS
<1>4. CASE s.pause # NoPause /\ s.pause.elapsed = s.pause.left
  <2> DEFINE y == TRUE
             t == Resting(s, NoPause, s.silence + s.pause.elapsed, s.pauses + 1, y, "paused")
  <2>1. y \in BOOLEAN /\ y
    OBVIOUS
  <2>2. [quieten(s) EXCEPT !.state = "paused"] = t
    <3>1. quieten(s) = [endPause(s) EXCEPT !.held = TRUE]
      BY <1>2, <1>4 DEF quieten, freezePause
    <3>2. endPause(s) = Resting(s, NoPause, s.silence + s.pause.elapsed, s.pauses + 1,
                                s.held, s.state)
      BY <1>1, EndPause
    <3> QED BY <1>1, <3>1, <3>2, ZenonT(60) DEF Resting, States
  <2> HIDE DEF y
  <2>3. Good(t) /\ SameButPause(s, t)
    BY <1>1, <1>4, <2>1, PauseEnds
  <2> HIDE DEF t
  <2> QED BY <2>2, <2>3 DEF SameButPause, SamePlay
<1>5. CASE s.pause # NoPause /\ s.pause.elapsed # s.pause.left
  <2> DEFINE y == FALSE
             p == [left |-> s.pause.left - s.pause.elapsed, elapsed |-> 0, running |-> y]
             n == s.silence + s.pause.elapsed
             t == Resting(s, p, n, s.pauses, s.held, "paused")
  <2>1. y \in BOOLEAN /\ ~y
    OBVIOUS
  <2>2. s.pause.elapsed < s.pause.left
    BY <1>2, <1>5 DEF Good, Keeps
  <2>3. [quieten(s) EXCEPT !.state = "paused"] = t
    <3>1. quieten(s) = [s EXCEPT !.silence = n, !.pause = p]
      BY <1>1, <1>2, <1>5, <2>2 DEF quieten, freezePause
    <3> HIDE DEF n, p
    <3> QED BY <1>1, <3>1 DEF Resting, States
  <2> HIDE DEF y
  <2>4. /\ p \in Silences /\ p.left = s.pause.left - s.pause.elapsed /\ p.left > 0
        /\ p.elapsed = 0 /\ p.running = y
    BY <1>2, <2>1, <2>2 DEF Silences
  <2>5. n \in Nat
    BY <1>1, <1>2
  <2>6. p # NoPause
    <3>1. NoPause.left = 0
      BY DEF NoPause
    <3> HIDE DEF p
    <3> QED BY <2>4, <3>1
  <2> HIDE DEF p
  <2>7. n + p.left = s.silence + s.pause.left
    BY <1>1, <1>2, <2>4
  <2> HIDE DEF n
  <2>8. /\ t \in States /\ SameButPause(s, t)
        /\ t.pause = p /\ t.silence = n /\ t.pauses = s.pauses /\ t.held = s.held
        /\ t.state = "paused"
    BY <1>1, <2>4, <2>5, Rests
  <2> HIDE DEF t
  <2>9. Keeps(t)
    <3>1. s.silence + s.pause.left = PauseTicks * (s.pauses + 1)
      BY <1>5 DEF Good, Keeps, Owed
    <3>2. Owed(t) = s.pauses + 1
      BY <2>6, <2>8 DEF Owed
    <3>3. t.silence + t.pause.left = PauseTicks * Owed(t)
      BY <2>7, <2>8, <3>1, <3>2
    <3>4. p.left \in Nat
      BY <1>2, <2>4
    <3> QED BY <2>1, <2>4, <2>8, <3>3, <3>4 DEF Keeps
  <2>10. HeldBack(t)
    BY <2>6, <2>8 DEF HeldBack, Held
  <2>11. Good(t)
    BY <1>1, <2>8, <2>9, <2>10, SilenceGood
  <2> QED BY <2>3, <2>8, <2>11 DEF SameButPause, SamePlay
<1>6. CASE s.pause = NoPause
  <2> DEFINE y == TRUE
             p == s.pause
             n == s.silence
             x == "paused"
             t == Resting(s, p, n, s.pauses, y, x)
  <2>1. y \in BOOLEAN /\ y
    OBVIOUS
  <2>2. [quieten(s) EXCEPT !.state = "paused"] = t
    BY <1>1, <1>6 DEF quieten, Resting, States
  <2>7. p \in Silences /\ n \in Nat /\ x \in Goings /\ s.pauses \in Nat
    BY <1>1
  <2> HIDE DEF y, p, n, x
  <2>3. /\ t \in States /\ SameButPause(s, t)
        /\ t.pause = p /\ t.silence = n /\ t.pauses = s.pauses
        /\ t.held = y /\ t.state = x
    <3>1. s \in States
      BY <1>1
    <3>2. y \in BOOLEAN
      BY <2>1
    <3> QED BY <2>7, <3>1, <3>2, Rests
  <2> HIDE DEF t
  <2> USE DEF p, n, x
  <2>4. ~NoPause.running
    BY DEF NoPause
  <2>5. Keeps(t) /\ HeldBack(t)
    BY <1>6, <2>1, <2>3, <2>4
       DEF Good, Keeps, Owed, HeldBack, Held, SameButPause, SameStory
  <2>6. Good(t)
    BY <1>1, <2>3, <2>5, SilenceGood
  <2> QED BY <2>2, <2>3, <2>6 DEF SameButPause, SamePlay
<1> QED BY <1>4, <1>5, <1>6

\* Pause: what plays is quietened or held back.
LEMMA PauseGood ==
    ASSUME Good(now), Pause
    PROVE  Good(now') /\ Silently(now, now')
<1>1. PICK ready \in BOOLEAN :
         LET s == synchronize(now, ready) IN
         /\ Len(s.requests) < MaxRequests
         /\ now' = [quieten(s) EXCEPT !.state = "paused"]
  BY DEF Pause
<1> DEFINE s == synchronize(now, ready)
<1>2. now.terminal = "none" /\ now.state # "paused" /\ Unrefused(now)
  BY DEF Pause, Quiet, Live, Pausable, Unrefused
<1>3. /\ Len(s.requests) < MaxRequests
      /\ now' = [quieten(s) EXCEPT !.state = "paused"]
  BY <1>1
<1>4. Good(s) /\ s.terminal = "none"
  BY <1>2, SynchronizeGood
<1> HIDE DEF s
<1>5. Silently(now, now')
  BY <1>2, NotPaused
<1>6. CASE s.handle # NoHandle
  <2> DEFINE h == [s.handle EXCEPT !.sound = "no"]
             t == Asking(s, h, Append(s.requests, "suspend"), "paused")
  <2>1. s \in States /\ "paused" \in Goings
    BY <1>4 DEF Good, Goings
  <2>2. [quieten(s) EXCEPT !.state = "paused"] = t
    <3>1. quieten(s) = ask([s EXCEPT !.handle = h], "suspend")
      BY <1>6, <2>1 DEF quieten, States
    <3> HIDE DEF h
    <3> QED BY <2>1, <3>1 DEF ask, Asking, States
  <2>3. Good(t)
    BY <1>3, <1>4, <1>6, <2>1, AsksGood
  <2> QED BY <1>3, <1>5, <2>2, <2>3
<1>7. CASE s.handle = NoHandle
  BY <1>3, <1>4, <1>5, <1>7, HoldsBack
<1> QED BY <1>6, <1>7

\* What was held goes on.
LEMMA AwakenGood ==
    ASSUME NEW s, Good(s), s.state \notin {"paused", "stopped"},
           Len(s.requests) < MaxRequests
    PROVE  LET t == awaken(s) IN
           Good(t) /\ t.creation = s.creation /\ t.terminal = "none"
           /\ t.state = s.state
<1>1. s \in States /\ s.terminal = "none"
  BY DEF Good, Ended
<1>2. CASE s.handle # NoHandle
  <2> DEFINE h == [s.handle EXCEPT !.sound = "no"]
             t == Asking(s, h, Append(s.requests, "resume"), s.state)
  <2>1. s.state \in Goings
    BY <1>1 DEF States
  <2>2. awaken(s) = t
    <3>1. awaken(s) = ask([s EXCEPT !.handle = h], "resume")
      BY <1>1, <1>2 DEF awaken, States
    <3> HIDE DEF h
    <3> QED BY <1>1, <3>1 DEF ask, Asking, States
  <2>3. /\ Good(t) /\ t.creation = s.creation /\ t.terminal = "none"
        /\ t.state = s.state
    BY <1>2, <2>1, AsksGood
  <2> QED BY <2>2, <2>3
<1>3. CASE s.handle = NoHandle /\ s.pause # NoPause
  <2> DEFINE y == TRUE
             p == [s.pause EXCEPT !.running = y]
             t == Resting(s, p, s.silence, s.pauses, s.held, s.state)
  <2>1. /\ s.pause \in Silences /\ s.silence \in Nat /\ s.pauses \in Nat
        /\ s.held \in BOOLEAN /\ s.state \in Goings
    BY <1>1 DEF States
  <2>2. awaken(s) = t
    BY <1>1, <1>3 DEF awaken, Resting, States
  <2>3. y \in BOOLEAN
    OBVIOUS
  <2> HIDE DEF y
  <2>4. p \in Silences /\ p.left = s.pause.left /\ p.elapsed = s.pause.elapsed
    BY <2>1, <2>3 DEF Silences
  <2> HIDE DEF p
  <2>5. /\ t \in States /\ SameButPause(s, t)
        /\ t.pause = p /\ t.silence = s.silence /\ t.pauses = s.pauses
        /\ t.held = s.held /\ t.state = s.state
    BY <1>1, <2>1, <2>4, Rests
  <2> HIDE DEF t
  <2>6. p # NoPause
    <3>1. NoPause.left = 0
      BY DEF NoPause
    <3> QED BY <1>3, <2>1, <2>4, <3>1 DEF Good, Keeps, Silences
  <2>7. Keeps(t)
    <3>1. t.silence + t.pause.left = PauseTicks * Owed(t)
      BY <1>1, <1>3, <2>4, <2>5, <2>6 DEF Good, Keeps, Owed
    <3> QED BY <1>3, <2>4, <2>5, <2>6, <3>1 DEF Good, Keeps
  <2>8. HeldBack(t)
    BY <2>6, <2>5 DEF HeldBack, Held
  <2>9. Good(t)
    BY <1>1, <1>3, <2>5, <2>7, <2>8, SilenceGood
  <2> QED BY <1>1, <2>2, <2>5, <2>9 DEF SameButPause, SamePreparation, SameStory
<1>4. CASE s.handle = NoHandle /\ s.pause = NoPause
  BY <1>1, <1>4 DEF awaken
<1> QED BY <1>2, <1>3, <1>4

\* Resume: what was held goes on.
LEMMA ResumeGood ==
    ASSUME Good(now), Resume
    PROVE  Good(now') /\ Silently(now, now')
<1> DEFINE going == IF Waiting(now) THEN "playing" ELSE "buffering"
           y == FALSE
           c == [now EXCEPT !.state = going, !.held = y]
<1>1. PICK ready \in BOOLEAN : now' = synchronize(awaken(refresh(c, ready)), ready)
  BY DEF Resume
<1>2. /\ now.terminal = "none" /\ now.state = "paused" /\ now.creation # "refused"
      /\ Len(now.requests) < MaxRequests
  BY DEF Resume, Live, Quiet
<1>3. now \in States /\ going \in Goings /\ y \in BOOLEAN /\ ~y
      /\ going \notin {"paused", "stopped"} /\ (going = "playing" => now.gone < now.produced)
  BY DEF Good, Goings, Waiting
<1> HIDE DEF going, y
<1>4. c \in States /\ c.state = going /\ c.held = y
  BY <1>3 DEF States
<1>5. /\ SameBuffer(now, c) /\ SamePlay(now, c) /\ SamePreparation(now, c)
      /\ SameStory(now, c) /\ c.rate = now.rate /\ c.pause = now.pause
      /\ c.silence = now.silence /\ c.pauses = now.pauses
  BY <1>3 DEF States, SameBuffer, SamePlay, SamePreparation, SameStory
<1> HIDE DEF c
<1>6. Buffered(c) /\ Ended(c)
  BY <1>2, <1>3, <1>4, <1>5 DEF Good, Buffered, Ended, SameBuffer, SamePlay, SameStory
<1>7. Plays(c) /\ Asks(c)
  BY <1>2, <1>3, <1>4, <1>5 DEF Good, Plays, Asks, SameBuffer, SamePlay, SameStory
<1>8. Keeps(c) /\ HeldBack(c)
  BY <1>2, <1>3, <1>4, <1>5 DEF Good, Keeps, Owed, HeldBack, SameStory
<1>9. Prepares(c) /\ Told(c)
  BY <1>5 DEF Good, Prepares, Survives, Told, SameBuffer, SamePlay, SamePreparation, SameStory
<1>10. Good(c)
  BY <1>4, <1>6, <1>7, <1>8, <1>9 DEF Good
<1> DEFINE r == refresh(c, ready)
<1>11. Good(r) /\ SameUnit(c, r) /\ SamePreparation(c, r)
  BY <1>4, <1>10, RefreshGood, Refresh
<1> HIDE DEF r
<1>12. /\ r.state \notin {"paused", "stopped"} /\ Len(r.requests) < MaxRequests
       /\ r.creation # "refused"
  BY <1>2, <1>3, <1>4, <1>5, <1>11 DEF SameUnit, SameGoing, SamePlay, SamePreparation
<1> DEFINE a == awaken(r)
<1>13. /\ Good(a) /\ a.creation = r.creation /\ a.terminal = "none"
       /\ a.state = r.state
  BY <1>11, <1>12, AwakenGood
<1>14. now' = synchronize(a, ready)
  BY <1>1 DEF r
<1> HIDE DEF a
<1>15. Unrefused(a)
  BY <1>12, <1>13 DEF Unrefused
<1>16. Good(now') /\ now'.state # "paused"
  BY <1>12, <1>13, <1>14, <1>15, SynchronizeGood
<1> QED BY <1>16, NotPaused

\* setPlaybackRatePercent
LEMMA SelectRateGood ==
    ASSUME Good(now), SelectRate
    PROVE  Good(now') /\ Silently(now, now')
<1>1. PICK rate \in Rates, ready \in BOOLEAN :
         now' = synchronize(setRate(now, rate, ready), ready)
  BY DEF SelectRate, Becomes
<1>2. now.terminal = "none" /\ now.creation # "refused"
  BY DEF SelectRate, Live, Quiet
<1> DEFINE s == setRate(now, rate, ready)
<1>3. Good(s) /\ SameUnit(now, s) /\ Unrefused(s)
  BY <1>2, SetRate
<1>4. now' = synchronize(s, ready)
  BY <1>1
<1> HIDE DEF s
<1>5. /\ Good(now') /\ (s.state = "paused" => now'.handle = s.handle)
  BY <1>3, <1>4, SynchronizeGood
<1>6. now.state = "paused" => now'.handle = now.handle
  BY <1>3, <1>5 DEF SameUnit, SameGoing, SamePlay
<1> QED BY <1>5, <1>6, Stays, NotPaused

\* stop and invalidateForSeek
LEMMA StopGood ==
    ASSUME Good(now), Stop
    PROVE  Good(now') /\ Silently(now, now')
<1>1. now' = invalidate(now, "stopped")
  BY DEF Stop
<1>2. Good(now') /\ now'.handle = NoHandle
  BY <1>1, GoodStops, Invalidate DEF StoppedFrom
<1> QED BY <1>2, Gone

\* Whoever owns the backend, the state of a run that was stopped stays good.
LEMMA StaysOver ==
    ASSUME NEW s, Good(s), s.terminal # "none", NEW t \in States,
           SameBuffer(s, t), SamePause(s, t), SameStory(s, t), t.state = s.state,
           t.handle = s.handle, t.awaited = s.awaited,
           t.requests = s.requests \/ t.requests = <<>>,
           t.preparation = s.preparation, t.creation \in {"none", "stale"}
    PROVE  Good(t) /\ Silently(s, t)
<1>1. Len(<<>>) = 0 /\ s.preparation = "none" /\ s.handle = NoHandle
  BY DEF Good, Ended
<1>2. Buffered(t) /\ Ended(t)
  BY <1>1 DEF Good, Buffered, Ended, SameBuffer, SamePause, SameStory
<1>3. Plays(t)
  BY <1>1 DEF Good, Plays, NoHandle
<1>4. Asks(t)
  BY <1>1 DEF Good, Asks, SameStory
<1>5. Keeps(t) /\ HeldBack(t) /\ Prepares(t)
  BY <1>1 DEF Good, Keeps, HeldBack, Held, Prepares, Survives, SamePause, SameStory, Ended
<1>6. Told(t)
  BY DEF Good, Told, SameStory
<1> QED BY <1>2, <1>3, <1>4, <1>5, <1>6, Stays DEF Good

\* close
LEMMA CloseGood ==
    ASSUME Good(now), Close
    PROVE  Good(now') /\ Silently(now, now')
<1> DEFINE s == IF Live THEN invalidate(now, "stopped") ELSE now
           c == IF s.creation = "none" THEN "none" ELSE "stale"
           q == <<>>
           t == [s EXCEPT !.backend = "closing", !.stretcher = "none", !.requests = q,
                          !.context = "suspended", !.creation = c]
<1>1. /\ Good(s) /\ s.terminal # "none"
  BY GoodStops, Invalidate DEF Live
<1>2. Live => s.handle = NoHandle
  BY GoodStops, Invalidate DEF StoppedFrom
<1>3. ~Live => s = now
  OBVIOUS
<1>4. now' = closeBackend(s)
  BY DEF Close
<1> HIDE DEF s
<1>5. s \in States
  BY <1>1 DEF Good
<1>6. closeBackend(s) = t
  BY <1>5 DEF closeBackend, States
<1>7. /\ c \in {"none", "stale"} /\ c \in Creations /\ q \in Requests /\ q = <<>>
      /\ "closing" \in Backends /\ "none" \in Stretchers /\ "suspended" \in Contexts
  BY DEF Creations, Requests, Backends, Stretchers, Contexts
<1> HIDE DEF c, q
<1>8. t \in States
  BY <1>5, <1>7 DEF States
<1>9. /\ SameBuffer(s, t) /\ SamePause(s, t) /\ SameStory(s, t) /\ t.state = s.state
      /\ t.handle = s.handle /\ t.awaited = s.awaited /\ t.requests = q
      /\ t.preparation = s.preparation /\ t.creation = c
  BY <1>5 DEF States, SameBuffer, SamePause, SameStory
<1> HIDE DEF t
<1>10. Good(t) /\ Silently(s, t)
  BY <1>1, <1>7, <1>8, <1>9, StaysOver
<1>11. Silently(now, t)
  BY <1>2, <1>3, <1>9, <1>10, Gone
<1> QED BY <1>4, <1>6, <1>10, <1>11

\* The steps of the cleanup and of the backend concern nobody else.
LEMMA CleanupGood ==
    ASSUME Good(now), AwaitCleanup \/ CleanupTurn \/ CleanupIsDone \/ BackendCloses
    PROVE  Good(now') /\ Silently(now, now')
<1>1. now \in States
  BY DEF Good
<1>2. ASSUME NEW t \in States, SameBuffer(now, t) \/ (t.produced = now.produced /\ t.gone = now.gone
                                /\ t.discarded \in Nat /\ t.discarded <= now.discarded),
             SamePlay(now, t), SamePause(now, t), SamePreparation(now, t), SameStory(now, t),
             t.rate = now.rate, t.state = now.state
      PROVE  Good(t) /\ Silently(now, t)
  <2>1. now.discarded \in Nat
    BY <1>1 DEF States
  <2>2. Buffered(t) /\ Ended(t)
    BY <1>2, <2>1 DEF Good, Buffered, Ended, SameBuffer, SamePlay, SamePause, SamePreparation,
                SameStory
  <2>3. Plays(t) /\ Asks(t)
    BY <1>2 DEF Good, Plays, Asks, SameBuffer, SamePlay, SamePause, SameStory
  <2>4. Keeps(t) /\ HeldBack(t) /\ Prepares(t)
    BY <1>2 DEF Good, Keeps, Owed, HeldBack, Held, Prepares, Survives, SamePlay, SamePause,
                SamePreparation, SameStory
  <2>5. Told(t)
    BY <1>2 DEF Good, Told, SameBuffer, SamePlay, SameStory
  <2> QED BY <1>2, <2>2, <2>3, <2>4, <2>5, Stays DEF Good, SamePlay
<1>3. CASE AwaitCleanup \/ CleanupIsDone
  <2>1. PICK w \in Waiters : now' = [now EXCEPT !.waiter = w]
    BY <1>3 DEF AwaitCleanup, CleanupIsDone, Waiters
  <2>2. now' \in States
    BY <1>1, <2>1 DEF States
  <2>3. /\ SameBuffer(now, now') /\ SamePlay(now, now') /\ SamePause(now, now')
        /\ SamePreparation(now, now') /\ SameStory(now, now')
        /\ now'.rate = now.rate /\ now'.state = now.state
    BY <1>1, <2>1
       DEF States, SameBuffer, SamePlay, SamePause, SamePreparation, SameStory
  <2> QED BY <1>2, <2>2, <2>3
<1>4. CASE BackendCloses
  <2>1. now' = [now EXCEPT !.backend = "closed"] /\ "closed" \in Backends
    BY <1>4 DEF BackendCloses, Backends
  <2>2. now' \in States
    BY <1>1, <2>1 DEF States
  <2>3. /\ SameBuffer(now, now') /\ SamePlay(now, now') /\ SamePause(now, now')
        /\ SamePreparation(now, now') /\ SameStory(now, now')
        /\ now'.rate = now.rate /\ now'.state = now.state
    BY <1>1, <2>1
       DEF States, SameBuffer, SamePlay, SamePause, SamePreparation, SameStory
  <2> QED BY <1>2, <2>2, <2>3
<1>5. CASE CleanupTurn
  <2>1. PICK d \in Nat, b \in BOOLEAN :
          d <= now.discarded /\ now' = [now EXCEPT !.discarded = d, !.cleaning = b]
    <3> DEFINE left == now.discarded - PerTurn
    <3>1. now.discarded \in Nat /\ now.cleaning \in BOOLEAN
      BY <1>1 DEF States
    <3>2. left <= now.discarded /\ (left > 0 => left \in Nat)
      BY <3>1
    <3>3. CASE left > 0
      <4>1. now' = [now EXCEPT !.discarded = left]
        BY <1>5, <3>3 DEF CleanupTurn
      <4> HIDE DEF left
      <4>2. now' = [now EXCEPT !.discarded = left, !.cleaning = now.cleaning]
        BY <1>1, <4>1 DEF States
      <4> QED BY <3>1, <3>2, <3>3, <4>2
    <3>4. CASE ~(left > 0)
      <4>1. now' = [now EXCEPT !.discarded = 0, !.cleaning = FALSE]
        BY <1>5, <3>4 DEF CleanupTurn
      <4>2. 0 \in Nat /\ FALSE \in BOOLEAN /\ 0 <= now.discarded
        BY <3>1
      <4> QED BY <4>1, <4>2, Zenon
    <3> QED BY <3>3, <3>4
  <2>2. now' \in States /\ now'.discarded = d
    BY <1>1, <2>1 DEF States
  <2>3. /\ SamePlay(now, now') /\ SamePause(now, now')
        /\ SamePreparation(now, now') /\ SameStory(now, now')
        /\ now'.rate = now.rate /\ now'.state = now.state
        /\ now'.produced = now.produced /\ now'.gone = now.gone
    BY <1>1, <2>1
       DEF States, SamePlay, SamePause, SamePreparation, SameStory
  <2> QED BY <1>2, <2>1, <2>2, <2>3
<1> QED BY <1>3, <1>4, <1>5

-----------------------------------------------------------------------------
(* The device *)

\* The queue of the context without its first.
LEMMA Answered ==
    ASSUME NEW q \in Requests, q # <<>>
    PROVE  /\ Tail(q) \in Requests /\ Len(Tail(q)) = Len(q) - 1 /\ Len(q) \in Nat
           /\ Len(q) > 0
           /\ Len(q) = 1 => Head(q) = q[Len(q)]
           /\ Len(q) > 1 => Tail(q) # <<>> /\ Tail(q)[Len(Tail(q))] = q[Len(q)]
<1>1. q \in Seq({"suspend", "resume"}) /\ Len(q) \in Nat /\ Len(q) > 0
  BY DEF Requests
<1>2. /\ Tail(q) \in Seq({"suspend", "resume"}) /\ Len(Tail(q)) = Len(q) - 1
      /\ Head(q) = q[1]
      /\ \A i \in 1 .. Len(q) - 1 : Tail(q)[i] = q[i + 1]
  BY <1>1
<1>3. Len(q) > 1 => Tail(q) # <<>> /\ Tail(q)[Len(Tail(q))] = q[Len(q)]
  BY <1>1, <1>2
<1> QED BY <1>1, <1>2, <1>3 DEF Requests

\* An answer of the context: taken by the unit that awaits it, or nobody's.
LEMMA ContextAnswersGood ==
    ASSUME Good(now), ContextAnswers
    PROVE  Good(now') /\ Silently(now, now')
<1> DEFINE request == Head(now.requests)
           q == Tail(now.requests)
           mine == now.awaited /\ Len(now.requests) = 1
           w == now.awaited /\ ~mine
           x == IF request = "resume" THEN "running" ELSE "suspended"
           s == [now EXCEPT !.requests = q, !.awaited = w]
           e == [s EXCEPT !.context = x]
           y == TRUE
           o == "resumed"
           h == [now.handle EXCEPT !.armed = y, !.sound = o]
           a == [e EXCEPT !.handle = h]
<1>1. /\ now \in States /\ now.requests \in Requests /\ now.requests # <<>>
      /\ now.handle \in Handles /\ now.awaited \in BOOLEAN
  BY DEF ContextAnswers, Good, States
<1>2. /\ q \in Requests /\ w \in BOOLEAN /\ x \in Contexts /\ y \in BOOLEAN /\ y
      /\ mine \in BOOLEAN
  BY <1>1, Answered DEF Contexts
<1>3. \/ now' = IF mine /\ request = "resume" THEN a ELSE e
      \/ now' = IF mine THEN fail(s) ELSE s
  <2>1. \/ now' = IF mine /\ request = "resume"
                  THEN [e EXCEPT !.handle.armed = TRUE, !.handle.sound = "resumed"]
                  ELSE e
        \/ now' = IF mine THEN fail(s) ELSE s
    <3>1. [now EXCEPT !.requests = Tail(@), !.awaited = @ /\ ~mine] = s
      BY <1>1 DEF States
    <3> QED BY <3>1 DEF ContextAnswers
  <2>2. [e EXCEPT !.handle.armed = TRUE, !.handle.sound = "resumed"] = a
    <3> HIDE DEF q, w, x
    <3>1. e.handle = now.handle /\ e \in States
      BY <1>1, <1>2 DEF States
    <3> HIDE DEF e
    <3> QED BY <1>1, <3>1 DEF States, Handles
  <2> HIDE DEF s, e, a, request, mine
  <2> QED BY <2>1, <2>2
<1>4. /\ Len(q) = Len(now.requests) - 1 /\ Len(now.requests) \in Nat
      /\ Len(now.requests) > 0
      /\ mine => request = now.requests[Len(now.requests)]
      /\ w => now.awaited /\ q # <<>> /\ q[Len(q)] = now.requests[Len(now.requests)]
  <2> DEFINE r == now.requests
  <2>1. /\ Len(Tail(r)) = Len(r) - 1 /\ Len(r) \in Nat
        /\ Len(r) > 0
        /\ Len(r) = 1 => Head(r) = r[Len(r)]
        /\ Len(r) > 1 => Tail(r) # <<>> /\ Tail(r)[Len(Tail(r))] = r[Len(r)]
    BY <1>1, Answered
  <2> HIDE DEF r
  <2>3. mine => Len(r) = 1
    BY DEF r
  <2>4. w => now.awaited /\ Len(r) # 1
    BY DEF r
  <2> HIDE DEF w, mine
  <2>2. w => now.awaited /\ Len(r) > 1
    <3>1. ASSUME NEW n \in Nat, n > 0, n # 1 PROVE n > 1
      BY <3>1
    <3> QED BY <2>1, <2>4, <3>1
  <2> USE DEF r, q, request
  <2> QED BY <2>1, <2>2, <2>3
<1>5. mine => now.awaited
  OBVIOUS
<1> HIDE DEF q, w, x, request, mine
<1>6. s \in States /\ e \in States
  BY <1>1, <1>2 DEF States
<1>7. ASSUME NEW t \in {s, e}
      PROVE  Good(t) /\ t.handle = now.handle
  <2>1. t \in States /\ t.requests = q /\ t.awaited = w
    BY <1>1, <1>6, <1>7 DEF States
  <2>2. /\ SameBuffer(now, t) /\ SamePause(now, t) /\ SamePreparation(now, t)
        /\ SameStory(now, t) /\ t.state = now.state /\ t.rate = now.rate
        /\ t.handle = now.handle
    BY <1>1, <1>6, <1>7, ZenonT(60)
       DEF States, SameBuffer, SamePause, SamePreparation, SameStory
  <2> HIDE DEF s, e
  <2>3. Buffered(t) /\ Ended(t)
    BY <2>2 DEF Good, Buffered, Ended, SameBuffer, SamePause, SamePreparation, SameStory
  <2>4. Plays(t)
    BY <2>2 DEF Good, Plays, SameBuffer, SamePause
  <2>5. Asks(t)
    BY <1>4, <2>1, <2>2 DEF Good, Asks, SameStory
  <2>6. Keeps(t) /\ HeldBack(t) /\ Prepares(t)
    BY <2>2 DEF Good, Keeps, Owed, HeldBack, Held, Prepares, Survives, SamePause,
                SamePreparation, SameStory
  <2>7. Told(t)
    BY <2>2 DEF Good, Told, SameBuffer, SameStory
  <2> QED BY <2>1, <2>2, <2>3, <2>4, <2>5, <2>6, <2>7 DEF Good
<1>8. CASE now' = s \/ now' = e
  BY <1>7, <1>8, Stays
<1>9. CASE mine /\ now' = fail(s)
  <2> HIDE DEF s
  <2>1. Good(now') /\ now'.handle = NoHandle
    BY <1>7, <1>9, GoodStops, Invalidate DEF fail, StoppedFrom
  <2> QED BY <2>1, Gone
<1>10. CASE mine /\ request = "resume" /\ now' = a
  <2>1. /\ now.handle # NoHandle /\ now.state # "paused" /\ now.terminal = "none"
    BY <1>4, <1>5, <1>10 DEF Good, Asks, Ended
  <2>2. /\ h \in Handles /\ h.armed /\ h.sound = o /\ h.unit = now.handle.unit
        /\ h.rate = now.handle.rate /\ h.told = now.handle.told
    BY <1>1, <1>2 DEF Handles
  <2>3. h # NoHandle
    <3>1. NoHandle.sound = "no"
      BY DEF NoHandle
    <3> HIDE DEF h
    <3> QED BY <2>2, <3>1
  <2>4. e.requests = q /\ Good(e) /\ e.handle = now.handle
    BY <1>1, <1>6, <1>7 DEF States
  <2>5. e.state = now.state /\ e.terminal = now.terminal
    BY <1>1 DEF States
  <2> HIDE DEF h, e
  <2>6. a \in States /\ a.handle = h
    BY <1>6, <2>2 DEF States
  <2>7. /\ SameBuffer(e, a) /\ SamePause(e, a) /\ SamePreparation(e, a)
        /\ SameStory(e, a) /\ a.state = e.state /\ a.rate = e.rate
        /\ a.requests = e.requests /\ a.awaited = e.awaited
    BY <1>6 DEF States, SameBuffer, SamePause, SamePreparation, SameStory
  <2> HIDE DEF a
  <2>8. Buffered(a) /\ Ended(a)
    BY <2>1, <2>4, <2>5, <2>7 DEF Good, Buffered, Ended, SameBuffer, SamePause, SamePreparation, SameStory
  <2>9. Plays(a)
    BY <2>1, <2>2, <2>4, <2>5, <2>6, <2>7 DEF Good, Plays, SameBuffer, SamePause
  <2>10. Asks(a)
    <3>1. Len(q) = 0
      BY <1>4, <1>10 DEF mine
    <3>2. a.requests = q /\ (a.awaited => q # <<>>)
      BY <2>4, <2>7 DEF Good, Asks
    <3> QED BY <2>1, <2>3, <2>5, <2>6, <2>7, <3>1, <3>2 DEF Asks
  <2>11. Keeps(a) /\ HeldBack(a) /\ Prepares(a)
    BY <2>1, <2>4, <2>5, <2>7 DEF Good, Keeps, Owed, HeldBack, Prepares, Survives, SamePause,
                SamePreparation, SameStory
  <2>12. Told(a)
    BY <2>2, <2>4, <2>6, <2>7 DEF Good, Told, SameBuffer, SameStory
  <2> QED BY <1>10, <2>1, <2>6, <2>8, <2>9, <2>10, <2>11, <2>12, NotPaused DEF Good
<1> HIDE DEF s, e, a
<1> QED BY <1>3, <1>8, <1>9, <1>10

\* A frame is rendered.
LEMMA DeviceRendersGood ==
    ASSUME Good(now), DeviceRenders
    PROVE  Good(now') /\ Silently(now, now')
<1> DEFINE n == now.handle.played + 1
           e == (n = Frames)
           o == IF now.handle.sound = "resumed" THEN "rendering" ELSE now.handle.sound
           h == [now.handle EXCEPT !.played = n, !.ending = e, !.sound = o]
           t == [now EXCEPT !.handle = h]
<1>1. /\ now \in States /\ now.handle \in Handles /\ now.handle.armed
      /\ now.handle.played \in Nat /\ now.handle.played < Frames
  BY DEF DeviceRenders, Good, States, Handles
<1>2. now' = t
  BY <1>1 DEF DeviceRenders, States, Handles
<1>3. n \in 0 .. Frames /\ e \in BOOLEAN /\ o \in {"no", "resumed", "rendering"}
  BY <1>1 DEF Handles
<1>4. now.handle.sound = "no" => o = "no"
  OBVIOUS
<1> HIDE DEF n, e, o
<1>5. /\ h \in Handles /\ h.unit = now.handle.unit /\ h.rate = now.handle.rate
      /\ h.armed = now.handle.armed /\ h.told = now.handle.told /\ h.sound = o
  BY <1>1, <1>3 DEF Handles
<1> HIDE DEF h
<1>6. h # NoHandle /\ now.handle # NoHandle
  <2>1. ~NoHandle.armed
    BY DEF NoHandle
  <2> QED BY <1>1, <1>5, <2>1
<1>7. t \in States /\ t.handle = h
  BY <1>1, <1>5 DEF States
<1>8. /\ SameBuffer(now, t) /\ SamePause(now, t) /\ SamePreparation(now, t)
      /\ SameStory(now, t) /\ t.state = now.state /\ t.rate = now.rate
      /\ t.requests = now.requests /\ t.awaited = now.awaited
  BY <1>1 DEF States, SameBuffer, SamePause, SamePreparation, SameStory
<1> HIDE DEF t
<1>9. Buffered(t) /\ Ended(t)
  BY <1>6, <1>8 DEF Good, Buffered, Ended, SameBuffer, SamePause, SamePreparation, SameStory
<1>10. Plays(t)
  BY <1>1, <1>4, <1>5, <1>6, <1>7, <1>8 DEF Good, Plays, SameBuffer, SamePause
<1>11. Asks(t)
  BY <1>5, <1>6, <1>7, <1>8 DEF Good, Asks, SameStory
<1>12. Keeps(t) /\ HeldBack(t) /\ Prepares(t)
  BY <1>6, <1>7, <1>8 DEF Good, Keeps, Owed, HeldBack, Held, Prepares, Survives, SamePause,
              SamePreparation, SameStory
<1>13. Told(t)
  BY <1>5, <1>7, <1>8 DEF Good, Told, SameBuffer, SameStory
<1>14. Silently(now, t)
  BY <1>4, <1>5, <1>7 DEF Good, Plays, Silently
<1> QED BY <1>2, <1>7, <1>9, <1>10, <1>11, <1>12, <1>13, <1>14 DEF Good

\* A tick of a silence
LEMMA TimePassesGood ==
    ASSUME Good(now), TimePasses
    PROVE  Good(now') /\ Silently(now, now')
<1> DEFINE p == [now.pause EXCEPT !.elapsed = @ + 1]
           t == Resting(now, p, now.silence, now.pauses, now.held, now.state)
<1>1. /\ now \in States /\ now.pause \in Silences /\ now.silence \in Nat /\ now.pauses \in Nat
      /\ now.held \in BOOLEAN /\ now.state \in Goings
  BY DEF Good, States
<1>2. /\ now.pause.running /\ now.pause.elapsed \in Nat /\ now.pause.left \in 0 .. PauseTicks
      /\ now.pause.elapsed < now.pause.left
  BY <1>1 DEF TimePasses, Silences
<1>3. now' = t
  BY <1>1 DEF TimePasses, Resting, States, Silences
<1>4. /\ p \in Silences /\ p.left = now.pause.left /\ p.elapsed = now.pause.elapsed + 1
  BY <1>1, <1>2 DEF Silences
<1> HIDE DEF p
<1>5. NoPause.left = 0 /\ ~NoPause.running
  BY DEF NoPause
<1>6. now.pause # NoPause /\ p # NoPause
  BY <1>2, <1>4, <1>5
<1>7. now.handle = NoHandle /\ now.terminal = "none" /\ now.state # "paused"
  BY <1>2, <1>6 DEF Good, Plays, Ended, Keeps
<1>8. /\ t \in States /\ SameButPause(now, t)
      /\ t.pause = p /\ t.silence = now.silence /\ t.pauses = now.pauses
      /\ t.held = now.held /\ t.state = now.state
  BY <1>1, <1>4, Rests
<1> HIDE DEF t
<1>9. Keeps(t)
  <2>1. t.silence + t.pause.left = PauseTicks * Owed(t)
    BY <1>4, <1>6, <1>7, <1>8 DEF Good, Keeps, Owed
  <2> QED BY <1>2, <1>4, <1>7, <1>8, <2>1 DEF Keeps
<1>10. HeldBack(t)
  BY <1>7, <1>8 DEF HeldBack
<1>11. Good(t)
  BY <1>7, <1>8, <1>9, <1>10, SilenceGood
<1> QED BY <1>3, <1>7, <1>11, NotPaused

\* The timer of a silence, in time or early.
LEMMA PauseTimerFiresGood ==
    ASSUME Good(now), PauseTimerFires
    PROVE  Good(now') /\ Silently(now, now')
<1>1. /\ now \in States /\ now.pause \in Silences /\ now.silence \in Nat /\ now.pauses \in Nat
      /\ now.held \in BOOLEAN /\ now.state \in Goings
  BY DEF Good, States
<1>2. /\ now.pause.running /\ now.pause.elapsed > 0 /\ now.pause.elapsed \in 0 .. PauseTicks
      /\ now.pause.left \in 0 .. PauseTicks /\ now.creation # "refused"
  BY <1>1 DEF PauseTimerFires, Silences, Quiet
<1>3. NoPause.left = 0 /\ ~NoPause.running
  BY DEF NoPause
<1>4. now.pause # NoPause
  BY <1>2, <1>3
<1>5. /\ now.handle = NoHandle /\ now.terminal = "none" /\ now.state # "paused"
      /\ now.pause.elapsed <= now.pause.left
  BY <1>2, <1>4 DEF Good, Plays, Ended, Keeps
<1>6. Silently(now, now')
  BY <1>5, NotPaused
<1>7. CASE now.pause.elapsed = now.pause.left
  <2> DEFINE e == endPause(now)
  <2>1. PICK ready \in BOOLEAN : now' = synchronize(e, ready)
    BY <1>7 DEF PauseTimerFires
  <2>2. Good(e) /\ SameButPause(now, e)
    BY <1>1, <1>4, <1>5, <1>7, PauseEnds, EndPause
  <2> HIDE DEF e
  <2>3. Unrefused(e)
    BY <1>2, <2>2 DEF Unrefused, SameButPause, SamePreparation
  <2> QED BY <1>6, <2>1, <2>2, <2>3, SynchronizeGood
<1>8. CASE now.pause.elapsed # now.pause.left
  <2> DEFINE l == now.pause.left - now.pause.elapsed
             n == now.silence + now.pause.elapsed
             p == [now.pause EXCEPT !.left = l, !.elapsed = 0]
             t == Resting(now, p, n, now.pauses, now.held, now.state)
  <2>1. now' = t
    <3>1. now' = [now EXCEPT !.silence = @ + now.pause.elapsed,
                             !.pause.left = @ - now.pause.elapsed,
                             !.pause.elapsed = 0]
      BY <1>8 DEF PauseTimerFires
    <3> QED BY <1>1, <3>1 DEF Resting, States, Silences
  <2>2. l \in 0 .. PauseTicks /\ l > 0 /\ n \in Nat /\ n + l = now.silence + now.pause.left
    BY <1>1, <1>2, <1>5, <1>8
  <2> HIDE DEF l, n
  <2>3. p \in Silences /\ p.left = l /\ p.elapsed = 0
    <3>1. 0 \in 0 .. PauseTicks
      OBVIOUS
    <3> QED BY <1>1, <2>2, <3>1 DEF Silences
  <2> HIDE DEF p
  <2>4. p # NoPause
    BY <1>3, <2>2, <2>3
  <2>5. /\ t \in States /\ SameButPause(now, t)
        /\ t.pause = p /\ t.silence = n /\ t.pauses = now.pauses
        /\ t.held = now.held /\ t.state = now.state
    BY <1>1, <2>2, <2>3, Rests, SMTT(60)
  <2> HIDE DEF t
  <2>6. Keeps(t)
    <3>1. now.silence + now.pause.left = PauseTicks * (now.pauses + 1)
      BY <1>4, <1>5 DEF Good, Keeps, Owed
    <3>2. Owed(t) = now.pauses + 1
      BY <2>4, <2>5 DEF Owed
    <3>3. t.silence + t.pause.left = PauseTicks * Owed(t)
      BY <2>2, <2>3, <2>5, <3>1, <3>2
    <3> QED BY <1>5, <2>2, <2>3, <2>5, <3>3 DEF Keeps
  <2>7. HeldBack(t)
    BY <1>5, <2>5 DEF HeldBack
  <2>8. Good(t)
    BY <1>5, <2>5, <2>6, <2>7, SilenceGood
  <2> QED BY <1>6, <2>1, <2>8
<1> QED BY <1>7, <1>8


\* A rate prepared for nobody is given back.
LEMMA SettlesPreparation ==
    ASSUME NEW s, Good(s)
    PROVE  LET t == settlePreparation(s) IN
           Good(t) /\ t.handle = s.handle
<1>1. /\ Good(release(s)) /\ release(s).handle = s.handle
  BY Release DEF PreparationOnly, SameUnit, SamePlay
<1> QED BY <1>1 DEF settlePreparation

\* Whatever was prepared is settled.
LEMMA OverIsGood ==
    ASSUME NEW s, Good(s), NEW z \in Stretchers
    PROVE  LET t == [Over(s) EXCEPT !.stretcher = z] IN
           Good(t) /\ PreparationOnly(s, t)
<1> DEFINE t == Writing(s, "none", s.future, z, "none")
<1>1. s \in States /\ "none" \in Preparations /\ "none" \in Creations
      /\ s.future \in BOOLEAN
  BY DEF Good, States, Preparations, Creations
<1>2. [Over(s) EXCEPT !.stretcher = z] = t
  BY <1>1 DEF Over, Writing, States
<1>3. /\ t \in States /\ PreparationOnly(s, t)
      /\ t.preparation = "none" /\ t.creation = "none"
  BY <1>1, Writes
<1> HIDE DEF t
<1>4. Prepares(t)
  BY <1>3 DEF Prepares, Survives
<1> QED BY <1>2, <1>3, <1>4, PreparationOnlyGood

\* Over leaves the stretcher.
LEMMA OverKeepsStretcher ==
    ASSUME NEW s \in States
    PROVE  Over(s) = [Over(s) EXCEPT !.stretcher = s.stretcher]
BY DEF Over, States

\* A stretcher is there.
LEMMA StretcherReadyGood ==
    ASSUME Good(now), StretcherReady
    PROVE  Good(now') /\ Silently(now, now')
<1>1. PICK z \in Stretchers :
        now' = settlePreparation([Over(now) EXCEPT !.stretcher = z])
  <2>1. now \in States /\ now.stretcher \in Stretchers /\ "ready" \in Stretchers
    BY DEF Good, States, Stretchers
  <2>2. Over(now) = [Over(now) EXCEPT !.stretcher = now.stretcher]
    BY <2>1, OverKeepsStretcher
  <2> QED BY <2>1, <2>2 DEF StretcherReady
<1> DEFINE t == [Over(now) EXCEPT !.stretcher = z]
<1>2. Good(t) /\ PreparationOnly(now, t)
  BY OverIsGood
<1>3. now' = settlePreparation(t)
  BY <1>1
<1> HIDE DEF t
<1>4. Good(now') /\ now'.handle = t.handle
  BY <1>2, <1>3, SettlesPreparation
<1> QED BY <1>2, <1>4, Stays DEF PreparationOnly, SameUnit, SamePlay

\* A creation given up is over.
LEMMA StaleCreationSettlesGood ==
    ASSUME Good(now), StaleCreationSettles
    PROVE  Good(now') /\ Silently(now, now')
<1> DEFINE c == IF now.preparation = "none" THEN "none" ELSE "owned"
           t == Writing(now, now.preparation, now.future, now.stretcher, c)
<1>1. /\ now \in States /\ c \in Creations /\ now.preparation \in Preparations
      /\ now.future \in BOOLEAN /\ now.stretcher \in Stretchers
      /\ now.creation = "stale"
  BY DEF Good, States, Creations, StaleCreationSettles
<1>2. now' = t
  BY <1>1 DEF StaleCreationSettles, Rejoin, Writing, States
<1>3. now.preparation # "none" <=> c # "none"
  OBVIOUS
<1> HIDE DEF c
<1>4. /\ t \in States /\ PreparationOnly(now, t)
      /\ t.preparation = now.preparation /\ t.creation = c
  BY <1>1, Writes
<1> HIDE DEF t
<1>5. Prepares(t)
  <2>1. Survives(now)
    BY DEF Good, Prepares
  <2> QED BY <1>1, <1>3, <1>4, <2>1 DEF Good, Prepares, Survives, PreparationOnly
<1>6. now.terminal # "none" => t.preparation = "none"
  BY <1>4 DEF Good, Ended
<1>7. Good(t)
  BY <1>4, <1>5, <1>6, PreparationOnlyGood
<1> QED BY <1>2, <1>4, <1>7, Stays DEF PreparationOnly, SameUnit, SamePlay

\* A preparation fails, for later units or for the one that waits.
LEMMA PreparationFailsGood ==
    ASSUME Good(now), PreparationFails
    PROVE  Good(now') /\ Silently(now, now')
<1> DEFINE t == Over(now)
<1>1. now \in States /\ now.stretcher \in Stretchers
  BY DEF Good, States
<1>2. Good(t) /\ PreparationOnly(now, t)
  BY <1>1, OverIsGood, OverKeepsStretcher
<1>3. (\E ready \in BOOLEAN : now' = fallback(t, ready)) \/ now' = fail(t)
  BY DEF PreparationFails
<1> HIDE DEF t
<1>4. CASE \E ready \in BOOLEAN : now' = fallback(t, ready)
  <2>1. PICK ready \in BOOLEAN : now' = fallback(t, ready)
    BY <1>4
  <2>2. Good(now') /\ SameUnit(t, now')
    BY <1>2, <2>1, Fallback
  <2> QED BY <1>2, <2>2, Stays DEF PreparationOnly, SameUnit, SamePlay
<1>5. CASE now' = fail(t)
  <2>1. Good(now') /\ now'.handle = NoHandle
    BY <1>2, <1>5, GoodStops, Invalidate DEF fail, StoppedFrom
  <2> QED BY <2>1, Gone
<1> QED BY <1>3, <1>4, <1>5

\* The audio thread drops the stretcher.
LEMMA ProcessorFailsGood ==
    ASSUME Good(now), ProcessorFails
    PROVE  Good(now') /\ Silently(now, now')
<1> DEFINE s == Writing(now, now.preparation, now.future, "failed", now.creation)
           f == [s EXCEPT !.handle = NoHandle]
<1>1. /\ now \in States /\ now.preparation \in Preparations /\ now.future \in BOOLEAN
      /\ now.creation \in Creations /\ "failed" \in Stretchers
  BY DEF Good, States, Stretchers
<1>2. [now EXCEPT !.stretcher = "failed"] = s
  BY <1>1 DEF Writing, States
<1>3. now' = IF now.handle.rate \in {NoRate, DefaultRate} THEN s ELSE fail(f)
  BY <1>2 DEF ProcessorFails
<1>4. /\ s \in States /\ PreparationOnly(now, s)
      /\ s.preparation = now.preparation /\ s.creation = now.creation
  BY <1>1, Writes
<1> HIDE DEF s
<1>5. Good(s)
  <2>1. Prepares(s)
    BY <1>4 DEF Good, Prepares, Survives, PreparationOnly
  <2>2. now.terminal # "none" => s.preparation = "none"
    BY <1>4 DEF Good, Ended
  <2> QED BY <1>4, <2>1, <2>2, PreparationOnlyGood
<1>6. CASE now' = s
  BY <1>4, <1>5, <1>6, Stays DEF PreparationOnly, SameUnit, SamePlay
<1>7. CASE now' = fail(f)
  <2>1. /\ f \in States /\ f.produced = s.produced /\ f.gone = s.gone
        /\ f.requests = s.requests /\ f.heard = s.heard
    BY <1>4, NothingTyped DEF States
  <2> HIDE DEF f
  <2>2. Stoppable(f)
    BY <1>5, <2>1, GoodStops DEF Stoppable
  <2>3. Good(now') /\ now'.handle = NoHandle
    BY <1>7, <2>2, Invalidate DEF fail, StoppedFrom
  <2> QED BY <2>3, Gone
<1> QED BY <1>3, <1>6, <1>7


-----------------------------------------------------------------------------
(* The end of a unit *)

\* What the listeners are told of the end, and of the start if it was not yet.
LEMMA Completes ==
    ASSUME Good(now), now.handle.ending
    PROVE  LET started == confirm(now, TRUE)
               t == publish(started, "completed")
           IN /\ Good(started) /\ started.handle # NoHandle
              /\ t \in States /\ SameBuffer(now, t) /\ SamePause(now, t)
              /\ SamePreparation(now, t) /\ t.rate = now.rate /\ t.state = now.state
              /\ t.handle = started.handle /\ t.requests = now.requests
              /\ t.terminal = "none" /\ now.terminal = "none"
              /\ now.pause = NoPause /\ now.gone < now.produced
              /\ Len(t.requests) <= MaxRequests
              /\ Len(t.heard) = 2 * now.gone + 2
              /\ \A i \in 1 .. Len(t.heard) : t.heard[i] = Event(i)
              /\ t.handle.unit = now.handle.unit
<1> DEFINE y == TRUE
           c == confirm(now, y)
           g == Append(c.heard, <<"completed", c.handle.unit>>)
           t == [c EXCEPT !.heard = g]
<1>1. now \in States /\ now.handle # NoHandle /\ now.handle.armed
  <2>1. ~NoHandle.ending
    BY DEF NoHandle
  <2> QED BY <2>1 DEF Good, Plays
<1>2. /\ Good(c) /\ c.rate = now.rate /\ c.state = now.state
      /\ SameBuffer(now, c) /\ SamePause(now, c) /\ SamePreparation(now, c)
      /\ c.terminal = now.terminal
      /\ c.handle = now.handle \/ c.handle # NoHandle
      /\ c.handle.unit = now.handle.unit
      /\ c.requests = now.requests
      /\ c.handle.told
  BY <1>1, Confirm
<1>3. publish(c, "completed") = t
  <2> HIDE DEF c
  <2>1. c \in States
    BY <1>2 DEF Good
  <2> QED BY <2>1 DEF publish, States
<1>4. /\ now.terminal = "none" /\ now.pause = NoPause /\ now.gone < now.produced
      /\ Len(now.requests) <= MaxRequests
  BY <1>1 DEF Good, Ended, Plays, Asks
<1> HIDE DEF c
<1>5. /\ c \in States /\ c.handle # NoHandle /\ c.terminal = "none"
      /\ c.gone = now.gone
  BY <1>1, <1>2, <1>4 DEF Good, SameBuffer
<1>6. c.gone \in Nat /\ c.handle.unit = c.gone + 1 /\ Len(c.heard) = 2 * c.gone + 1
  BY <1>2, <1>5 DEF Good, Plays, Told, States
<1>7. /\ g \in Stories /\ Len(g) = Len(c.heard) + 1
      /\ \A i \in 1 .. Len(g) : g[i] = Event(i)
  <2>1. <<"completed", c.handle.unit>> = Event(Len(c.heard) + 1)
    <3>1. Event(2 * c.gone + 2) = <<"completed", c.gone + 1>>
      BY <1>6, Events
    <3>2. 2 * c.gone + 1 + 1 = 2 * c.gone + 2
      BY <1>6
    <3> QED BY <1>6, <3>1, <3>2
  <2>2. c.heard \in Stories /\ "completed" \in Kinds /\ c.handle.unit \in Nat
    BY <1>5, <1>6 DEF States, Kinds
  <2>3. \A i \in 1 .. Len(c.heard) : c.heard[i] = Event(i)
    BY <1>2 DEF Good, Told
  <2> QED BY <2>1, <2>2, <2>3, OneMoreEvent, SMTT(60)
<1> HIDE DEF g
<1>8. t \in States /\ t.heard = g
  BY <1>5, <1>7 DEF States
<1>9. /\ SameBuffer(c, t) /\ SamePause(c, t) /\ SamePreparation(c, t)
      /\ t.rate = c.rate /\ t.state = c.state /\ t.handle = c.handle
      /\ t.requests = c.requests /\ t.terminal = c.terminal
  BY <1>5 DEF States, SameBuffer, SamePause, SamePreparation
<1> HIDE DEF t
<1>10. SameBuffer(now, t) /\ SamePause(now, t) /\ SamePreparation(now, t)
  BY <1>2, <1>9 DEF SameBuffer, SamePause, SamePreparation
<1>11. /\ Len(t.heard) = 2 * now.gone + 2
       /\ \A i \in 1 .. Len(t.heard) : t.heard[i] = Event(i)
  <2>1. Len(g) = 2 * now.gone + 2
    BY <1>5, <1>6, <1>7
  <2> QED BY <1>7, <1>8, <2>1
<1> QED BY <1>2, <1>3, <1>4, <1>5, <1>8, <1>9, <1>10, <1>11 DEF c

\* A listener told of a unit stops the player in the middle of the event.
LEMMA StopsInTheEvent ==
    ASSUME NEW s, s \in States, s.gone <= s.produced, s.produced <= Units,
           Len(s.requests) <= MaxRequests + 1, Len(s.heard) <= 2 * Units,
           \A i \in 1 .. Len(s.heard) : s.heard[i] = Event(i)
    PROVE  LET t == invalidate([s EXCEPT !.handle = NoHandle], "stopped") IN
           Good(t) /\ t.handle = NoHandle
<1> DEFINE f == [s EXCEPT !.handle = NoHandle]
           t == invalidate(f, "stopped")
<1>1. /\ f \in States /\ f.produced = s.produced /\ f.gone = s.gone
      /\ f.requests = s.requests /\ f.heard = s.heard
  BY NothingTyped DEF States
<1> HIDE DEF f
<1>2. Stoppable(f)
  BY <1>1 DEF Stoppable
<1>3. Good(t) /\ t.handle = NoHandle
  BY <1>2, Invalidate DEF StoppedFrom
<1> QED BY <1>3 DEF f

\* The unit leaves the buffer and the device.
LEMMA UnitLeaves ==
    ASSUME Good(now), now.handle.ending, NEW ready \in BOOLEAN
    PROVE  LET s == publish(confirm(now, TRUE), "completed")
               t == [account(s, Frames, ready) EXCEPT
                       !.handle = NoHandle, !.awaited = FALSE, !.held = Holding(s)]
           IN /\ Good(t) /\ t.handle = NoHandle /\ t.pause = NoPause
              /\ t.terminal = "none" /\ t.creation = now.creation
              /\ t.state = "paused" <=> now.state = "paused"
<1> DEFINE s == publish(confirm(now, TRUE), "completed")
           m == s.gone + 1
           z == 0
           c == [s EXCEPT !.gone = m, !.accounted = z]
           r == refresh(c, ready)
           b == FALSE
           h == Holding(s)
           n == NoHandle
           t == [r EXCEPT !.handle = n, !.awaited = b, !.held = h]
<1>1. /\ s \in States /\ SameBuffer(now, s) /\ SamePause(now, s)
      /\ SamePreparation(now, s) /\ s.rate = now.rate /\ s.state = now.state
      /\ s.requests = now.requests
      /\ s.terminal = "none" /\ now.terminal = "none"
      /\ now.pause = NoPause /\ now.gone < now.produced
      /\ Len(s.requests) <= MaxRequests
      /\ Len(s.heard) = 2 * now.gone + 2
      /\ \A i \in 1 .. Len(s.heard) : s.heard[i] = Event(i)
  BY Completes
<1> HIDE DEF s
<1>2. account(s, Frames, ready) = r
  BY <1>1 DEF account, States
<1>3. /\ now.gone \in Nat /\ now.produced \in Nat /\ s.gone = now.gone /\ m = now.gone + 1
      /\ m \in Nat /\ z \in Accounts /\ h \in BOOLEAN /\ b \in BOOLEAN /\ ~b
      /\ (s.state = "paused" => h)
  <2>1. now \in States
    BY DEF Good
  <2>2. now.gone \in Nat /\ now.produced \in Nat /\ s.gone = now.gone
    BY <1>1, <2>1 DEF States, SameBuffer
  <2>3. h \in BOOLEAN /\ (s.state = "paused" => h)
    BY <1>1 DEF Holding, States
  <2>4. z \in Accounts
    BY DEF Accounts
  <2> QED BY <2>2, <2>3, <2>4
<1> HIDE DEF m, z
<1>4. c \in States /\ c.gone = m
  BY <1>1, <1>3 DEF States
<1>5. /\ c.produced = s.produced /\ c.discarded = s.discarded /\ SamePlay(s, c)
      /\ SamePause(s, c) /\ SamePreparation(s, c) /\ SameStory(s, c)
      /\ c.rate = s.rate /\ c.state = s.state
  BY <1>1 DEF States, SamePlay, SamePause, SamePreparation, SameStory
<1> HIDE DEF c, h, b
<1>6. /\ r \in States /\ SameUnit(c, r) /\ SamePreparation(c, r)
      /\ r.rate = c.rate
      /\ c.state \notin {"stopped", "paused"} /\ r.state = "playing" =>
           r.gone < r.produced
  BY <1>4, Refresh
<1> HIDE DEF r
<1> HIDE DEF n
<1>7. n = NoHandle /\ n \in Handles /\ n.sound = "no" /\ ~n.told /\ ~n.ending /\ ~n.armed
  BY NothingTyped DEF n, NoHandle
<1>8. t \in States /\ t.handle = n /\ t.awaited = b /\ t.held = h
  BY <1>3, <1>6, <1>7 DEF States
<1>9. /\ SameBuffer(r, t) /\ SamePreparation(r, t) /\ SameStory(r, t)
      /\ t.rate = r.rate /\ t.state = r.state /\ t.requests = r.requests
      /\ t.pause = r.pause /\ t.silence = r.silence /\ t.pauses = r.pauses
  BY <1>6 DEF States, SameBuffer, SamePreparation, SameStory
<1> HIDE DEF t
<1>10. now.state # "stopped"
  BY <1>1 DEF Good, Ended
<1>11. /\ t.produced = now.produced /\ t.gone = now.gone + 1
       /\ t.discarded = now.discarded
       /\ t.terminal = "none" /\ t.heard = s.heard /\ t.requests = s.requests
       /\ t.pause = NoPause /\ t.silence = now.silence /\ t.pauses = now.pauses
       /\ t.rate = now.rate /\ SamePreparation(now, t)
  BY <1>1, <1>3, <1>4, <1>5, <1>6, <1>9
     DEF SameUnit, SameBuffer, SamePlay, SamePause, SamePreparation, SameStory
<1>12. /\ t.state = "paused" <=> now.state = "paused"
       /\ t.state # "stopped"
       /\ t.state = "playing" => t.gone < t.produced
  BY <1>1, <1>5, <1>6, <1>9, <1>10 DEF SameUnit, SameGoing, SameBuffer
<1>13. Buffered(t) /\ Ended(t)
  BY <1>3, <1>1, <1>11, <1>12 DEF Good, Buffered, Ended
<1>14. Plays(t)
  BY <1>7, <1>8 DEF Plays
<1>15. Asks(t)
  <2>1. Len(t.requests) <= MaxRequests /\ Len(t.requests) \in Nat
    BY <1>1, <1>11 DEF States, Requests
  <2> QED BY <1>3, <1>8, <2>1 DEF Asks
<1>16. Keeps(t)
  <2>1. ~NoPause.running
    BY DEF NoPause
  <2> QED BY <1>1, <1>11, <2>1 DEF Good, Keeps, Owed
<1>17. Prepares(t)
  BY <1>11 DEF Good, Prepares, Survives, SamePreparation
<1>18. HeldBack(t)
  BY <1>1, <1>3, <1>8, <1>12 DEF HeldBack, Held
<1>19. Told(t)
  <2>1. Len(t.heard) = 2 * t.gone
    BY <1>1, <1>3, <1>11
  <2>2. Len(t.heard) <= 2 * Units
    BY <1>1, <1>3, <1>11, <2>1 DEF Good, Buffered
  <2>3. \A i \in 1 .. Len(t.heard) : t.heard[i] = Event(i)
    BY <1>1, <1>11
  <2>4. ~t.handle.told
    BY <1>7, <1>8
  <2>5. t.gone \in Nat
    BY <1>8 DEF States
  <2> QED BY <2>1, <2>2, <2>3, <2>4, <2>5 DEF Told
<1>20. Good(t)
  BY <1>8, <1>13, <1>14, <1>15, <1>16, <1>17, <1>18, <1>19 DEF Good
<1> QED BY <1>2, <1>7, <1>8, <1>11, <1>12, <1>20 DEF t, s, h, b, n, SamePreparation

\* What the end of a unit leaves to be done.
LEMMA SettleEndedGood ==
    ASSUME Good(now), now.handle.ending, now.creation # "refused", NEW ready \in BOOLEAN
    PROVE  LET t == settleEnded(publish(confirm(now, TRUE), "completed"), ready) IN
           Good(t) /\ Silently(now, t)
<1> DEFINE s == publish(confirm(now, TRUE), "completed")
           done == [account(s, Frames, ready) EXCEPT
                      !.handle = NoHandle, !.awaited = FALSE, !.held = Holding(s)]
           rated == IF done.rate.selected = DefaultRate
                       /\ done.rate.active # DefaultRate
                    THEN release(done) ELSE done
           silent == IF rated.state \in {"playing", "paused"} /\ Waiting(rated)
                        /\ s.handle.unit \in Transitions
                     THEN beginPause(rated) ELSE rated
           t == synchronize(silent, ready)
<1>1. settleEnded(s, ready) = t
  BY DEF settleEnded
<1>2. /\ Good(done) /\ done.handle = NoHandle /\ done.pause = NoPause
      /\ done.terminal = "none" /\ done.creation # "refused"
      /\ done.state = "paused" <=> now.state = "paused"
  BY UnitLeaves
<1> HIDE DEF s, done
<1>3. /\ Good(rated) /\ rated.handle = NoHandle /\ rated.pause = NoPause
      /\ rated.terminal = "none" /\ rated.creation # "refused"
      /\ rated.state = "paused" <=> now.state = "paused"
  <2>1. /\ Good(release(done)) /\ PreparationOnly(done, release(done))
        /\ release(done).creation \in {"none", "stale"}
    BY <1>2, Release
  <2> QED BY <1>2, <2>1 DEF PreparationOnly, SameUnit, SamePlay, SamePause, SameStory
<1> HIDE DEF rated
<1>4. /\ Good(silent) /\ silent.handle = NoHandle
      /\ silent.creation # "refused"
      /\ silent.state = "paused" <=> now.state = "paused"
  BY <1>3, BeginPause DEF SameButPause, SamePlay, SamePreparation
<1> HIDE DEF silent
<1>5. /\ Good(t)
      /\ silent.state = "paused" => t.handle = silent.handle
      /\ t.state = "paused" => silent.state = "paused"
  BY <1>4, SynchronizeGood DEF Unrefused
<1> HIDE DEF t
<1>6. Silently(now, t)
  BY <1>4, <1>5, Gone, NotPaused
<1> QED BY <1>1, <1>5, <1>6 DEF s

\* #handleEnded
LEMMA UnitEndsGood ==
    ASSUME Good(now), UnitEnds
    PROVE  Good(now') /\ Silently(now, now')
<1> DEFINE started == confirm(now, TRUE)
           completed == publish(started, "completed")
           over(t) == invalidate([t EXCEPT !.handle = NoHandle], "stopped")
<1>1. PICK stop \in {"no", "started", "completed"}, ready \in BOOLEAN :
        now' = handleEnded(now, stop, ready)
  BY DEF UnitEnds
<1>2. now.handle.ending /\ now.creation # "refused"
  BY DEF UnitEnds, Quiet
<1>3. \/ now' = over(started) \/ now' = over(completed)
      \/ now' = settleEnded(completed, ready)
  BY <1>1 DEF handleEnded
<1>4. /\ Good(started)
      /\ completed \in States /\ SameBuffer(now, completed)
      /\ completed.requests = now.requests
      /\ now.gone < now.produced
      /\ Len(completed.requests) <= MaxRequests
      /\ Len(completed.heard) = 2 * now.gone + 2
      /\ \A i \in 1 .. Len(completed.heard) : completed.heard[i] = Event(i)
  BY <1>2, Completes
<1>5. Good(settleEnded(completed, ready)) /\ Silently(now, settleEnded(completed, ready))
  BY <1>2, SettleEndedGood
<1> HIDE DEF started, completed
<1>6. CASE now' = over(started)
  <2>1. Stoppable(started)
    BY <1>4, GoodStops
  <2>2. Good(now') /\ now'.handle = NoHandle
    BY <1>6, <2>1, StopsInTheEvent DEF Stoppable
  <2> QED BY <2>2, Gone
<1>7. CASE now' = over(completed)
  <2>1. /\ now.gone \in Nat /\ now.produced \in Nat /\ now.produced <= Units
        /\ completed.gone = now.gone /\ completed.produced = now.produced
    BY <1>4 DEF Good, Buffered, States, SameBuffer
  <2>2. Len(completed.requests) \in Nat
    BY <1>4 DEF States, Requests
  <2>3. /\ completed.gone <= completed.produced /\ completed.produced <= Units
        /\ Len(completed.requests) <= MaxRequests + 1 /\ Len(completed.heard) <= 2 * Units
    BY <1>4, <2>1, <2>2
  <2>4. Good(now') /\ now'.handle = NoHandle
    BY <1>4, <1>7, <2>3, StopsInTheEvent
  <2> QED BY <2>4, Gone
<1> QED BY <1>3, <1>5, <1>6, <1>7


-----------------------------------------------------------------------------
(* The theorems *)

\* Every step of the player, its device and its listener
LEMMA GoodStep == Good(now) /\ [PlayerNext]_now => Good(now') /\ Silently(now, now')
<1> SUFFICES ASSUME Good(now), [PlayerNext]_now
             PROVE  Good(now') /\ Silently(now, now')
  OBVIOUS
<1>1. CASE now' = now
  BY <1>1, Stays
<1>2. CASE Device
  BY <1>2, ContextAnswersGood, DeviceRendersGood, UnitEndsGood, TimePassesGood,
     PauseTimerFiresGood, StretcherReadyGood, StaleCreationSettlesGood,
     PreparationFailsGood, ProcessorFailsGood, CleanupGood
     DEF Device
<1>3. CASE Run
  BY <1>3, UnitArrivesGood, SynchronizeIsGood, CleanupGood DEF Run
<1>4. CASE Listener
  BY <1>4, PauseGood, ResumeGood, SelectRateGood, StopGood, CloseGood, CleanupGood
     DEF Listener
<1> QED BY <1>1, <1>2, <1>3, <1>4 DEF PlayerNext

AlwaysGood == Good(now)
StaysSilent == Silently(now, now')

\* The inductive invariant
LEMMA GoodAlways == PlayerSpec => []AlwaysGood
<1>1. PlayerInit => AlwaysGood
  BY InitGood DEF AlwaysGood
<1>2. AlwaysGood /\ [PlayerNext]_now => AlwaysGood'
  BY GoodStep DEF AlwaysGood
<1> QED BY <1>1, <1>2, PTL DEF PlayerSpec

\* A good state has its shape.
LEMMA GoodTyped == AlwaysGood => PlayerTypeOK
<1> SUFFICES ASSUME Good(now) PROVE PlayerTypeOK
  BY DEF AlwaysGood
<1>1. now \in States
  BY DEF Good
<1>2. /\ now.produced \in 0 .. Units /\ now.gone \in 0 .. now.produced
      /\ now.discarded \in 0 .. Units
  BY <1>1 DEF Good, Buffered, States
<1>3. /\ now.accounted \in 0 .. Frames - 1 /\ now.state \in Goings
      /\ now.rate \in Rated /\ now.terminal \in Terminals
      /\ now.pause \in Silences /\ now.preparation \in Preparations
      /\ now.stretcher \in Stretchers
  BY <1>1 DEF States, Accounts
<1>4. now.handle \in {NoHandle} \cup
         [unit : {now.gone + 1}, rate : {now.rate.active}, armed : BOOLEAN,
          sound : {"no", "resumed", "rendering"}, played : 0 .. Frames,
          ending : BOOLEAN, told : BOOLEAN]
  <2> DEFINE h == now.handle
             n == now.gone + 1
             r == now.rate.active
  <2>1. h \in Handles
    BY <1>1 DEF States
  <2>2. h = NoHandle \/ (h.unit = n /\ h.rate = r)
    BY DEF Good, Plays
  <2> HIDE DEF h, n, r
  <2>3. h \in {NoHandle} \cup
         [unit : {n}, rate : {r}, armed : BOOLEAN,
          sound : {"no", "resumed", "rendering"}, played : 0 .. Frames,
          ending : BOOLEAN, told : BOOLEAN]
    BY <2>1, <2>2 DEF Handles
  <2> QED BY <2>3 DEF h, n, r
<1>5. now.requests \in BoundedSeq({"suspend", "resume"}, MaxRequests + 1)
  <2> DEFINE q == now.requests
  <2>1. q \in Seq({"suspend", "resume"}) /\ Len(q) <= MaxRequests + 1
    BY <1>1 DEF Good, Asks, States, Requests
  <2> HIDE DEF q
  <2>2. Len(q) \in 0 .. MaxRequests + 1 /\ q \in [1 .. Len(q) -> {"suspend", "resume"}]
    BY <2>1
  <2>3. q \in UNION {[1 .. n -> {"suspend", "resume"}] : n \in 0 .. MaxRequests + 1}
    BY <2>2
  <2> QED BY <2>3 DEF BoundedSeq, SeqOf, q
<1>6. /\ now.handle = NoHandle \/ now.pause = NoPause
      /\ Live \/ (now.handle = NoHandle /\ now.pause = NoPause /\ ~now.held)
      /\ now.creation \in {"owned", "adopted", "void", "refused"} =>
           now.preparation # "none"
  BY DEF Good, Plays, Ended, Prepares, Live
<1>7. now.creation \in DOMAIN Disowned
  BY <1>1 DEF States, Creations, Disowned
<1> QED BY <1>2, <1>3, <1>4, <1>5, <1>6, <1>7
        DEF PlayerTypeOK, Goings, Rated, Terminals, Silences, Preparations, Stretchers

\* A good state accepts what is pressed.
LEMMA GoodAccepts == AlwaysGood => ListenerCannotFailIt
<1> SUFFICES ASSUME Good(now) PROVE ListenerCannotFailIt
  BY DEF AlwaysGood
<1>1. OrdinaryRateSurvives
  BY DEF Good, Prepares, Survives, OrdinaryRateSurvives
<1>2. ASSUME Quiet, Live PROVE \A ready \in BOOLEAN : Holds(synchronize(now, ready))
  <2>1. Unrefused(now) /\ now.terminal = "none"
    BY <1>2 DEF Quiet, Live, Unrefused
  <2> QED BY <2>1, SynchronizeGood
<1>3. now.state = "paused" => Held(now)
  BY DEF Good, HeldBack
<1> QED BY <1>1, <1>2, <1>3 DEF ListenerCannotFailIt, PressesAreAccepted

\* What is told in a good state is a beginning of the story.
LEMMA GoodHeard == AlwaysGood => HeardInOrder
<1> SUFFICES ASSUME Good(now) PROVE HeardInOrder
  BY DEF AlwaysGood
<1> DEFINE Story(n) == [i \in 1 .. 2 * n |->
             <<IF i % 2 = 1 THEN "started" ELSE "completed", (i + 1) \div 2>>]
           h == now.heard
           g == Story(Units)
           m == 2 * Units
<1>1. /\ h \in Seq(Kinds \X Nat) /\ Len(h) <= m /\ now.gone \in Nat /\ Len(h) \in Nat
      /\ \A i \in 1 .. Len(h) : h[i] = Event(i)
  <2>1. now \in States
    BY DEF Good
  <2>2. h \in Seq(Kinds \X Nat) /\ now.gone \in Nat
    BY <2>1 DEF States, Stories
  <2>3. Len(h) <= m /\ \A i \in 1 .. Len(h) : h[i] = Event(i)
    BY DEF Good, Told
  <2> QED BY <2>2, <2>3
<1>2. g = [i \in 1 .. m |-> Event(i)] /\ m \in Nat
  BY DEF Event
<1> HIDE DEF m
<1>3. IsPrefix(h, g)
  <2> HIDE DEF h, g
  <2>1. Len(g) = m /\ \A i \in 1 .. m : g[i] = Event(i)
    BY <1>2
  <2>2. SubSeq(h, 1, Len(h)) = [i \in 1 .. Len(h) |-> h[i]]
    BY <1>1
  <2>3. SubSeq(g, 1, Len(h)) = [i \in 1 .. Len(h) |-> g[i]]
    BY <1>1, <1>2
  <2>4. \A i \in 1 .. Len(h) : h[i] = g[i]
    BY <1>1, <2>1
  <2> QED BY <1>1, <2>1, <2>2, <2>3, <2>4 DEF IsPrefix
<1>4. Live => now.gone = Len(h) \div 2
  <2>1. Live => Len(h) = 2 * now.gone \/ Len(h) = 2 * now.gone + 1
    BY <1>1 DEF Good, Told, Live
  <2>2. ASSUME NEW n \in Nat PROVE (2 * n) \div 2 = n /\ (2 * n + 1) \div 2 = n
    OBVIOUS
  <2> HIDE DEF h
  <2> QED BY <1>1, <2>1, <2>2
<1> QED BY <1>3, <1>4 DEF HeardInOrder

\* The silences kept in a good state are those of its pauses.
LEMMA GoodPauses == AlwaysGood => PausesAreKept
<1> SUFFICES ASSUME Good(now), Live PROVE PausesAreKept
  BY DEF AlwaysGood, PausesAreKept
<1>1. now.silence + now.pause.left = PauseTicks * Owed(now)
  BY DEF Good, Keeps, Live
<1>2. Owed(now) = now.pauses + IF now.pause = NoPause THEN 0 ELSE 1
  BY DEF Good, States, Owed
<1> QED BY <1>1, <1>2 DEF PausesAreKept

\* The state of the player has its shape at every moment.
THEOREM PlayerTyped == PlayerSpec => []PlayerTypeOK
BY GoodAlways, GoodTyped, PTL

\* Pause and Resume are accepted whenever they are offered, and no rate tried
\* meanwhile fails a run that is heard at the ordinary one.
THEOREM ListenerIsAccepted == PlayerSpec => []ListenerCannotFailIt
BY GoodAlways, GoodAccepts, PTL

\* Whatever the device does and the listener presses, the units are told in
\* order, each silence is kept to its last tick, and a pause stays silent.
THEOREM TextIsHeard == PlayerSpec => HeardAsWritten
<1>1. AlwaysGood /\ [PlayerNext]_now =>
        [now.state = "paused" /\ now'.state = "paused" =>
           now'.handle.unit \in {0, now.handle.unit}
           /\ (now'.handle.sound = "no" \/ now'.handle.sound = now.handle.sound)]_now
  BY GoodStep DEF AlwaysGood, Silently
<1>2. AlwaysGood => HeardInOrder /\ PausesAreKept
  BY GoodHeard, GoodPauses
<1>3. PlayerSpec => [](HeardInOrder /\ PausesAreKept)
  BY <1>2, GoodAlways, PTL
<1>4. PlayerSpec => PausedIsSilent
  BY <1>1, GoodAlways, PTL DEF PlayerSpec, PausedIsSilent
<1> QED BY <1>3, <1>4 DEF HeardAsWritten

=============================================================================
