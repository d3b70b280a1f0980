------------------------------ MODULE ReaderPage ------------------------------
(***************************************************************************)
(* The page a book is read on: ReaderPublicationContent of apps/desktop/   *)
(* src/reader/ReaderPublication.tsx with the coordinator of navigation,    *)
(* the tracker of the visual position, the restorer that keeps a passage   *)
(* in place and the controller that follows the voice; and what the page   *)
(* and ProductNarrationCoordinator ask of each other.                      *)
(*                                                                         *)
(* The chapter shown is React's: a navigation changes the coordinator's    *)
(* state at once and the document at the next commit, in which the refs    *)
(* and the layout effects run.  While something is being put in place the  *)
(* tracker's sampling is suspended, until each owner has given its token   *)
(* back; and the narration does not start until the page has said that it  *)
(* is in place.                                                            *)
(*                                                                         *)
(* Geometry, focus, the table of contents, wording, preferences' values,   *)
(* saves (ReaderPositionSave), the paragraph leaf and the page's unmount   *)
(* are left out; the tracker's last locator is the page's.  Of the         *)
(* narration (NarrationRun) only what it and the page tell each other is   *)
(* left.                                                                   *)
(***************************************************************************)
EXTENDS Integers

CONSTANTS
    Chapters,      \* the readable chapters, as numbers
    Huge,          \* those too large to be rendered
    MaxNavigations \* bound: revisions of the navigation that are explored

ASSUME PageAssumption ==
    /\ Chapters \subseteq Nat \ {0} /\ Huge \subseteq Chapters /\ Huge # Chapters
    /\ MaxNavigations \in Nat

VARIABLES
    page,       \* the coordinator's state: where, what is presented, revision
    shown,      \* the state of the last commit
    mounted,    \* destinationRef: the destination's element is in the document
    handled,    \* handledNavigationRevision
    initial,    \* initialRestorationStatus and initialRestorationStarted
    asked,      \* a chapter navigation whose invalidation is awaited
    placing,    \* placementPending
    saving,     \* pendingPositionSaveRevision, 0 for undefined
    restorer,   \* the reflow restorer's pending restoration
    restored,   \* pendingRestoration, set and not yet committed
    highlight,  \* the highlight controller's active segment
    held,       \* who holds a token that suspends the tracker's sampling
    voice       \* what the narration and the page know of each other

pageVars == <<page, shown, mounted, handled, initial, asked, placing, saving>>
vars == <<pageVars, restorer, restored, highlight, held, voice>>

Locators == {at \in [chapter : Chapters, offset : {0, 1}] :
               at.chapter \in Huge => at.offset = 0}
Nowhere == [chapter |-> 0, offset |-> 0]
Owners == {"initial", "navigation", "reflow", "highlight"}

NoRestoration == [at |-> Nowhere, reason |-> "none"]
NoResult == [at |-> Nowhere, outcome |-> "none", revision |-> 0]
NoHighlight == [at |-> Nowhere, eligible |-> FALSE, requested |-> FALSE,
                done |-> FALSE, frame |-> FALSE]
NoNavigation == [open |-> FALSE, target |-> Nowhere, restart |-> FALSE,
                 settled |-> FALSE]
NotAsked == [open |-> FALSE, to |-> Nowhere, waits |-> FALSE]

Snapshot(p) == [chapter |-> p.at.chapter, status |-> p.status,
                revision |-> p.revision]

\* Handlers run to their end: each is a function of the whole state, so that
\* one may call another.
State == [page |-> page, shown |-> shown, mounted |-> mounted,
          handled |-> handled, initial |-> initial, asked |-> asked,
          placing |-> placing, saving |-> saving, restorer |-> restorer,
          restored |-> restored, highlight |-> highlight, held |-> held,
          voice |-> voice]

Becomes(s) ==
    /\ page' = s.page /\ shown' = s.shown /\ mounted' = s.mounted
    /\ handled' = s.handled /\ initial' = s.initial /\ asked' = s.asked
    /\ placing' = s.placing /\ saving' = s.saving
    /\ restorer' = s.restorer /\ restored' = s.restored
    /\ highlight' = s.highlight /\ held' = s.held
    /\ voice' = s.voice

-----------------------------------------------------------------------------
(* The tracker's suspension and the restorer *)

\* suspend, and its resume: one token for an owner.
Suspend(s, owner) == [s EXCEPT !.held = @ \cup {owner}]
Resume(s, owner) == [s EXCEPT !.held = @ \ {owner}]

preserve(s, at, reason) ==
    Suspend([s EXCEPT !.restorer = [at |-> at, reason |-> reason]], "reflow")

cancel(s) == Resume([s EXCEPT !.restorer = NoRestoration], "reflow")

-----------------------------------------------------------------------------
(* What the narration is told *)

cancelPendingFollow(s) ==
    Resume([s EXCEPT !.highlight.frame = FALSE], "highlight")

clear(s) == cancelPendingFollow([s EXCEPT !.highlight = NoHighlight])

\* beginReaderPlacement: published, and while it settles nothing is followed.
beginReaderPlacement(s) == clear([s EXCEPT !.voice.pending = TRUE])

\* The run, and what it would have gone on to, are given up.
silence(s) ==
    [s EXCEPT !.voice.intent = "inactive", !.voice.nav = NoNavigation,
              !.voice.request = Nowhere, !.voice.speaks = FALSE,
              !.voice.stopping = @ \/ s.voice.speaks]

\* settleReaderPlacement: without a place the narration is stopped.
settleReaderPlacement(s, available) ==
    LET told == [s EXCEPT !.voice.pending = FALSE,
                          !.voice.available = available]
    IN  IF available THEN told ELSE clear(silence(told))

settleExternalNavigation(s, at) ==
    IF s.voice.nav.open
    THEN [s EXCEPT !.voice.nav.target = at, !.voice.nav.settled = TRUE]
    ELSE s

notifySettlement(s, reason) ==
    IF reason = "reflow" /\ s.placing THEN s
    ELSE LET told == [s EXCEPT !.placing = FALSE] IN
         IF s.page.status = "chapter-too-large"
         THEN settleReaderPlacement(told, FALSE)
         ELSE IF reason = "reflow" THEN settleReaderPlacement(told, TRUE)
         ELSE settleExternalNavigation(settleReaderPlacement(told, TRUE),
                                       s.page.at)

completeInitialRestoration(s, status) ==
    IF s.initial = "done" THEN s
    ELSE LET over == [s EXCEPT !.initial = "done"]
             told == IF status = "superseded" THEN over
                     ELSE settleReaderPlacement(over, status = "settled")
         IN  Resume(told, "initial")

-----------------------------------------------------------------------------
(* Navigation *)

\* commitResolution; Nowhere is a target that cannot be resolved.
navigate(s, to) ==
    IF to = Nowhere THEN s
    ELSE IF to.chapter \in Huge
    THEN [s EXCEPT !.page.status = "chapter-too-large", !.page.revision = @ + 1]
    ELSE [s EXCEPT !.page = [at |-> to, status |-> "render",
                             revision |-> @.revision + 1]]

updateActiveVisualLocator(s, at) ==
    IF s.page.at.chapter = at.chapter THEN [s EXCEPT !.page.at = at] ELSE s

finishProgrammaticNavigation(s) ==
    LET told == IF s.saving # 0 /\ s.saving = s.page.revision
                THEN notifySettlement([s EXCEPT !.saving = 0], "navigation")
                ELSE s
    IN  Resume(told, "navigation")

continueNavigation(s, to) ==
    LET free == completeInitialRestoration(cancel(s), "superseded")
        own == Suspend(Resume(free, "navigation"), "navigation")
        gone == navigate([own EXCEPT !.asked = NotAsked,
                                     !.saving = own.page.revision + 1], to)
    IN  IF gone.page.revision # own.page.revision THEN gone
        ELSE notifySettlement(
               finishProgrammaticNavigation([gone EXCEPT !.saving = 0]),
               "navigation")

\* Mutated form: the voice's own navigation leaves a placement to be saved.
navigateToLocator_keepsSaving(s, to) ==
    LET free == completeInitialRestoration(cancel(s), "superseded")
        gone == navigate(free, to)
        seen == [gone EXCEPT !.handled = gone.page.revision]
    IN  IF seen.page.status = "chapter-too-large"
        THEN notifySettlement(seen, "navigation") ELSE seen

\* The voice's own navigation of the page, to a segment that is not there.
navigateToLocator(s, to) ==
    LET free == completeInitialRestoration(cancel(s), "superseded")
        gone == navigate([free EXCEPT !.saving = 0], to)
        seen == [gone EXCEPT !.handled = gone.page.revision]
    IN  IF seen.page.status = "chapter-too-large"
        THEN notifySettlement(seen, "navigation") ELSE seen

-----------------------------------------------------------------------------
(* Following the voice *)

\* settleLocator: another place than the page's ends what keeps it in place.
settleLocator(s, at) ==
    updateActiveVisualLocator(IF s.page.at = at THEN s ELSE cancel(s), at)

settleActive(s, at) == Resume(settleLocator(s, at), "highlight")

\* Whether the segment's range is in the document; what the voice has had put
\* there is, once its destination is.
RangeChoices(s) ==
    IF ~(s.shown.status = "render" /\ s.shown.chapter = s.highlight.at.chapter)
    THEN {FALSE}
    ELSE IF s.mounted /\ s.highlight.requested /\ s.shown = Snapshot(s.page)
         THEN {TRUE} ELSE BOOLEAN

Missing(s) ==
    LET waits == Suspend([s EXCEPT !.highlight.requested = TRUE], "highlight")
    IN  IF s.highlight.requested THEN waits
        ELSE navigateToLocator(waits, s.highlight.at)

\* refresh: settled where it is, scrolled into view and settled in a frame,
\* or asked for.
Refreshed(s) ==
    IF ~s.highlight.eligible THEN {s}
    ELSE UNION {IF there
                THEN {settleActive(s, s.highlight.at),
                      Suspend([s EXCEPT !.highlight.frame = TRUE], "highlight")}
                ELSE {Missing(s)} : there \in RangeChoices(s)}

accept(s, at) ==
    Refreshed([cancelPendingFollow(s) EXCEPT !.highlight =
                 [NoHighlight EXCEPT !.at = at, !.eligible = TRUE]])

manualInspection(s) ==
    cancelPendingFollow([s EXCEPT !.highlight.eligible = FALSE])

-----------------------------------------------------------------------------
(* The commit of the page *)

\* setDestinationRef, with the destination's element.
DestinationAttached(s) ==
    LET first == IF s.initial # "pending" THEN s
                 ELSE preserve([s EXCEPT !.initial = "started"],
                               s.page.at, "restoration")
        seen == [first EXCEPT !.handled = s.shown.revision]
    IN  IF s.handled = s.shown.revision THEN first
        ELSE IF s.page.at.offset > 0
        THEN preserve(seen, s.page.at, "restoration")
        ELSE finishProgrammaticNavigation(seen)

\* The effect of pendingRestoration.
RestorationCommitted(s) ==
    LET result == s.restored
        placed == IF result.outcome = "exact" THEN s
                  ELSE updateActiveVisualLocator(
                         s, [result.at EXCEPT !.offset = 0])
        stale == \/ result.revision # s.page.revision
                 \/ result.revision # 0 /\ s.saving # result.revision
    IN  IF result = NoResult THEN s
        ELSE [(IF stale THEN s
               ELSE IF result.revision = 0
               THEN completeInitialRestoration(placed,
                      IF result.outcome = "nowhere" THEN "unavailable"
                                                    ELSE "settled")
               ELSE finishProgrammaticNavigation(placed))
              EXCEPT !.restored = NoResult]

\* Mutated form: a chapter too large is left to a destination that never comes.
NavigationCommitted_withDestination(s) ==
    IF s.initial # "done" /\ s.shown.status = "chapter-too-large"
    THEN completeInitialRestoration(s, "unavailable")
    ELSE IF s.handled # s.shown.revision /\ s.mounted
    THEN finishProgrammaticNavigation([s EXCEPT !.handled = s.shown.revision])
    ELSE s

\* The last effect: what no destination has handled.
NavigationCommitted(s) ==
    IF s.initial # "done" /\ s.shown.status = "chapter-too-large"
    THEN completeInitialRestoration(s, "unavailable")
    ELSE IF s.handled # s.shown.revision
            /\ (s.mounted \/ s.shown.status = "chapter-too-large")
    THEN finishProgrammaticNavigation([s EXCEPT !.handled = s.shown.revision])
    ELSE s

SyncCommitDue == shown # Snapshot(page)

\* Another revision has another destination, in the document or still to be
\* rendered there.
Commit ==
    /\ SyncCommitDue \/ restored # NoResult
    /\ \E there \in BOOLEAN :
         LET changes == page.revision # shown.revision
             drawn == [State EXCEPT
                         !.shown = Snapshot(page),
                         !.mounted = IF changes
                                     THEN there /\ page.status = "render"
                                     ELSE @]
             attached == IF changes /\ drawn.mounted
                         THEN DestinationAttached(drawn) ELSE drawn
         IN  \E followed \in Refreshed(RestorationCommitted(attached)) :
               Becomes(NavigationCommitted(followed))

-----------------------------------------------------------------------------
(* What runs before the next task: promises, in the order they are awaited *)

RequestDue == voice.request # Nowhere /\ ~voice.stopping
FinishDue == voice.nav.open /\ voice.nav.settled /\ ~voice.stopping
ContinueDue == asked.open /\ (asked.waits => ~voice.stopping)

Task == ~(RequestDue \/ FinishDue \/ ContinueDue \/ SyncCommitDue)

place(s) == beginReaderPlacement([s EXCEPT !.placing = TRUE])

\* A boundary or a leaf: the page goes there at once, and what was asked for
\* before it is superseded.
RequestArrives ==
    /\ RequestDue
    /\ Becomes(continueNavigation(
         place([State EXCEPT !.voice.request = Nowhere]), voice.request))

FinishNavigation ==
    /\ FinishDue /\ ~RequestDue
    /\ LET starts == voice.nav.restart /\ ~voice.pending /\ voice.available
           over == [voice EXCEPT !.nav = NoNavigation, !.request = Nowhere]
       IN  Becomes([State EXCEPT !.voice =
             [over EXCEPT !.speaks = starts,
                          !.intent = IF starts THEN "playing"
                                     ELSE IF voice.nav.restart THEN "inactive"
                                     ELSE "paused"]])

ContinueNavigation ==
    /\ ContinueDue /\ ~RequestDue /\ ~FinishDue
    /\ Becomes(continueNavigation(State, asked.to))

-----------------------------------------------------------------------------
(* The reader's and the browser's tasks *)

\* #beginNavigation: one at a time, and it stops what is being said.
beginNavigation(s, target, restart) ==
    IF s.voice.nav.open
    THEN [s EXCEPT !.voice.nav.restart = @ \/ restart]
    ELSE clear([s EXCEPT
           !.voice.intent = IF @ = "inactive" THEN "playing" ELSE @,
           !.voice.nav = [open |-> TRUE, target |-> target,
                          restart |-> restart \/ s.voice.intent # "paused",
                          settled |-> FALSE],
           !.voice.speaks = FALSE,
           !.voice.stopping = @ \/ s.voice.speaks])

GoTo(to) ==
    /\ Task /\ page.revision < MaxNavigations
    /\ LET waits == voice.intent # "inactive"
           begun == [place(State) EXCEPT
                       !.asked = [open |-> TRUE, to |-> to, waits |-> waits]]
       IN  Becomes(IF waits THEN beginNavigation(begun, Nowhere, FALSE)
                            ELSE begun)

MountDestination ==
    /\ Task /\ ~mounted /\ shown.status = "render"
    /\ LET attached == DestinationAttached([State EXCEPT !.mounted = TRUE]) IN
       \E s \in Refreshed(attached) : Becomes(s)

\* Frames until the passage is stable or given up.
RestorerFrame ==
    /\ Task /\ restorer # NoRestoration
    /\ \E outcome \in {"exact", "block", "nowhere"} :
         LET free == Resume([State EXCEPT !.restorer = NoRestoration],
                            "reflow")
         IN  Becomes(
               CASE restorer.reason = "preference" ->
                      notifySettlement(free, "reflow")
                 [] restorer.reason = "restoration" ->
                      [free EXCEPT !.restored =
                         [at |-> restorer.at, outcome |-> outcome,
                          revision |-> page.revision]]
                 [] OTHER -> free)

\* Mutated form: a change of preferences takes the place of what was settling.
PreferenceChange_replaces ==
    /\ Task /\ initial = "done"
    /\ \E s \in Refreshed(preserve(State, page.at, "preference")) : Becomes(s)

\* A passage still settling keeps the reason it is put in place for.
PreferenceChange ==
    /\ Task /\ initial = "done"
    /\ \E s \in Refreshed(preserve(State, page.at,
                  IF saving # 0 /\ saving = page.revision
                  THEN "restoration" ELSE "preference")) :
         Becomes(s)

ViewportResize ==
    /\ Task /\ restorer = NoRestoration
    /\ Becomes(preserve(State, page.at, "viewport"))

\* A sample of what is at the reading line, after a scroll: not what was seen
\* before, and not while anyone suspends it.
Sample ==
    /\ Task /\ held = {} /\ shown.status = "render"
    /\ \E at \in Locators \ {page.at} :
         /\ at.chapter = shown.chapter
         /\ Becomes(manualInspection(updateActiveVisualLocator(State, at)))

FollowFrame ==
    /\ Task /\ highlight.frame
    /\ LET over == [State EXCEPT !.highlight.frame = FALSE] IN
       Becomes(IF highlight.eligible THEN settleActive(over, highlight.at)
                                     ELSE over)

-----------------------------------------------------------------------------
(* The narration *)

CanStart == ~voice.pending /\ voice.available /\ ~voice.nav.open

\* startAtVisibleLocator
StartHere ==
    /\ Task /\ CanStart
    /\ Becomes(
         IF voice.intent = "inactive" /\ ~voice.stopping
         THEN [State EXCEPT !.voice.intent = "playing", !.voice.speaks = TRUE]
         ELSE [beginNavigation(State, page.at, TRUE) EXCEPT
                 !.voice.nav.settled = TRUE])

\* startAtLocator, from a paragraph of the chapter
StartAtLeaf ==
    /\ Task /\ CanStart /\ page.revision < MaxNavigations
    /\ LET at == [chapter |-> shown.chapter, offset |-> 0] IN
       Becomes([beginNavigation(State, at, TRUE) EXCEPT !.voice.request = at])

\* goToNextBoundary and goToPreviousBoundary
GoToBoundary ==
    /\ Task /\ ~voice.pending /\ ~voice.nav.open /\ voice.intent # "inactive"
    /\ page.revision < MaxNavigations
    /\ \E at \in Locators :
         Becomes([beginNavigation(State, at, FALSE)
                    EXCEPT !.voice.request = at])

SegmentStarts ==
    /\ Task /\ voice.speaks /\ voice.intent = "playing"
    /\ page.revision < MaxNavigations
    /\ \E at \in Locators : \E s \in accept(State, at) : Becomes(s)

SegmentCompletes ==
    /\ Task /\ voice.speaks /\ highlight.at # Nowhere /\ ~highlight.done
    /\ LET over == [State EXCEPT !.highlight.eligible = FALSE,
                                 !.highlight.done = TRUE]
       IN  Becomes(
             IF highlight.eligible
             THEN settleActive([over EXCEPT !.highlight.frame = FALSE],
                               [highlight.at EXCEPT !.offset = 1])
             ELSE over)

Pause ==
    /\ Task /\ voice.speaks /\ voice.intent = "playing"
    /\ Becomes([State EXCEPT !.voice.intent = "paused"])

\* A paused run goes on and the page goes back to it; without one, it starts.
ResumeVoice ==
    /\ Task /\ CanStart /\ voice.intent = "paused" /\ ~voice.stopping
    /\ page.revision < MaxNavigations
    /\ LET goes == [State EXCEPT !.voice.intent = "playing",
                                 !.voice.speaks = TRUE]
       IN  IF highlight.at # Nowhere /\ ~highlight.done
           THEN \E s \in Refreshed([goes EXCEPT !.highlight.eligible = TRUE]) :
                  Becomes(s)
           ELSE Becomes(goes)

\* stop, or a failure
Stop ==
    /\ Task /\ (voice.speaks \/ voice.intent # "inactive")
    /\ Becomes(clear(silence(State)))

BookEnds ==
    /\ Task /\ voice.speaks /\ voice.intent = "playing"
    /\ Becomes(manualInspection(silence(State)))

StopEnds ==
    /\ Task /\ voice.stopping
    /\ Becomes([State EXCEPT !.voice.stopping = FALSE])

-----------------------------------------------------------------------------

\* A book opened at a saved place, at its start, or at a chapter too large.
Init ==
    \E at \in Locators, start \in {"restored", "fresh", "too-large"} :
        LET restores == start = "restored"
            renders == start # "too-large" IN
        /\ start # "restored" => at.offset = 0
        /\ renders <=> at.chapter \notin Huge
        /\ page = [at |-> at, revision |-> 0,
                   status |-> IF renders THEN "render" ELSE "chapter-too-large"]
        /\ shown = Snapshot(page) /\ mounted = FALSE /\ handled = 0
        /\ initial = IF restores THEN "pending" ELSE "done"
        /\ asked = NotAsked /\ placing = FALSE /\ saving = 0
        /\ restorer = NoRestoration /\ restored = NoResult
        /\ highlight = NoHighlight
        /\ held = IF restores THEN {"initial"} ELSE {}
        /\ voice = [pending |-> restores, available |-> renders,
                    intent |-> "inactive", speaks |-> FALSE,
                    nav |-> NoNavigation, request |-> Nowhere,
                    stopping |-> FALSE]

\* A chapter or an entry of the table of contents: the start of a block.
Navigate ==
    \E to \in {at \in Locators : at.offset = 0} \cup {Nowhere} : GoTo(to)

Next ==
    \/ Commit \/ RequestArrives \/ FinishNavigation \/ ContinueNavigation
    \/ Navigate \/ MountDestination \/ RestorerFrame \/ PreferenceChange
    \/ ViewportResize \/ Sample \/ FollowFrame
    \/ StartHere \/ StartAtLeaf \/ GoToBoundary \/ SegmentStarts
    \/ SegmentCompletes \/ Pause \/ ResumeVoice \/ Stop \/ BookEnds \/ StopEnds

\* Promises and commits are run before the next task; the browser renders the
\* rest of the chapter and runs the frames; a stop is answered (NarrationRun).
Fairness ==
    /\ WF_vars(\/ Commit \/ RequestArrives
               \/ FinishNavigation \/ ContinueNavigation)
    /\ WF_vars(MountDestination \/ StopEnds) /\ WF_vars(RestorerFrame)

Spec == Init /\ [][Next]_vars /\ Fairness

-----------------------------------------------------------------------------

\* The state is well formed; what is shown and handled is never ahead of the
\* page, and the placement to be saved is the page's last one.
TypeOK ==
    /\ page \in [at : Locators, status : {"render", "chapter-too-large"},
                 revision : Nat]
    /\ shown.revision \in 0..page.revision /\ mounted \in BOOLEAN
    /\ handled \in 0..page.revision /\ saving \in {0, page.revision}
    /\ initial \in {"pending", "started", "done"} /\ placing \in BOOLEAN
    /\ held \subseteq Owners

\* What the narration waits for is on its way: the saved place, a chapter whose
\* invalidation is awaited, or a destination still to be handled or aligned.
PlacementIsComing ==
    voice.pending =>
        \/ initial # "done" \/ asked.open
        \/ /\ saving = page.revision /\ "navigation" \in held
           /\ \/ handled # page.revision
              \/ restorer.reason = "restoration"
              \/ restored.revision = page.revision

\* Sampling is suspended for the saved place, for a passage kept in place, and
\* for a segment that is followed and has been scrolled to or asked for.
SuspendedByItsOwner ==
    /\ "initial" \in held <=> initial # "done"
    /\ "reflow" \in held <=> restorer # NoRestoration
    /\ "highlight" \in held =>
         highlight.eligible /\ (highlight.frame \/ highlight.requested)

\* Neither the narration nor the tracker waits for something that was given up,
\* whatever supersedes what.
NothingWaitsInVain == PlacementIsComing /\ SuspendedByItsOwner

\* The page goes to the chapter asked for, also when what was being said has to
\* be stopped first, unless the stop was asked for by a boundary or a leaf,
\* which then comes first and supersedes it.
ChapterIsReached ==
    [][asked.open /\ ~asked'.open =>
         \/ voice.request # Nowhere
         \/ asked.to = Nowhere \/ page'.at = asked.to
         \/ asked.to.chapter \in Huge
            /\ page'.status = "chapter-too-large"]_vars

\* A run starts on a page that is rendered, in the chapter it starts from.
StartsOnThePage ==
    [][~voice.speaks /\ voice'.speaks =>
         page.status = "render"
         /\ (voice.nav.open => page.at.chapter = voice.nav.target.chapter)]_vars

\* A placement that makes the narration wait ends.
PlacementSettles == voice.pending ~> ~voice.pending

\* The page and the voice go together where they were asked to.
PageSettlesAsAsked == ChapterIsReached /\ StartsOnThePage /\ PlacementSettles

=============================================================================
