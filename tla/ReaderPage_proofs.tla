-------------------------- MODULE ReaderPage_proofs --------------------------
(***************************************************************************)
(* Theorems of ReaderPage: its type correctness, that neither the          *)
(* narration nor the tracker waits in vain, that the page goes to the      *)
(* chapter asked for and that a run starts only where the page is.         *)
(*                                                                         *)
(* The handlers are functions of the whole state that call one another,    *)
(* and so are the proofs: Good is a predicate of a state, each handler has *)
(* a lemma that says what it leaves alone (KeepsPage, SpeaksOn) and that a *)
(* good state stays good, and an action is the handlers it calls.          *)
(*                                                                         *)
(* Good strengthens NothingWaitsInVain: while the page settles nothing is  *)
(* said or followed (Quiet), nothing begins before the saved place is      *)
(* restored (Opening), and a navigation of the narration that has settled  *)
(* is where the page is (Settles).  A chapter that is too large is unsaid  *)
(* from the navigation to the commit that shows it (ToBeSaid): that the    *)
(* commit runs before the next task is what keeps the voice from starting  *)
(* in between.                                                             *)
(***************************************************************************)
EXTENDS ReaderPage, TLAPS

\* What the variables hold.
Somewhere == Locators \cup {Nowhere}
Statuses == {"render", "chapter-too-large"}
Pages == [at : Locators, status : Statuses, revision : Nat]
Frames == [chapter : Chapters, status : Statuses, revision : Nat]
Asked == [open : BOOLEAN, to : Somewhere, waits : BOOLEAN]
Restorers == [at : Somewhere,
              reason : {"none", "restoration", "preference", "viewport"}]
Results == [at : Somewhere, outcome : {"none", "exact", "block", "nowhere"},
            revision : Nat]
Highlights == [at : Somewhere, eligible : BOOLEAN, requested : BOOLEAN,
               done : BOOLEAN, frame : BOOLEAN]
Navigations == [open : BOOLEAN, target : Somewhere, restart : BOOLEAN,
                settled : BOOLEAN]
Voices == [pending : BOOLEAN, available : BOOLEAN,
           intent : {"inactive", "playing", "paused"}, speaks : BOOLEAN,
           nav : Navigations, request : Somewhere, stopping : BOOLEAN]
States ==
    [page : Pages, shown : Frames, mounted : BOOLEAN, handled : Nat,
     initial : {"pending", "started", "done"}, asked : Asked,
     placing : BOOLEAN, saving : Nat, restorer : Restorers,
     restored : Results, highlight : Highlights, held : SUBSET Owners,
     voice : Voices]

\* The values that stand for none are of their kind.
LEMMA NothingTyped ==
    /\ NoRestoration \in Restorers /\ NoResult \in Results
    /\ NoHighlight \in Highlights /\ NoNavigation \in Navigations
    /\ NotAsked \in Asked /\ Nowhere \in Somewhere
BY DEF NoRestoration, Restorers, NoResult, Results, NoHighlight, Highlights,
       NoNavigation, Navigations, NotAsked, Asked, Somewhere

\* A state that the program becomes is its next one.
LEMMA Shape == ASSUME NEW s \in States, Becomes(s) PROVE State' = s
BY DEF States, Becomes, State

-----------------------------------------------------------------------------
(* What the handlers leave alone *)

\* Where the page is, and what is under way there.
KeepsPage(s, t) ==
    /\ t.page = s.page /\ t.shown = s.shown /\ t.mounted = s.mounted
    /\ t.handled = s.handled /\ t.initial = s.initial /\ t.asked = s.asked
    /\ t.saving = s.saving
    /\ t.restorer = s.restorer /\ t.restored = s.restored

\* The run goes on as it was.
SpeaksOn(s, t) ==
    /\ t.highlight = s.highlight /\ t.held = s.held
    /\ t.voice.intent = s.voice.intent /\ t.voice.speaks = s.voice.speaks
    /\ t.voice.request = s.voice.request

\* The run and what it would have gone on to are given up.
Silenced(s, t) ==
    /\ t.highlight = NoHighlight /\ t.held = s.held \ {"highlight"}
    /\ t.voice.intent = "inactive" /\ ~t.voice.speaks
    /\ t.voice.request = Nowhere /\ t.voice.nav = NoNavigation

\* What each handler of the narration's side leaves: the scheduled frame, the
\* segment that is followed, the run.
LEMMA CancelFollow ==
    ASSUME NEW s \in States
    PROVE  LET t == cancelPendingFollow(s) IN
           /\ t \in States /\ KeepsPage(s, t)
           /\ t.placing = s.placing /\ t.voice = s.voice
           /\ t.held = s.held \ {"highlight"}
           /\ ~t.highlight.frame
           /\ t.highlight.at = s.highlight.at
           /\ t.highlight.eligible = s.highlight.eligible
           /\ t.highlight.requested = s.highlight.requested
BY DEF States, Highlights, cancelPendingFollow, Resume, KeepsPage

LEMMA Clear ==
    ASSUME NEW s \in States
    PROVE  LET t == clear(s) IN
           /\ t \in States /\ KeepsPage(s, t)
           /\ t.placing = s.placing /\ t.voice = s.voice
           /\ t.held = s.held \ {"highlight"}
           /\ t.highlight = NoHighlight
<1> DEFINE c == [s EXCEPT !.highlight = NoHighlight]
<1>1. /\ c \in States /\ KeepsPage(s, c)
      /\ c.placing = s.placing /\ c.voice = s.voice
      /\ c.held = s.held /\ c.highlight = NoHighlight
  BY NothingTyped DEF States, KeepsPage
<1>2. [NoHighlight EXCEPT !.frame = FALSE] = NoHighlight
  <2>1. /\ NoHighlight = [x \in DOMAIN NoHighlight |-> NoHighlight[x]]
        /\ NoHighlight.frame = FALSE
    BY DEF NoHighlight
  <2> QED BY <2>1
<1>3. clear(s) = cancelPendingFollow(c)
  BY DEF clear
<1>4. clear(s).highlight = [c.highlight EXCEPT !.frame = FALSE]
  BY <1>1, <1>3 DEF cancelPendingFollow, Resume, States
<1> HIDE DEF c
<1> QED BY <1>1, <1>2, <1>3, <1>4, CancelFollow DEF KeepsPage

LEMMA Silence ==
    ASSUME NEW s \in States
    PROVE  LET t == silence(s) IN
           /\ t \in States /\ KeepsPage(s, t)
           /\ t.placing = s.placing /\ t.held = s.held
           /\ t.highlight = s.highlight
           /\ t.voice.pending = s.voice.pending
           /\ t.voice.available = s.voice.available
           /\ t.voice.intent = "inactive" /\ ~t.voice.speaks
           /\ t.voice.request = Nowhere /\ t.voice.nav = NoNavigation
BY NothingTyped DEF States, Voices, silence, KeepsPage

\* settleReaderPlacement: the narration waits no more.
LEMMA SettleThere ==
    ASSUME NEW s \in States
    PROVE  LET t == settleReaderPlacement(s, TRUE) IN
           /\ t \in States /\ KeepsPage(s, t)
           /\ t.placing = s.placing
           /\ ~t.voice.pending /\ t.voice.available
           /\ SpeaksOn(s, t) /\ t.voice.nav = s.voice.nav
BY DEF settleReaderPlacement, States, Voices, KeepsPage, SpeaksOn

LEMMA SettleNowhere ==
    ASSUME NEW s \in States
    PROVE  LET t == settleReaderPlacement(s, FALSE) IN
           /\ t \in States /\ KeepsPage(s, t)
           /\ t.placing = s.placing
           /\ ~t.voice.pending /\ ~t.voice.available
           /\ Silenced(s, t)
<1> DEFINE c == [s EXCEPT !.voice.pending = FALSE, !.voice.available = FALSE]
<1>1. /\ c \in States /\ KeepsPage(s, c)
      /\ c.placing = s.placing
      /\ ~c.voice.pending /\ ~c.voice.available /\ c.held = s.held
  BY DEF States, Voices, KeepsPage
<1> DEFINE d == silence(c)
           e == clear(d)
<1>2. settleReaderPlacement(s, FALSE) = e
  BY DEF settleReaderPlacement
<1> HIDE DEF c
<1>3. /\ d \in States /\ KeepsPage(c, d)
      /\ d.placing = c.placing /\ d.held = c.held
      /\ d.voice.pending = c.voice.pending
      /\ d.voice.available = c.voice.available
      /\ d.voice.intent = "inactive" /\ ~d.voice.speaks
      /\ d.voice.request = Nowhere /\ d.voice.nav = NoNavigation
  BY <1>1, Silence
<1> HIDE DEF d
<1>4. /\ e \in States /\ KeepsPage(d, e)
      /\ e.placing = d.placing /\ e.voice = d.voice
      /\ e.held = d.held \ {"highlight"} /\ e.highlight = NoHighlight
  BY <1>3, Clear
<1> HIDE DEF e
<1> QED BY <1>1, <1>2, <1>3, <1>4 DEF KeepsPage, Silenced

\* notifySettlement: a navigation that waits for its place is told it.
LEMMA Notify ==
    ASSUME NEW s \in States, NEW reason \in {"reflow", "navigation"},
           ~(reason = "reflow" /\ s.placing)
    PROVE  LET t == notifySettlement(s, reason) IN
           /\ t \in States /\ KeepsPage(s, t)
           /\ ~t.placing
           /\ ~t.voice.pending
           /\ t.voice.available => s.page.status = "render"
           /\ \/ Silenced(s, t)
              \/ /\ SpeaksOn(s, t)
                 /\ t.voice.nav.open = s.voice.nav.open
                 /\ \/ t.voice.nav = s.voice.nav
                    \/ t.voice.nav.target = s.page.at
                 /\ s.voice.nav.open /\ reason = "navigation" =>
                       t.voice.nav.settled /\ t.voice.nav.target = s.page.at
           /\ s.page.status # "render" => Silenced(s, t)
<1> DEFINE c == [s EXCEPT !.placing = FALSE]
           d == settleReaderPlacement(c, TRUE)
<1>1. /\ c \in States /\ KeepsPage(s, c)
      /\ ~c.placing
      /\ c.voice = s.voice /\ c.held = s.held /\ c.highlight = s.highlight
  BY DEF States, KeepsPage
<1>2. notifySettlement(s, reason) =
        IF s.page.status = "chapter-too-large"
        THEN settleReaderPlacement(c, FALSE)
        ELSE IF reason = "reflow" THEN d ELSE settleExternalNavigation(d, s.page.at)
  BY <1>1 DEF notifySettlement, KeepsPage
<1>3. s.page.status \in Statuses /\ s.page.at \in Somewhere
  BY DEF States, Pages, Somewhere
<1> HIDE DEF c
<1>4. /\ d \in States /\ KeepsPage(s, d)
      /\ ~d.placing
      /\ ~d.voice.pending /\ SpeaksOn(s, d) /\ d.voice.nav = s.voice.nav
  BY <1>1, SettleThere, ZenonT(60) DEF KeepsPage, SpeaksOn
<1>5. CASE s.page.status # "render"
  <2> DEFINE e == settleReaderPlacement(c, FALSE)
  <2>1. notifySettlement(s, reason) = e
    BY <1>2, <1>3, <1>5 DEF Statuses
  <2>2. /\ e \in States /\ KeepsPage(c, e)
        /\ e.placing = c.placing
        /\ ~e.voice.pending /\ ~e.voice.available /\ Silenced(c, e)
    BY <1>1, SettleNowhere
  <2> HIDE DEF e
  <2> QED BY <1>1, <1>5, <2>1, <2>2 DEF KeepsPage, Silenced
<1>6. CASE s.page.status = "render" /\ (reason = "reflow" \/ ~s.voice.nav.open)
  <2>1. notifySettlement(s, reason) = d
    BY <1>2, <1>4, <1>6 DEF settleExternalNavigation
  <2> QED BY <1>4, <1>6, <2>1
<1>7. CASE /\ s.page.status = "render" /\ reason = "navigation"
           /\ s.voice.nav.open
  <2> DEFINE e == [d EXCEPT !.voice.nav.target = s.page.at,
                            !.voice.nav.settled = TRUE]
  <2>1. notifySettlement(s, reason) = e
    BY <1>2, <1>4, <1>7 DEF settleExternalNavigation
  <2> HIDE DEF d
  <2>2. /\ e \in States /\ KeepsPage(d, e)
        /\ e.placing = d.placing
        /\ e.voice.pending = d.voice.pending /\ SpeaksOn(d, e)
        /\ e.voice.nav.open = d.voice.nav.open /\ e.voice.nav.settled
        /\ e.voice.nav.target = s.page.at
    BY <1>3, <1>4
       DEF States, Voices, Navigations, KeepsPage, SpeaksOn
  <2> HIDE DEF e
  <2> QED BY <1>4, <1>7, <2>1, <2>2, ZenonT(60) DEF KeepsPage, SpeaksOn
<1> QED BY <1>5, <1>6, <1>7

-----------------------------------------------------------------------------
(* The inductive invariant *)

\* Nothing is ahead of the page, and a placement to be saved is its last one.
Bounds(s) ==
    /\ s.shown.revision <= s.page.revision /\ s.handled <= s.page.revision
    /\ s.saving \in {0, s.page.revision}

\* What is rendered, followed or kept in place is somewhere, in a chapter that is
\* not too large.
Places(s) ==
    /\ s.page.status = "render" => s.page.at.chapter \notin Huge
    /\ s.shown.status = "render" => s.shown.chapter \notin Huge
    /\ s.highlight.at.chapter \notin Huge
    /\ s.highlight.eligible => s.highlight.at # Nowhere
    /\ s.restorer = NoRestoration <=> s.restorer.reason = "none"
    /\ s.restorer.reason # "none" => s.restorer.at # Nowhere
    /\ s.restored # NoResult => s.restored.at # Nowhere

\* SuspendedByItsOwner
Suspended(s) ==
    /\ "initial" \in s.held <=> s.initial # "done"
    /\ "reflow" \in s.held <=> s.restorer # NoRestoration
    /\ "highlight" \in s.held =>
         s.highlight.eligible /\ (s.highlight.frame \/ s.highlight.requested)

\* Nothing is said, and nothing followed, while the page or a navigation of the
\* narration settles.
Quiet(s) ==
    /\ s.voice.pending => ~s.voice.speaks /\ ~s.highlight.eligible
    /\ s.voice.nav.open =>
          ~s.voice.speaks /\ ~s.highlight.eligible /\ s.voice.intent # "inactive"
    /\ s.voice.speaks => s.voice.intent # "inactive"
    /\ s.voice.request # Nowhere => s.voice.nav.open

\* While the saved place is restored nothing else has begun.
Opening(s) ==
    s.initial # "done" =>
        /\ s.page.revision = 0 /\ s.page.status = "render"
        /\ s.voice.pending /\ s.voice.intent = "inactive"
        /\ s.restorer.reason # "preference"

Calm(s) == s \in States /\ Bounds(s) /\ Places(s) /\ Suspended(s) /\ Quiet(s)
             /\ Opening(s)

\* PlacementIsComing; a placement to be saved is that of a navigation.
Coming(s) ==
    s.voice.pending =>
        \/ s.initial # "done" \/ s.asked.open
        \/ /\ s.saving # 0 /\ s.saving = s.page.revision /\ "navigation" \in s.held
           /\ \/ s.handled # s.page.revision
              \/ s.restorer.reason = "restoration"
              \/ s.restored.revision = s.page.revision

\* Where the narration goes on when a navigation of it has settled; a chapter
\* asked for meanwhile does not move the page under it.
Settles(s) ==
    /\ s.voice.nav.open /\ s.voice.nav.settled /\ ~s.voice.pending =>
          s.page.at.chapter = s.voice.nav.target.chapter
    /\ s.asked.open /\ s.voice.nav.open /\ ~s.voice.nav.settled =>
         s.voice.request # Nowhere \/ (s.placing /\ s.voice.pending)
    /\ s.asked.open /\ ~s.asked.waits => ~s.voice.nav.open
    /\ s.voice.pending /\ s.initial = "done" => s.placing
    /\ s.asked.open /\ s.initial # "done" => s.placing

\* The page went to a chapter that is too large and has not said so yet.
Unsaid(s) ==
    s.voice.available /\ ~s.voice.pending /\ s.page.status # "render"

ToBeSaid(s) ==
    Unsaid(s) => /\ ~s.voice.nav.open
                 /\ s.saving # 0 /\ s.saving = s.page.revision
                 /\ s.handled # s.page.revision

Good(s) == Calm(s) /\ Coming(s) /\ Settles(s) /\ ToBeSaid(s)

IInv == Good(State) /\ (Unsaid(State) => SyncCommitDue)

-----------------------------------------------------------------------------
(* The handlers of the page keep it *)

LEMMA SuspendResume ==
    ASSUME NEW s \in States, NEW owner \in Owners
    PROVE  /\ Suspend(s, owner) \in States /\ Resume(s, owner) \in States
           /\ KeepsPage(s, Suspend(s, owner)) /\ KeepsPage(s, Resume(s, owner))
           /\ Suspend(s, owner).placing = s.placing
           /\ Resume(s, owner).placing = s.placing
           /\ Suspend(s, owner).highlight = s.highlight
           /\ Resume(s, owner).highlight = s.highlight
           /\ Suspend(s, owner).voice = s.voice
           /\ Resume(s, owner).voice = s.voice
           /\ Suspend(s, owner).held = s.held \cup {owner}
           /\ Resume(s, owner).held = s.held \ {owner}
BY DEF States, Suspend, Resume, KeepsPage

\* completeInitialRestoration
LEMMA CompleteInitial ==
    ASSUME NEW s, Calm(s), NEW status \in {"superseded", "settled", "unavailable"}
    PROVE  LET t == completeInitialRestoration(s, status) IN
           /\ Calm(t) /\ t.initial = "done"
           /\ t.page = s.page /\ t.shown = s.shown /\ t.mounted = s.mounted
           /\ t.handled = s.handled /\ t.asked = s.asked /\ t.saving = s.saving
           /\ t.restorer = s.restorer /\ t.restored = s.restored
           /\ "navigation" \in t.held <=> "navigation" \in s.held
           /\ s.initial = "done" => t = s
           /\ status = "superseded" => t.voice = s.voice /\ t.placing = s.placing
           /\ t.voice.speaks => s.voice.speaks
           /\ s.initial # "done" => ~t.voice.nav.open /\ ~Unsaid(t)
           /\ s.initial # "done" /\ status # "superseded" => ~t.voice.pending
<1>0. CASE s.initial = "done"
  BY <1>0 DEF completeInitialRestoration
<1> SUFFICES ASSUME s.initial # "done"
             PROVE  LET t == completeInitialRestoration(s, status) IN
                    /\ Calm(t) /\ t.initial = "done"
                    /\ t.page = s.page /\ t.shown = s.shown /\ t.mounted = s.mounted
                    /\ t.handled = s.handled /\ t.asked = s.asked
                    /\ t.saving = s.saving
                    /\ t.restorer = s.restorer /\ t.restored = s.restored
                    /\ "navigation" \in t.held <=> "navigation" \in s.held
                    /\ status = "superseded" =>
                          t.voice = s.voice /\ t.placing = s.placing
                    /\ t.voice.speaks => s.voice.speaks
                    /\ ~t.voice.nav.open /\ ~Unsaid(t)
                    /\ status # "superseded" => ~t.voice.pending
  BY <1>0
<1> DEFINE c == [s EXCEPT !.initial = "done"]
           d == IF status = "superseded" THEN c
                ELSE settleReaderPlacement(c, status = "settled")
           e == Resume(d, "initial")
<1>1. completeInitialRestoration(s, status) = e
  BY DEF completeInitialRestoration
<1>2. /\ c \in States /\ c.page = s.page /\ c.shown = s.shown
      /\ c.mounted = s.mounted /\ c.handled = s.handled /\ c.initial = "done"
      /\ c.asked = s.asked /\ c.placing = s.placing /\ c.saving = s.saving
      /\ c.restorer = s.restorer /\ c.restored = s.restored
      /\ c.highlight = s.highlight /\ c.held = s.held /\ c.voice = s.voice
  BY DEF Calm, States
<1> HIDE DEF c
<1>3. /\ d \in States /\ KeepsPage(c, d)
      /\ \/ d = c
         \/ /\ ~d.voice.pending
            /\ \/ SpeaksOn(c, d) /\ d.voice.nav = c.voice.nav
               \/ Silenced(c, d)
      /\ status = "superseded" => d = c
      /\ status # "superseded" => ~d.voice.pending
  <2>1. CASE status = "superseded"
    BY <1>2, <2>1 DEF KeepsPage
  <2>2. CASE status = "settled"
    <3>1. d = settleReaderPlacement(c, TRUE)
      BY <2>2
    <3> QED BY <1>2, <2>2, <3>1, SettleThere
  <2>3. CASE status = "unavailable"
    <3>1. d = settleReaderPlacement(c, FALSE)
      BY <2>3
    <3> QED BY <1>2, <2>3, <3>1, SettleNowhere
  <2> QED BY <2>1, <2>2, <2>3
<1> HIDE DEF d
<1>4. /\ e \in States /\ KeepsPage(d, e) /\ e.placing = d.placing
      /\ e.highlight = d.highlight /\ e.voice = d.voice
      /\ e.held = d.held \ {"initial"}
  BY <1>3, SuspendResume DEF Owners
<1> HIDE DEF e
<1>5. Bounds(e) /\ Opening(e)
  BY <1>2, <1>3, <1>4 DEF Calm, Bounds, Opening, KeepsPage
<1>6. \/ e.highlight = s.highlight /\ e.held = s.held \ {"initial"}
      \/ e.highlight = NoHighlight /\ e.held = s.held \ {"initial", "highlight"}
  BY <1>2, <1>3, <1>4 DEF SpeaksOn, Silenced
<1>7. 0 \notin Huge
  BY PageAssumption
<1>8. /\ NoHighlight.at = Nowhere /\ Nowhere.chapter = 0 /\ ~NoHighlight.eligible
      /\ ~NoNavigation.open
  BY DEF NoHighlight, Nowhere, NoNavigation
<1>9. Places(e)
  BY <1>2, <1>3, <1>4, <1>6, <1>7, <1>8 DEF Calm, Places, KeepsPage
<1>10. Suspended(e)
  BY <1>2, <1>3, <1>4, <1>6, <1>8 DEF Calm, Suspended, KeepsPage
<1>11. ~s.voice.nav.open /\ ~s.voice.speaks /\ s.voice.request = Nowhere
  BY DEF Calm, Opening, Quiet
<1>12. Quiet(e) /\ ~e.voice.nav.open /\ (e.voice.speaks => s.voice.speaks)
  BY <1>2, <1>3, <1>4, <1>6, <1>8, <1>11 DEF Calm, Quiet, SpeaksOn, Silenced
<1>13. ~Unsaid(e)
  BY <1>2, <1>3, <1>4 DEF Calm, Opening, Unsaid, KeepsPage
<1> QED BY <1>1, <1>2, <1>3, <1>4, <1>5, <1>6, <1>9, <1>10, <1>12, <1>13
        DEF Calm, KeepsPage


\* What a notification does to the narration is no harm in a calm page.
LEMMA NotifyCalm ==
    ASSUME NEW s, Calm(s), s.initial = "done",
           NEW reason \in {"reflow", "navigation"},
           ~(reason = "reflow" /\ s.placing)
    PROVE  LET t == notifySettlement(s, reason) IN
           Calm(t) /\ (t.voice.speaks => s.voice.speaks)
<1> DEFINE t == notifySettlement(s, reason)
<1>1. /\ t \in States /\ KeepsPage(s, t) /\ ~t.voice.pending
      /\ \/ Silenced(s, t)
         \/ SpeaksOn(s, t) /\ t.voice.nav.open = s.voice.nav.open
  BY Notify DEF Calm
<1> HIDE DEF t
<1>2. /\ NoHighlight.at = Nowhere /\ Nowhere.chapter = 0 /\ ~NoHighlight.eligible
      /\ ~NoNavigation.open /\ 0 \notin Huge
  BY PageAssumption DEF NoHighlight, Nowhere, NoNavigation
<1>3. Bounds(t) /\ Opening(t)
  BY <1>1 DEF Calm, Bounds, Opening, KeepsPage
<1>4. Places(t) /\ Suspended(t)
  BY <1>1, <1>2 DEF Calm, Places, Suspended, KeepsPage, SpeaksOn, Silenced
<1>5. Quiet(t)
  BY <1>1, <1>2 DEF Calm, Quiet, SpeaksOn, Silenced
<1>6. t.voice.speaks => s.voice.speaks
  BY <1>1 DEF SpeaksOn, Silenced
<1> QED BY <1>1, <1>3, <1>4, <1>5, <1>6 DEF Calm, t

\* The place of a navigation is notified; a page too large is said to be so.
LEMMA NotifyGood ==
    ASSUME NEW s, Calm(s), s.initial = "done",
           s.asked.open /\ ~s.asked.waits => ~s.voice.nav.open
    PROVE  LET t == notifySettlement(s, "navigation") IN
           /\ Coming(t) /\ Settles(t) /\ ~Unsaid(t) /\ ~t.voice.pending
           /\ KeepsPage(s, t)
<1> DEFINE t == notifySettlement(s, "navigation")
<1>1. /\ KeepsPage(s, t) /\ ~t.voice.pending
      /\ t.voice.available => s.page.status = "render"
      /\ \/ Silenced(s, t)
         \/ /\ t.voice.nav.open = s.voice.nav.open
            /\ s.voice.nav.open =>
                  t.voice.nav.settled /\ t.voice.nav.target = s.page.at
  BY Notify DEF Calm
<1> HIDE DEF t
<1>2. ~NoNavigation.open
  BY DEF NoNavigation
<1>3. Settles(t)
  <2>1. CASE Silenced(s, t)
    BY <1>1, <1>2, <2>1 DEF Settles, Silenced, KeepsPage
  <2>2. CASE t.voice.nav.open = s.voice.nav.open /\ t.voice.nav.open
    BY <1>1, <1>2, <2>2 DEF Settles, KeepsPage, Silenced
  <2>3. CASE ~t.voice.nav.open
    BY <1>1, <2>3 DEF Settles, KeepsPage
  <2> QED BY <1>1, <2>1, <2>2, <2>3
<1>4. ~Unsaid(t) /\ Coming(t)
  BY <1>1 DEF Unsaid, Coming, KeepsPage
<1> QED BY <1>1, <1>3, <1>4 DEF t


\* finishProgrammaticNavigation: the placement of the last navigation is told.
LEMMA Finish ==
    ASSUME NEW s, Calm(s), s.initial = "done",
           s.asked.open /\ ~s.asked.waits => ~s.voice.nav.open
    PROVE  LET t == finishProgrammaticNavigation(s) IN
           /\ Calm(t) /\ (t.voice.speaks => s.voice.speaks)
           /\ t.page = s.page /\ t.shown = s.shown /\ t.mounted = s.mounted
           /\ t.handled = s.handled /\ t.initial = s.initial /\ t.asked = s.asked
           /\ t.restorer = s.restorer /\ t.restored = s.restored
           /\ IF s.saving # 0 /\ s.saving = s.page.revision
              THEN /\ ~t.voice.pending /\ ~Unsaid(t) /\ t.saving = 0
                   /\ Coming(t) /\ Settles(t)
              ELSE /\ t.voice = s.voice /\ t.placing = s.placing
                   /\ t.highlight = s.highlight /\ t.saving = s.saving
<1> DEFINE c == [s EXCEPT !.saving = 0]
           d == notifySettlement(c, "navigation")
           e == IF s.saving # 0 /\ s.saving = s.page.revision THEN d ELSE s
           t == Resume(e, "navigation")
<1>1. finishProgrammaticNavigation(s) = t
  BY DEF finishProgrammaticNavigation
<1>2. /\ c \in States /\ c.page = s.page /\ c.shown = s.shown
      /\ c.mounted = s.mounted /\ c.handled = s.handled /\ c.initial = s.initial
      /\ c.asked = s.asked /\ c.placing = s.placing /\ c.saving = 0
      /\ c.restorer = s.restorer /\ c.restored = s.restored
      /\ c.highlight = s.highlight /\ c.held = s.held /\ c.voice = s.voice
  BY DEF Calm, States
<1> HIDE DEF c
<1>3. Calm(c)
  BY <1>2 DEF Calm, Bounds, Places, Suspended, Quiet, Opening
<1>4. /\ Calm(d) /\ Coming(d) /\ Settles(d) /\ ~Unsaid(d) /\ ~d.voice.pending
      /\ KeepsPage(c, d) /\ (d.voice.speaks => c.voice.speaks)
  BY <1>2, <1>3, NotifyCalm, NotifyGood
<1> HIDE DEF d
<1>5. e \in States
  BY <1>4 DEF Calm
<1>6. /\ t \in States /\ KeepsPage(e, t) /\ t.placing = e.placing
      /\ t.highlight = e.highlight /\ t.voice = e.voice
      /\ t.held = e.held \ {"navigation"}
  <2> HIDE DEF e
  <2> QED BY <1>5, SuspendResume DEF Owners
<1>7. Calm(e)
  BY <1>4
<1> HIDE DEF t
<1>8. Calm(t)
  <2> HIDE DEF e
  <2> QED BY <1>6, <1>7 DEF Calm, Bounds, Places, Suspended, Quiet, Opening,
                            KeepsPage
<1>9. CASE s.saving # 0 /\ s.saving = s.page.revision
  <2>1. e = d
    BY <1>9
  <2>2. Coming(t) /\ Settles(t) /\ ~Unsaid(t) /\ ~t.voice.pending
    BY <1>4, <1>6, <2>1 DEF Coming, Settles, Unsaid, KeepsPage
  <2> QED BY <1>1, <1>2, <1>4, <1>6, <1>8, <1>9, <2>1, <2>2 DEF KeepsPage
<1>10. CASE ~(s.saving # 0 /\ s.saving = s.page.revision)
  <2>1. e = s
    BY <1>10
  <2> QED BY <1>1, <1>6, <1>8, <1>10, <2>1 DEF KeepsPage
<1> QED BY <1>9, <1>10

\* What is finished is as good as it was, and nothing is left unsaid.
LEMMA FinishGood ==
    ASSUME NEW s, Good(s), s.initial = "done"
    PROVE  LET t == finishProgrammaticNavigation(s) IN
           /\ Good(t) /\ ~Unsaid(t) /\ (t.voice.speaks => s.voice.speaks)
           /\ t.page = s.page /\ t.shown = s.shown /\ t.asked = s.asked
           /\ t.initial = s.initial
<1> DEFINE t == finishProgrammaticNavigation(s)
<1>1. /\ Calm(t) /\ (t.voice.speaks => s.voice.speaks)
      /\ t.page = s.page /\ t.shown = s.shown /\ t.mounted = s.mounted
      /\ t.handled = s.handled /\ t.initial = s.initial /\ t.asked = s.asked
      /\ t.restorer = s.restorer /\ t.restored = s.restored
      /\ IF s.saving # 0 /\ s.saving = s.page.revision
         THEN /\ ~t.voice.pending /\ ~Unsaid(t) /\ t.saving = 0
              /\ Coming(t) /\ Settles(t)
         ELSE /\ t.voice = s.voice /\ t.placing = s.placing
              /\ t.highlight = s.highlight /\ t.saving = s.saving
  BY Finish DEF Good, Settles
<1> HIDE DEF t
<1>2. CASE s.saving # 0 /\ s.saving = s.page.revision
  BY <1>1, <1>2 DEF Good, ToBeSaid, t
<1>3. CASE ~(s.saving # 0 /\ s.saving = s.page.revision)
  <2>1. Coming(t) /\ Settles(t) /\ ~Unsaid(t)
    BY <1>1, <1>3 DEF Good, Coming, Settles, ToBeSaid, Unsaid
  <2> QED BY <1>1, <2>1 DEF Good, ToBeSaid, t
<1> QED BY <1>2, <1>3

\* navigate: to a chapter that is rendered, to one that is too large, or not.
LEMMA Navigating ==
    ASSUME NEW s \in States, NEW to \in Locators
    PROVE  LET t == navigate(s, to) IN
           /\ t \in States
           /\ t.shown = s.shown /\ t.mounted = s.mounted /\ t.handled = s.handled
           /\ t.initial = s.initial /\ t.asked = s.asked /\ t.placing = s.placing
           /\ t.saving = s.saving /\ t.restorer = s.restorer
           /\ t.restored = s.restored /\ t.highlight = s.highlight
           /\ t.held = s.held /\ t.voice = s.voice
           /\ t.page.revision = s.page.revision + 1
           /\ IF to.chapter \in Huge
              THEN t.page.status = "chapter-too-large" /\ t.page.at = s.page.at
              ELSE t.page.status = "render" /\ t.page.at = to
<1>1. to # Nowhere
  BY PageAssumption DEF Locators, Nowhere
<1>2. CASE to.chapter \in Huge
  <2>1. s.page.revision + 1 \in Nat
    BY DEF States, Pages
  <2> QED BY <1>1, <1>2, <2>1 DEF navigate, States, Pages, Statuses
<1>3. CASE to.chapter \notin Huge
  BY <1>1, <1>3 DEF navigate, States, Pages, Statuses
<1> QED BY <1>2, <1>3


LEMMA Cancel ==
    ASSUME NEW s, Calm(s)
    PROVE  LET t == cancel(s) IN
           /\ Calm(t)
           /\ t.page = s.page /\ t.shown = s.shown /\ t.mounted = s.mounted
           /\ t.handled = s.handled /\ t.initial = s.initial /\ t.asked = s.asked
           /\ t.placing = s.placing /\ t.saving = s.saving
           /\ t.restorer = NoRestoration /\ t.restored = s.restored
           /\ t.highlight = s.highlight /\ t.voice = s.voice
           /\ t.held = s.held \ {"reflow"}
<1> DEFINE t == cancel(s)
<1>1. /\ t \in States
      /\ t.page = s.page /\ t.shown = s.shown /\ t.mounted = s.mounted
      /\ t.handled = s.handled /\ t.initial = s.initial /\ t.asked = s.asked
      /\ t.placing = s.placing /\ t.saving = s.saving
      /\ t.restorer = NoRestoration /\ t.restored = s.restored
      /\ t.highlight = s.highlight /\ t.voice = s.voice
      /\ t.held = s.held \ {"reflow"}
  BY NothingTyped DEF Calm, States, cancel, Resume
<1>2. NoRestoration.reason = "none"
  BY DEF NoRestoration
<1> HIDE DEF t
<1>3. Calm(t)
  BY <1>1, <1>2 DEF Calm, Bounds, Places, Suspended, Quiet, Opening
<1> QED BY <1>1, <1>3 DEF t

\* continueNavigation: the page goes there and what waits is answered when it
\* has come, or is answered at once.
LEMMA ContinueGood ==
    ASSUME NEW s, Calm(s), NEW to \in Somewhere,
           to # Nowhere /\ s.voice.nav.open => s.voice.pending,
           s.voice.pending => s.placing
    PROVE  LET t == continueNavigation(s, to) IN
           /\ Good(t) /\ ~t.asked.open /\ (t.voice.speaks => s.voice.speaks)
           /\ Unsaid(t) => t.shown.revision # t.page.revision
           /\ to \in Locators /\ to # Nowhere =>
                 \/ t.page.at = to
                 \/ to.chapter \in Huge /\ t.page.status = "chapter-too-large"
<1> DEFINE b == cancel(s)
           c == completeInitialRestoration(b, "superseded")
           d == Resume(c, "navigation")
           e == Suspend(d, "navigation")
           f == [e EXCEPT !.asked = NotAsked, !.saving = e.page.revision + 1]
           g == navigate(f, to)
           h == [g EXCEPT !.saving = 0]
           k == finishProgrammaticNavigation(h)
<1>1. continueNavigation(s, to) =
        IF g.page.revision # e.page.revision THEN g
        ELSE notifySettlement(k, "navigation")
  BY DEF continueNavigation
<1>2. /\ Calm(b)
      /\ b.page = s.page /\ b.shown = s.shown /\ b.handled = s.handled
      /\ b.restorer = NoRestoration /\ b.voice = s.voice /\ b.placing = s.placing
  BY Cancel
<1> HIDE DEF b
<1>3. /\ Calm(c) /\ c.initial = "done"
      /\ c.page = s.page /\ c.shown = s.shown /\ c.handled = s.handled
      /\ c.restorer = NoRestoration /\ c.voice = s.voice /\ c.placing = s.placing
  BY <1>2, CompleteInitial
<1> HIDE DEF c
<1>4. /\ d \in States /\ KeepsPage(c, d)
      /\ d.highlight = c.highlight /\ d.voice = c.voice /\ d.placing = c.placing
      /\ d.held = c.held \ {"navigation"}
  BY <1>3, SuspendResume DEF Owners, Calm
<1> HIDE DEF d
<1>5. /\ e \in States /\ KeepsPage(d, e)
      /\ e.highlight = d.highlight /\ e.voice = d.voice /\ e.placing = d.placing
      /\ e.held = d.held \cup {"navigation"}
  BY <1>4, SuspendResume DEF Owners
<1> HIDE DEF e
<1>6. /\ f \in States /\ f.page = s.page /\ f.shown = s.shown
      /\ f.handled = s.handled /\ f.initial = "done" /\ ~f.asked.open
      /\ f.saving = s.page.revision + 1
      /\ f.restorer = NoRestoration /\ f.restored = c.restored
      /\ f.highlight = c.highlight /\ f.voice = s.voice /\ f.placing = s.placing
      /\ f.held = c.held \cup {"navigation"}
  <2>1. /\ e.page = s.page /\ e.shown = s.shown /\ e.handled = s.handled
        /\ e.initial = "done" /\ e.restorer = NoRestoration
        /\ e.restored = c.restored /\ e.highlight = c.highlight
        /\ e.voice = s.voice /\ e.held = c.held \cup {"navigation"}
        /\ e.placing = s.placing
    BY <1>3, <1>4, <1>5 DEF KeepsPage
  <2>2. e.page.revision + 1 \in Nat
    BY <1>5 DEF States, Pages
  <2>3. NotAsked \in Asked /\ ~NotAsked.open
    BY NothingTyped DEF NotAsked
  <2> QED BY <1>5, <2>1, <2>2, <2>3 DEF States
<1> HIDE DEF f
<1>7. /\ s.page.revision \in Nat /\ s.shown.revision \in Nat
      /\ s.shown.revision <= s.page.revision /\ s.handled \in Nat
      /\ s.handled <= s.page.revision
  BY DEF Calm, States, Pages, Frames, Bounds
<1>8. \A x \in States :
        /\ \/ x.page = s.page
           \/ /\ x.page.revision = s.page.revision + 1
              /\ x.page.status = "render" => x.page.at.chapter \notin Huge
        /\ x.shown = s.shown /\ x.handled = s.handled /\ x.initial = "done"
        /\ x.saving \in {0, x.page.revision}
        /\ x.restorer = NoRestoration /\ x.restored = c.restored
        /\ x.highlight = c.highlight /\ x.voice = s.voice
        /\ x.held = c.held \cup {"navigation"}
        => Calm(x)
  BY <1>3, <1>7 DEF Calm, Bounds, Places, Suspended, Quiet, Opening
<1>9. CASE to # Nowhere
  <2>1. to \in Locators
    BY <1>9 DEF Somewhere
  <2>2. /\ g \in States
        /\ g.shown = f.shown /\ g.handled = f.handled
        /\ g.initial = f.initial /\ g.asked = f.asked
        /\ g.saving = f.saving /\ g.restorer = f.restorer
        /\ g.restored = f.restored /\ g.highlight = f.highlight
        /\ g.held = f.held /\ g.voice = f.voice /\ g.placing = f.placing
        /\ g.page.revision = f.page.revision + 1
        /\ IF to.chapter \in Huge
           THEN g.page.status = "chapter-too-large" /\ g.page.at = f.page.at
           ELSE g.page.status = "render" /\ g.page.at = to
    BY <1>6, <2>1, Navigating
  <2> HIDE DEF g
  <2>3. Calm(g)
    BY <1>6, <1>8, <2>2
  <2>4. /\ g.saving # 0 /\ g.saving = g.page.revision /\ "navigation" \in g.held
        /\ g.handled # g.page.revision /\ g.shown.revision # g.page.revision
    BY <1>6, <1>7, <2>2
  <2>5. Coming(g) /\ ToBeSaid(g) /\ Settles(g)
    BY <1>6, <1>9, <2>2, <2>4 DEF Coming, ToBeSaid, Unsaid, Settles
  <2>6. continueNavigation(s, to) = g
    BY <1>1, <1>3, <1>4, <1>5, <1>6, <1>7, <2>2 DEF KeepsPage
  <2> QED BY <1>6, <2>2, <2>3, <2>4, <2>5, <2>6 DEF Good
<1>10. CASE to = Nowhere
  <2>1. g = f
    BY <1>10 DEF navigate
  <2>2. /\ h \in States /\ h.page = s.page /\ h.shown = s.shown
        /\ h.handled = s.handled /\ h.initial = "done" /\ ~h.asked.open
        /\ h.saving = 0
        /\ h.restorer = NoRestoration /\ h.restored = c.restored
        /\ h.highlight = c.highlight /\ h.voice = s.voice
        /\ h.held = c.held \cup {"navigation"}
    <3> HIDE DEF g
    <3> QED BY <1>6, <2>1 DEF States
  <2>3. continueNavigation(s, to) = notifySettlement(k, "navigation")
    BY <1>1, <1>3, <1>4, <1>5, <1>6, <2>1 DEF KeepsPage
  <2> HIDE DEF g, h
  <2>4. Calm(h)
    BY <1>8, <2>2
  <2>5. /\ Calm(k) /\ k.initial = "done" /\ ~k.asked.open /\ k.saving = 0
        /\ k.voice.speaks => s.voice.speaks
    BY <2>2, <2>4, Finish
  <2> HIDE DEF k
  <2> DEFINE t == notifySettlement(k, "navigation")
  <2>6. /\ Calm(t) /\ Coming(t) /\ Settles(t) /\ ~Unsaid(t) /\ KeepsPage(k, t)
        /\ t.voice.speaks => k.voice.speaks
    BY <2>5, NotifyCalm, NotifyGood
  <2> HIDE DEF t
  <2>7. Good(t) /\ ~Unsaid(t) /\ ~t.asked.open /\ (t.voice.speaks => s.voice.speaks)
    BY <2>5, <2>6 DEF Good, ToBeSaid, KeepsPage
  <2> QED BY <1>10, <2>3, <2>7 DEF t
<1> QED BY <1>9, <1>10


\* What of a chapter too large is still to be said, was.
Tells(s, t) ==
    Unsaid(t) => /\ Unsaid(s) /\ t.shown = s.shown
                 /\ t.page.revision = s.page.revision
                 /\ t.page.status = s.page.status

LEMMA CancelFields ==
    ASSUME NEW s \in States
    PROVE  LET t == cancel(s) IN
           /\ t \in States
           /\ t.page = s.page /\ t.shown = s.shown /\ t.mounted = s.mounted
           /\ t.handled = s.handled /\ t.initial = s.initial /\ t.asked = s.asked
           /\ t.placing = s.placing /\ t.saving = s.saving
           /\ t.restorer = NoRestoration /\ t.restored = s.restored
           /\ t.highlight = s.highlight /\ t.voice = s.voice
           /\ t.held = s.held \ {"reflow"}
BY NothingTyped DEF States, cancel, Resume

\* navigateToLocator, from a page that is in place: it goes there and that is
\* handled, or the run is given up.
LEMMA VoiceNavigates ==
    ASSUME NEW s \in States, NEW to \in Locators, s.initial = "done"
    PROVE  LET t == navigateToLocator(s, to) IN
           /\ t \in States
           /\ t.shown = s.shown /\ t.mounted = s.mounted
           /\ t.initial = "done" /\ t.asked = s.asked
           /\ t.page.revision = s.page.revision + 1
           /\ t.handled = t.page.revision /\ t.saving = 0
           /\ t.restorer = NoRestoration /\ t.restored = s.restored
           /\ IF to.chapter \in Huge
              THEN /\ t.page.status = "chapter-too-large"
                   /\ ~t.voice.pending /\ ~t.voice.available
                   /\ t.highlight = NoHighlight
                   /\ t.held = s.held \ {"reflow", "highlight"}
                   /\ t.voice.intent = "inactive" /\ ~t.voice.speaks
                   /\ t.voice.request = Nowhere /\ t.voice.nav = NoNavigation
              ELSE /\ t.page.status = "render" /\ t.page.at = to
                   /\ t.highlight = s.highlight /\ t.voice = s.voice
                   /\ t.held = s.held \ {"reflow"} /\ t.placing = s.placing
<1> DEFINE b == cancel(s)
           c == [b EXCEPT !.saving = 0]
           d == navigate(c, to)
           e == [d EXCEPT !.handled = d.page.revision]
           t == notifySettlement(e, "navigation")
<1>1. /\ b \in States
      /\ b.page = s.page /\ b.shown = s.shown /\ b.mounted = s.mounted
      /\ b.handled = s.handled /\ b.initial = "done" /\ b.asked = s.asked
      /\ b.placing = s.placing
      /\ b.restorer = NoRestoration /\ b.restored = s.restored
      /\ b.highlight = s.highlight /\ b.voice = s.voice
      /\ b.held = s.held \ {"reflow"}
  BY CancelFields
<1>2. completeInitialRestoration(b, "superseded") = b
  BY <1>1 DEF completeInitialRestoration
<1>3. navigateToLocator(s, to) =
        IF e.page.status = "chapter-too-large" THEN t ELSE e
  BY <1>2 DEF navigateToLocator
<1> HIDE DEF b
<1>4. /\ c \in States
      /\ c.page = s.page /\ c.shown = s.shown /\ c.mounted = s.mounted
      /\ c.initial = "done" /\ c.asked = s.asked
      /\ c.placing = s.placing /\ c.saving = 0
      /\ c.restorer = NoRestoration /\ c.restored = s.restored
      /\ c.highlight = s.highlight /\ c.voice = s.voice
      /\ c.held = s.held \ {"reflow"}
  BY <1>1 DEF States
<1> HIDE DEF c
<1>5. /\ d \in States
      /\ d.shown = c.shown /\ d.mounted = c.mounted
      /\ d.initial = c.initial /\ d.asked = c.asked /\ d.placing = c.placing
      /\ d.saving = c.saving /\ d.restorer = c.restorer
      /\ d.restored = c.restored /\ d.highlight = c.highlight
      /\ d.held = c.held /\ d.voice = c.voice
      /\ d.page.revision = c.page.revision + 1
      /\ IF to.chapter \in Huge
         THEN d.page.status = "chapter-too-large" /\ d.page.at = c.page.at
         ELSE d.page.status = "render" /\ d.page.at = to
  BY <1>4, Navigating
<1> HIDE DEF d
<1>6. /\ e \in States
      /\ e.page = d.page /\ e.shown = s.shown /\ e.mounted = s.mounted
      /\ e.initial = "done" /\ e.asked = s.asked /\ e.placing = s.placing
      /\ e.handled = e.page.revision
      /\ e.saving = 0 /\ e.restorer = NoRestoration
      /\ e.restored = s.restored /\ e.highlight = s.highlight
      /\ e.held = s.held \ {"reflow"} /\ e.voice = s.voice
  <2>1. d.page.revision \in Nat
    BY <1>5 DEF States, Pages
  <2> QED BY <1>4, <1>5, <2>1 DEF States
<1> HIDE DEF e
<1>7. CASE to.chapter \in Huge
  <2>1. e.page.status = "chapter-too-large"
    BY <1>5, <1>6, <1>7
  <2>2. /\ t \in States /\ KeepsPage(e, t)
        /\ ~t.voice.pending /\ ~t.voice.available /\ Silenced(e, t)
    <3>1. /\ t \in States /\ KeepsPage(e, t) /\ ~t.voice.pending
          /\ t.voice.available => e.page.status = "render"
          /\ e.page.status # "render" => Silenced(e, t)
      BY <1>6, Notify
    <3> QED BY <2>1, <3>1 DEF States, Voices
  <2> HIDE DEF t
  <2> QED BY <1>3, <1>4, <1>5, <1>6, <1>7, <2>1, <2>2 DEF KeepsPage, Silenced
<1>8. CASE to.chapter \notin Huge
  <2>1. navigateToLocator(s, to) = e
    BY <1>3, <1>5, <1>6, <1>8
  <2> QED BY <1>4, <1>5, <1>6, <1>8, <2>1
<1> QED BY <1>7, <1>8

\* settleActive: the page is where the voice is, when that is in its chapter.
LEMMA SettleFields ==
    ASSUME NEW s \in States, NEW at \in Locators
    PROVE  LET t == settleActive(s, at) IN
           /\ t \in States
           /\ t.page.revision = s.page.revision /\ t.page.status = s.page.status
           /\ t.page.at.chapter = s.page.at.chapter
           /\ t.shown = s.shown /\ t.mounted = s.mounted /\ t.handled = s.handled
           /\ t.initial = s.initial /\ t.asked = s.asked /\ t.placing = s.placing
           /\ t.saving = s.saving /\ t.restored = s.restored
           /\ t.highlight = s.highlight /\ t.voice = s.voice
           /\ \/ t.restorer = s.restorer /\ t.held = s.held \ {"highlight"}
              \/ /\ t.restorer = NoRestoration
                 /\ t.held = s.held \ {"reflow", "highlight"}
<1> DEFINE c == IF s.page.at = at THEN s ELSE cancel(s)
           d == updateActiveVisualLocator(c, at)
           t == Resume(d, "highlight")
<1>1. settleActive(s, at) = t
  BY DEF settleActive, settleLocator
<1>2. /\ c \in States
      /\ c.page = s.page /\ c.shown = s.shown /\ c.mounted = s.mounted
      /\ c.handled = s.handled /\ c.initial = s.initial /\ c.asked = s.asked
      /\ c.placing = s.placing /\ c.saving = s.saving
      /\ c.restored = s.restored
      /\ c.highlight = s.highlight /\ c.voice = s.voice
      /\ \/ c.restorer = s.restorer /\ c.held = s.held
         \/ c.restorer = NoRestoration /\ c.held = s.held \ {"reflow"}
  BY CancelFields
<1> HIDE DEF c
<1>3. /\ d \in States
      /\ d.page.revision = c.page.revision /\ d.page.status = c.page.status
      /\ d.page.at.chapter = c.page.at.chapter
      /\ d.shown = c.shown /\ d.mounted = c.mounted
      /\ d.handled = c.handled /\ d.initial = c.initial /\ d.asked = c.asked
      /\ d.placing = c.placing /\ d.saving = c.saving
      /\ d.restorer = c.restorer /\ d.restored = c.restored
      /\ d.highlight = c.highlight /\ d.voice = c.voice /\ d.held = c.held
  BY <1>2 DEF updateActiveVisualLocator, States, Pages
<1> HIDE DEF d
<1>4. /\ t \in States /\ KeepsPage(d, t) /\ t.placing = d.placing
      /\ t.highlight = d.highlight /\ t.voice = d.voice
      /\ t.held = d.held \ {"highlight"}
  BY <1>3, SuspendResume DEF Owners
<1> HIDE DEF t
<1> QED BY <1>1, <1>2, <1>3, <1>4 DEF KeepsPage

\* What is settled where it is said is good, when nothing else is settling.
LEMMA SettleGood ==
    ASSUME NEW s, Good(Resume(s, "highlight")), NEW at \in Locators,
           s \in States, ~s.voice.pending, ~s.voice.nav.open
    PROVE  LET t == settleActive(s, at) IN
           /\ Good(t) /\ Tells(s, t) /\ t.asked = s.asked
           /\ t.voice.speaks = s.voice.speaks
<1> DEFINE r == Resume(s, "highlight")
           t == settleActive(s, at)
<1>1. /\ KeepsPage(s, r) /\ r.placing = s.placing
      /\ r.highlight = s.highlight /\ r.voice = s.voice
      /\ r.held = s.held \ {"highlight"}
  BY SuspendResume DEF Owners
<1>2. /\ t \in States
      /\ t.page.revision = s.page.revision /\ t.page.status = s.page.status
      /\ t.page.at.chapter = s.page.at.chapter
      /\ t.shown = s.shown /\ t.mounted = s.mounted /\ t.handled = s.handled
      /\ t.initial = s.initial /\ t.asked = s.asked /\ t.placing = s.placing
      /\ t.saving = s.saving /\ t.restored = s.restored
      /\ t.highlight = s.highlight /\ t.voice = s.voice
      /\ \/ t.restorer = s.restorer /\ t.held = s.held \ {"highlight"}
         \/ /\ t.restorer = NoRestoration
            /\ t.held = s.held \ {"reflow", "highlight"}
  BY SettleFields
<1>3. Good(r)
  OBVIOUS
<1> HIDE DEF r, t
<1>4. NoRestoration.reason = "none"
  BY DEF NoRestoration
<1>5. Calm(t)
  BY <1>1, <1>2, <1>3, <1>4
     DEF Good, Calm, Bounds, Places, Suspended, Quiet, Opening, KeepsPage
<1>6. Coming(t) /\ Settles(t) /\ ToBeSaid(t) /\ Tells(s, t)
  BY <1>1, <1>2, <1>3
     DEF Good, Coming, Settles, ToBeSaid, Unsaid, Tells, KeepsPage
<1> QED BY <1>2, <1>5, <1>6 DEF Good, t


\* A segment the page has been asked for: it is waited for, or its chapter is
\* opened.
LEMMA MissingGood ==
    ASSUME NEW s, Good(s), s.highlight.eligible
    PROVE  LET t == Missing(s) IN
           /\ Good(t) /\ Tells(s, t) /\ t.asked = s.asked
           /\ t.voice.speaks => s.voice.speaks
<1> DEFINE c == [s EXCEPT !.highlight.requested = TRUE]
           w == Suspend(c, "highlight")
           t == Missing(s)
<1>1. s \in States /\ ~s.voice.pending /\ ~s.voice.nav.open
  BY DEF Good, Calm, Quiet
<1>2. /\ c \in States /\ KeepsPage(s, c) /\ c.placing = s.placing
      /\ c.voice = s.voice /\ c.held = s.held
      /\ c.highlight.at = s.highlight.at /\ c.highlight.eligible
      /\ c.highlight.requested
  BY <1>1 DEF States, Highlights, KeepsPage
<1> HIDE DEF c
<1>3. /\ w \in States /\ KeepsPage(c, w) /\ w.placing = c.placing
      /\ w.voice = c.voice /\ w.held = c.held \cup {"highlight"}
      /\ w.highlight = c.highlight
  BY <1>2, SuspendResume DEF Owners
<1> HIDE DEF w
<1>4. /\ w.page = s.page /\ w.shown = s.shown /\ w.mounted = s.mounted
      /\ w.handled = s.handled /\ w.initial = s.initial /\ w.asked = s.asked
      /\ w.saving = s.saving /\ w.restorer = s.restorer
      /\ w.restored = s.restored /\ w.placing = s.placing
      /\ w.voice = s.voice /\ w.held = s.held \cup {"highlight"}
      /\ w.highlight.at = s.highlight.at /\ w.highlight.eligible
      /\ w.highlight.requested
  BY <1>2, <1>3 DEF KeepsPage
<1>5. CASE s.highlight.requested
  <2>1. t = w
    BY <1>5 DEF Missing, w, c
  <2>2. Calm(w)
    BY <1>3, <1>4 DEF Good, Calm, Bounds, Places, Suspended, Quiet, Opening
  <2>3. Coming(w) /\ Settles(w) /\ ToBeSaid(w) /\ Tells(s, w)
    BY <1>4 DEF Good, Coming, Settles, ToBeSaid, Unsaid, Tells
  <2> QED BY <1>4, <2>1, <2>2, <2>3 DEF Good
<1>6. CASE ~s.highlight.requested
  <2>1. t = navigateToLocator(w, s.highlight.at)
    BY <1>6 DEF Missing, w, c
  <2>2. /\ s.highlight.at \in Locators /\ s.highlight.at.chapter \notin Huge
        /\ s.initial = "done"
    BY <1>1 DEF Good, Calm, Places, Opening, States, Highlights, Somewhere
  <2>3. /\ t \in States
        /\ t.shown = w.shown /\ t.mounted = w.mounted
        /\ t.initial = "done" /\ t.asked = w.asked
        /\ t.page.revision = w.page.revision + 1
        /\ t.handled = t.page.revision /\ t.saving = 0
        /\ t.restorer = NoRestoration /\ t.restored = w.restored
        /\ t.page.status = "render" /\ t.page.at = s.highlight.at
        /\ t.highlight = w.highlight /\ t.voice = w.voice
        /\ t.held = w.held \ {"reflow"} /\ t.placing = w.placing
    BY <1>3, <1>4, <2>1, <2>2, VoiceNavigates
  <2> HIDE DEF t
  <2>4. /\ s.page.revision \in Nat /\ s.shown.revision \in Nat
        /\ s.shown.revision <= s.page.revision
    BY DEF Good, Calm, States, Pages, Frames, Bounds
  <2>5. NoRestoration.reason = "none"
    BY DEF NoRestoration
  <2>6. Bounds(t) /\ Opening(t)
    BY <1>4, <2>3, <2>4 DEF Bounds, Opening
  <2>7. Places(t) /\ Suspended(t) /\ Quiet(t)
    BY <1>4, <2>2, <2>3, <2>5 DEF Good, Calm, Places, Suspended, Quiet
  <2>8. Coming(t) /\ Settles(t) /\ ~Unsaid(t)
    BY <1>1, <1>4, <2>3 DEF Coming, Settles, Unsaid
  <2> QED BY <1>4, <2>3, <2>6, <2>7, <2>8 DEF Good, Calm, ToBeSaid, Tells, t
<1> QED BY <1>5, <1>6

\* refresh, of a segment in a chapter that is rendered.
LEMMA RefreshGood ==
    ASSUME NEW s, Good(s), NEW t \in Refreshed(s)
    PROVE  /\ Good(t) /\ Tells(s, t) /\ t.asked = s.asked
           /\ t.voice.speaks => s.voice.speaks
<1>1. CASE ~s.highlight.eligible
  BY <1>1 DEF Refreshed, Tells
<1>2. CASE s.highlight.eligible
  <2> DEFINE c == [s EXCEPT !.highlight.frame = TRUE]
             f == Suspend(c, "highlight")
  <2>1. t \in {settleActive(s, s.highlight.at), f, Missing(s)}
    BY <1>2 DEF Refreshed
  <2>2. s \in States /\ ~s.voice.pending /\ ~s.voice.nav.open
    BY <1>2 DEF Good, Calm, Quiet
  <2>3. CASE t = settleActive(s, s.highlight.at)
    <3> DEFINE r == Resume(s, "highlight")
    <3>1. /\ r \in States /\ KeepsPage(s, r) /\ r.placing = s.placing
          /\ r.highlight = s.highlight /\ r.voice = s.voice
          /\ r.held = s.held \ {"highlight"}
      BY <2>2, SuspendResume DEF Owners
    <3> HIDE DEF r
    <3>2. Calm(r)
      BY <3>1 DEF Good, Calm, Bounds, Places, Suspended, Quiet, Opening,
                  KeepsPage
    <3>3. Coming(r) /\ Settles(r) /\ ToBeSaid(r)
      BY <3>1 DEF Good, Coming, Settles, ToBeSaid, Unsaid, KeepsPage
    <3>4. s.highlight.at \in Locators
      BY <1>2, <2>2 DEF Good, Calm, Places, States, Highlights, Somewhere
    <3> QED BY <2>2, <2>3, <3>2, <3>3, <3>4, SettleGood DEF Good, r
  <2>4. CASE t = f
    <3>1. /\ c \in States /\ KeepsPage(s, c) /\ c.placing = s.placing
          /\ c.voice = s.voice /\ c.held = s.held
          /\ c.highlight.at = s.highlight.at /\ c.highlight.eligible
          /\ c.highlight.frame
      BY <1>2, <2>2 DEF States, Highlights, KeepsPage
    <3> HIDE DEF c
    <3>2. /\ f \in States /\ KeepsPage(c, f) /\ f.placing = c.placing
          /\ f.voice = c.voice /\ f.held = c.held \cup {"highlight"}
          /\ f.highlight = c.highlight
      BY <3>1, SuspendResume DEF Owners
    <3> HIDE DEF f
    <3>3. Calm(f)
      BY <1>2, <2>2, <3>1, <3>2
         DEF Good, Calm, Bounds, Places, Suspended, Quiet, Opening, KeepsPage
    <3>4. Coming(f) /\ Settles(f) /\ ToBeSaid(f) /\ Tells(s, f)
      BY <2>2, <3>1, <3>2 DEF Good, Coming, Settles, ToBeSaid, Unsaid, Tells,
                              KeepsPage
    <3> QED BY <2>4, <3>1, <3>2, <3>3, <3>4 DEF Good, KeepsPage
  <2>5. CASE t = Missing(s)
    BY <1>2, <2>5, MissingGood
  <2> QED BY <2>1, <2>3, <2>4, <2>5
<1> QED BY <1>1, <1>2

\* preserve: what is kept in place is somewhere.
LEMMA PreserveFields ==
    ASSUME NEW s \in States, NEW at \in Locators,
           NEW reason \in {"restoration", "preference", "viewport"}
    PROVE  LET t == preserve(s, at, reason) IN
           /\ t \in States
           /\ t.page = s.page /\ t.shown = s.shown /\ t.mounted = s.mounted
           /\ t.handled = s.handled /\ t.initial = s.initial /\ t.asked = s.asked
           /\ t.placing = s.placing /\ t.saving = s.saving
           /\ t.restorer.at = at /\ t.restorer.reason = reason
           /\ t.restorer # NoRestoration
           /\ t.restored = s.restored
           /\ t.highlight = s.highlight /\ t.voice = s.voice
           /\ t.held = s.held \cup {"reflow"}
<1> DEFINE k == [at |-> at, reason |-> reason]
           c == [s EXCEPT !.restorer = k]
<1>1. k \in Restorers /\ k.reason # NoRestoration.reason
  BY DEF Restorers, Somewhere, NoRestoration
<1>2. k.at = at /\ k.reason = reason /\ k # NoRestoration
  BY <1>1
<1>3. preserve(s, at, reason) = Suspend(c, "reflow")
  BY DEF preserve
<1> HIDE DEF k
<1>4. /\ c \in States
      /\ c.page = s.page /\ c.shown = s.shown /\ c.mounted = s.mounted
      /\ c.handled = s.handled /\ c.initial = s.initial /\ c.asked = s.asked
      /\ c.placing = s.placing /\ c.saving = s.saving
      /\ c.restorer = k /\ c.restored = s.restored
      /\ c.highlight = s.highlight /\ c.voice = s.voice /\ c.held = s.held
  BY <1>1 DEF States
<1> HIDE DEF c
<1> QED BY <1>2, <1>3, <1>4, SuspendResume DEF Owners, KeepsPage

\* What settles keeps the reason it is put in place for.
LEMMA PreserveGood ==
    ASSUME NEW s, Good(s), NEW at \in Locators,
           NEW reason \in {"restoration", "preference", "viewport"},
           s.restorer.reason = "restoration" =>
              \/ reason = "restoration"
              \/ s.initial = "done" /\ (s.saving = 0 \/ s.saving # s.page.revision),
           s.initial # "done" => reason # "preference"
    PROVE  LET t == preserve(s, at, reason) IN
           /\ Good(t) /\ Tells(s, t) /\ t.asked = s.asked /\ t.voice = s.voice
<1> DEFINE t == preserve(s, at, reason)
<1>1. /\ t \in States
      /\ t.page = s.page /\ t.shown = s.shown /\ t.mounted = s.mounted
      /\ t.handled = s.handled /\ t.initial = s.initial /\ t.asked = s.asked
      /\ t.placing = s.placing /\ t.saving = s.saving
      /\ t.restorer.at = at /\ t.restorer.reason = reason
      /\ t.restorer # NoRestoration
      /\ t.restored = s.restored
      /\ t.highlight = s.highlight /\ t.voice = s.voice
      /\ t.held = s.held \cup {"reflow"}
  BY PreserveFields, SMTT(60) DEF Good, Calm
<1> HIDE DEF t
<1>2. at # Nowhere
  BY PageAssumption DEF Locators, Nowhere
<1>3. Calm(t)
  BY <1>1, <1>2 DEF Good, Calm, Bounds, Places, Suspended, Quiet, Opening
<1>4. Coming(t) /\ Settles(t) /\ ToBeSaid(t) /\ Tells(s, t)
  BY <1>1 DEF Good, Coming, Settles, ToBeSaid, Unsaid, Tells
<1> QED BY <1>1, <1>3, <1>4 DEF Good, t


\* completeInitialRestoration and the placement of a navigation keep what is
\* good, whatever they find handled.
LEMMA HandledGood ==
    ASSUME NEW s, Good(s), s.initial = "done"
    PROVE  LET c == [s EXCEPT !.handled = s.shown.revision]
               t == finishProgrammaticNavigation(c) IN
           /\ Good(t) /\ ~Unsaid(t) /\ t.asked = s.asked
           /\ t.voice.speaks => s.voice.speaks
<1> DEFINE c == [s EXCEPT !.handled = s.shown.revision]
           t == finishProgrammaticNavigation(c)
<1>1. s.shown.revision \in Nat
  BY DEF Good, Calm, States, Frames
<1>2. /\ c \in States /\ c.page = s.page /\ c.shown = s.shown
      /\ c.mounted = s.mounted /\ c.handled = s.shown.revision
      /\ c.initial = s.initial /\ c.asked = s.asked /\ c.placing = s.placing
      /\ c.saving = s.saving /\ c.restorer = s.restorer
      /\ c.restored = s.restored /\ c.highlight = s.highlight
      /\ c.held = s.held /\ c.voice = s.voice
  BY <1>1 DEF Good, Calm, States
<1> HIDE DEF c
<1>3. Calm(c)
  BY <1>2 DEF Good, Calm, Bounds, Places, Suspended, Quiet, Opening
<1>4. /\ Calm(t) /\ (t.voice.speaks => c.voice.speaks)
      /\ t.page = c.page /\ t.initial = c.initial /\ t.asked = c.asked
      /\ t.restorer = c.restorer /\ t.restored = c.restored
      /\ IF c.saving # 0 /\ c.saving = c.page.revision
         THEN /\ ~t.voice.pending /\ ~Unsaid(t) /\ t.saving = 0
              /\ Coming(t) /\ Settles(t)
         ELSE /\ t.voice = c.voice /\ t.placing = c.placing
              /\ t.highlight = c.highlight /\ t.saving = c.saving
  <2>1. c.asked.open /\ ~c.asked.waits => ~c.voice.nav.open
    BY <1>2 DEF Good, Settles
  <2> HIDE DEF t
  <2> QED BY <1>2, <1>3, <2>1, Finish DEF t
<1> HIDE DEF t
<1>5. Coming(t) /\ Settles(t) /\ ~Unsaid(t)
  BY <1>2, <1>4 DEF Good, Coming, Settles, ToBeSaid, Unsaid
<1> QED BY <1>2, <1>4, <1>5 DEF Good, ToBeSaid, t, c

\* setDestinationRef: the saved place, or the place navigated to, is aligned or
\* handled.
LEMMA AttachedGood ==
    ASSUME NEW s, Good(s), ~Unsaid(s)
    PROVE  LET t == DestinationAttached(s) IN
           /\ Good(t) /\ ~Unsaid(t) /\ t.asked = s.asked
           /\ t.voice.speaks => s.voice.speaks
<1>0. s.page.at \in Locators /\ s.initial \in {"pending", "started", "done"}
  BY DEF Good, Calm, States, Pages
<1>1. CASE s.initial # "done"
  <2>1. s.handled = s.shown.revision
    BY <1>1 DEF Good, Calm, Opening, Bounds, States, Pages, Frames
  <2>2. CASE s.initial = "started"
    BY <2>1, <2>2 DEF DestinationAttached
  <2>3. CASE s.initial = "pending"
    <3> DEFINE c == [s EXCEPT !.initial = "started"]
               t == preserve(c, s.page.at, "restoration")
    <3>1. DestinationAttached(s) = t
      BY <2>1, <2>3 DEF DestinationAttached
    <3>2. /\ c \in States /\ c.page = s.page /\ c.shown = s.shown
          /\ c.mounted = s.mounted /\ c.handled = s.handled
          /\ c.initial = "started" /\ c.asked = s.asked
          /\ c.placing = s.placing /\ c.saving = s.saving
          /\ c.restorer = s.restorer /\ c.restored = s.restored
          /\ c.highlight = s.highlight /\ c.held = s.held
          /\ c.voice = s.voice
      BY DEF Good, Calm, States
    <3> HIDE DEF c
    <3>3. Calm(c)
      BY <2>3, <3>2 DEF Good, Calm, Bounds, Places, Suspended, Quiet, Opening
    <3>4. Coming(c) /\ Settles(c) /\ ToBeSaid(c) /\ ~Unsaid(c)
      BY <2>3, <3>2 DEF Good, Coming, Settles, ToBeSaid, Unsaid
    <3> HIDE DEF t
    <3>5. Good(t) /\ Tells(c, t) /\ t.asked = c.asked /\ t.voice = c.voice
      BY <1>0, <3>2, <3>3, <3>4, PreserveGood DEF Good, t
    <3> QED BY <3>1, <3>2, <3>4, <3>5 DEF Tells
  <2> QED BY <1>0, <1>1, <2>2, <2>3
<1>2. CASE s.initial = "done" /\ s.handled = s.shown.revision
  BY <1>2 DEF DestinationAttached
<1>3. CASE s.initial = "done" /\ s.handled # s.shown.revision
  <2> DEFINE c == [s EXCEPT !.handled = s.shown.revision]
  <2>1. CASE s.page.at.offset > 0
    <3> DEFINE t == preserve(c, s.page.at, "restoration")
    <3>1. DestinationAttached(s) = t
      BY <1>3, <2>1 DEF DestinationAttached
    <3>2. s.shown.revision \in Nat
      BY DEF Good, Calm, States, Frames
    <3>3. /\ c \in States /\ c.page = s.page /\ c.shown = s.shown
          /\ c.mounted = s.mounted /\ c.handled = s.shown.revision
          /\ c.initial = s.initial /\ c.asked = s.asked
          /\ c.placing = s.placing /\ c.saving = s.saving
          /\ c.restorer = s.restorer /\ c.restored = s.restored
          /\ c.highlight = s.highlight /\ c.held = s.held
          /\ c.voice = s.voice
      BY <3>2 DEF Good, Calm, States
    <3> HIDE DEF c
    <3>4. /\ t \in States
          /\ t.page = c.page /\ t.shown = c.shown /\ t.mounted = c.mounted
          /\ t.handled = c.handled /\ t.initial = c.initial
          /\ t.asked = c.asked
          /\ t.placing = c.placing /\ t.saving = c.saving
          /\ t.restorer.at = s.page.at /\ t.restorer.reason = "restoration"
          /\ t.restorer # NoRestoration
          /\ t.restored = c.restored
          /\ t.highlight = c.highlight /\ t.voice = c.voice
          /\ t.held = c.held \cup {"reflow"}
      BY <1>0, <3>3, PreserveFields
    <3> HIDE DEF t
    <3>5. s.page.at # Nowhere
      BY <1>0, PageAssumption DEF Locators, Nowhere
    <3>6. Calm(t)
      BY <1>3, <3>3, <3>4, <3>5
         DEF Good, Calm, Bounds, Places, Suspended, Quiet, Opening
    <3>7. Coming(t) /\ Settles(t) /\ ~Unsaid(t)
      BY <1>3, <3>3, <3>4 DEF Good, Coming, Settles, Unsaid
    <3> QED BY <3>1, <3>3, <3>4, <3>6, <3>7 DEF Good, ToBeSaid
  <2>2. CASE ~(s.page.at.offset > 0)
    <3>1. DestinationAttached(s) = finishProgrammaticNavigation(c)
      BY <1>3, <2>2 DEF DestinationAttached
    <3> QED BY <1>3, <3>1, HandledGood
  <2> QED BY <2>1, <2>2
<1> QED BY <1>1, <1>2, <1>3

\* The result of a restoration is forgotten when nothing waits for it.
LEMMA ForgetGood ==
    ASSUME NEW s, Good(s),
           s.voice.pending /\ s.saving # 0 /\ s.saving = s.page.revision
             => s.restored.revision # s.page.revision
    PROVE  LET t == [s EXCEPT !.restored = NoResult] IN
           /\ Good(t) /\ Tells(s, t) /\ t.asked = s.asked /\ t.voice = s.voice
           /\ t.page = s.page /\ t.shown = s.shown
<1> DEFINE t == [s EXCEPT !.restored = NoResult]
<1>1. /\ t \in States /\ t.page = s.page /\ t.shown = s.shown
      /\ t.mounted = s.mounted /\ t.handled = s.handled
      /\ t.initial = s.initial /\ t.asked = s.asked /\ t.placing = s.placing
      /\ t.saving = s.saving /\ t.restorer = s.restorer
      /\ t.restored = NoResult /\ t.highlight = s.highlight
      /\ t.held = s.held /\ t.voice = s.voice
  BY NothingTyped DEF Good, Calm, States
<1> HIDE DEF t
<1>2. Calm(t)
  BY <1>1 DEF Good, Calm, Bounds, Places, Suspended, Quiet, Opening
<1>3. Coming(t) /\ Settles(t) /\ ToBeSaid(t) /\ Tells(s, t)
  BY <1>1 DEF Good, Coming, Settles, ToBeSaid, Unsaid, Tells
<1> QED BY <1>1, <1>2, <1>3 DEF Good, t


\* updateActiveVisualLocator: another place of the chapter the page is in.
LEMMA PlacedGood ==
    ASSUME NEW s, Good(s), NEW at \in Locators
    PROVE  LET t == updateActiveVisualLocator(s, at) IN
           /\ Good(t) /\ Tells(s, t) /\ t.asked = s.asked /\ t.voice = s.voice
           /\ t.page.revision = s.page.revision
           /\ t.page.status = s.page.status
           /\ t.shown = s.shown /\ t.mounted = s.mounted
           /\ t.handled = s.handled /\ t.initial = s.initial
           /\ t.saving = s.saving /\ t.restored = s.restored
           /\ t.placing = s.placing /\ t.restorer = s.restorer
           /\ t.highlight = s.highlight /\ t.held = s.held
<1> DEFINE t == updateActiveVisualLocator(s, at)
<1>1. /\ t \in States
      /\ t.page.revision = s.page.revision /\ t.page.status = s.page.status
      /\ t.page.at.chapter = s.page.at.chapter
      /\ t.shown = s.shown /\ t.mounted = s.mounted /\ t.handled = s.handled
      /\ t.initial = s.initial /\ t.asked = s.asked /\ t.placing = s.placing
      /\ t.saving = s.saving /\ t.restored = s.restored
      /\ t.restorer = s.restorer /\ t.held = s.held
      /\ t.highlight = s.highlight /\ t.voice = s.voice
  BY DEF updateActiveVisualLocator, States, Pages, Good, Calm
<1> HIDE DEF t
<1>2. Calm(t)
  BY <1>1 DEF Good, Calm, Bounds, Places, Suspended, Quiet, Opening
<1>3. Coming(t) /\ Settles(t) /\ ToBeSaid(t) /\ Tells(s, t)
  BY <1>1 DEF Good, Coming, Settles, ToBeSaid, Unsaid, Tells
<1> QED BY <1>1, <1>2, <1>3 DEF Good, t

\* The effect of pendingRestoration: what waited for the place is answered.
LEMMA RestorationGood ==
    ASSUME NEW s, Good(s)
    PROVE  LET t == RestorationCommitted(s) IN
           /\ Good(t) /\ Tells(s, t) /\ t.asked = s.asked
           /\ t.voice.speaks => s.voice.speaks
<1> DEFINE result == s.restored
           start == [result.at EXCEPT !.offset = 0]
           placed == IF result.outcome = "exact" THEN s
                     ELSE updateActiveVisualLocator(s, start)
           stale == \/ result.revision # s.page.revision
                    \/ result.revision # 0 /\ s.saving # result.revision
           over == completeInitialRestoration(placed,
                     IF result.outcome = "nowhere" THEN "unavailable"
                                                   ELSE "settled")
           told == finishProgrammaticNavigation(placed)
           t == RestorationCommitted(s)
<1>1. CASE result = NoResult
  BY <1>1 DEF RestorationCommitted, Tells
<1>2. CASE result # NoResult
  <2>1. start \in Locators
    <3>1. result.at \in Locators
      BY <1>2 DEF Good, Calm, Places, States, Results, Somewhere
    <3> QED BY <3>1 DEF Locators
  <2>2. /\ Good(placed) /\ Tells(s, placed) /\ placed.asked = s.asked
        /\ placed.voice = s.voice /\ placed.page.revision = s.page.revision
        /\ placed.initial = s.initial /\ placed.saving = s.saving
        /\ placed.restored = s.restored
    <3> HIDE DEF start
    <3> QED BY <2>1, PlacedGood DEF Tells
  <2>3. t = [(IF stale THEN s ELSE IF result.revision = 0 THEN over ELSE told)
             EXCEPT !.restored = NoResult]
    BY <1>2 DEF RestorationCommitted
  <2>4. CASE stale
    <3>1. t = [s EXCEPT !.restored = NoResult]
      BY <2>3, <2>4
    <3>2. s.voice.pending /\ s.saving # 0 /\ s.saving = s.page.revision
             => s.restored.revision # s.page.revision
      BY <2>4
    <3> HIDE DEF t
    <3> QED BY <3>1, <3>2, ForgetGood DEF t
  <2>5. CASE ~stale /\ result.revision = 0
    <3>1. t = [over EXCEPT !.restored = NoResult]
      BY <2>3, <2>5
    <3>2. /\ Good(over) /\ over.asked = placed.asked
          /\ over.voice.speaks => placed.voice.speaks
          /\ over.page = placed.page /\ over.saving = placed.saving
          /\ Tells(placed, over)
      <4> DEFINE x == IF result.outcome = "nowhere" THEN "unavailable"
                                                    ELSE "settled"
      <4>1. x \in {"superseded", "settled", "unavailable"} /\ x # "superseded"
        OBVIOUS
      <4> HIDE DEF x, placed
      <4>2. /\ Calm(over) /\ over.initial = "done"
            /\ over.page = placed.page /\ over.asked = placed.asked
            /\ over.saving = placed.saving
            /\ over.voice.speaks => placed.voice.speaks
            /\ placed.initial = "done" => over = placed
            /\ placed.initial # "done" => ~over.voice.nav.open /\ ~Unsaid(over)
            /\ placed.initial # "done" => ~over.voice.pending
        BY <2>2, <4>1, CompleteInitial DEF Good, x
      <4> HIDE DEF over
      <4>3. CASE placed.initial = "done"
        BY <2>2, <4>2, <4>3 DEF Tells
      <4>4. CASE placed.initial # "done"
        BY <2>2, <4>2, <4>4 DEF Good, Coming, Settles, ToBeSaid, Tells
      <4> QED BY <4>3, <4>4
    <3>3. ~(over.saving # 0 /\ over.saving = over.page.revision)
      BY <2>2, <2>5, <3>2
    <3> HIDE DEF over, t, placed
    <3>4. Good(t) /\ Tells(over, t) /\ t.asked = over.asked /\ t.voice = over.voice
      BY <3>1, <3>2, <3>3, ForgetGood
    <3> QED BY <2>2, <3>2, <3>4 DEF t, Tells
  <2>6. CASE ~stale /\ result.revision # 0
    <3>1. t = [told EXCEPT !.restored = NoResult]
      BY <2>3, <2>6
    <3>2. placed.initial = "done" /\ placed.saving # 0
            /\ placed.saving = placed.page.revision
      BY <2>2, <2>6 DEF Good, Calm, Opening
    <3>3. /\ Good(told) /\ told.asked = placed.asked /\ ~Unsaid(told)
          /\ told.voice.speaks => placed.voice.speaks
          /\ told.saving = 0
      <4> HIDE DEF placed
      <4>1. placed.asked.open /\ ~placed.asked.waits => ~placed.voice.nav.open
        BY <2>2 DEF Good, Settles
      <4> QED BY <2>2, <3>2, <4>1, Finish, FinishGood DEF Good
    <3> HIDE DEF told, t, placed
    <3>4. Good(t) /\ Tells(told, t) /\ t.asked = told.asked /\ t.voice = told.voice
      BY <3>1, <3>3, ForgetGood
    <3> QED BY <2>2, <3>3, <3>4 DEF t, Tells
  <2> QED BY <2>4, <2>5, <2>6
<1> QED BY <1>1, <1>2

\* The last effect: after it nothing of the page shown is unsaid.
LEMMA LastGood ==
    ASSUME NEW s, Good(s),
           Unsaid(s) => /\ s.shown.revision = s.page.revision
                        /\ s.shown.status = s.page.status
    PROVE  LET t == NavigationCommitted(s) IN
           /\ Good(t) /\ ~Unsaid(t) /\ t.asked = s.asked
           /\ t.voice.speaks => s.voice.speaks
<1> DEFINE over == completeInitialRestoration(s, "unavailable")
           t == NavigationCommitted(s)
<1>1. CASE s.initial # "done" /\ s.shown.status = "chapter-too-large"
  <2>1. t = over
    BY <1>1 DEF NavigationCommitted
  <2>2. /\ Calm(over) /\ over.initial = "done" /\ over.asked = s.asked
        /\ over.voice.speaks => s.voice.speaks
        /\ ~over.voice.nav.open /\ ~Unsaid(over) /\ ~over.voice.pending
    BY <1>1, CompleteInitial DEF Good
  <2> HIDE DEF over, t
  <2> QED BY <2>1, <2>2 DEF t, Good, Coming, Settles, ToBeSaid
<1>2. CASE /\ ~(s.initial # "done" /\ s.shown.status = "chapter-too-large")
           /\ s.handled # s.shown.revision
           /\ s.mounted \/ s.shown.status = "chapter-too-large"
  <2>1. s.initial = "done"
    BY <1>2 DEF Good, Calm, Opening, Bounds, States, Pages, Frames
  <2>2. t = finishProgrammaticNavigation([s EXCEPT !.handled = s.shown.revision])
    BY <1>2 DEF NavigationCommitted
  <2> QED BY <2>1, <2>2, HandledGood
<1>3. CASE ~(\/ s.initial # "done" /\ s.shown.status = "chapter-too-large"
             \/ /\ s.handled # s.shown.revision
                /\ s.mounted \/ s.shown.status = "chapter-too-large")
  <2>1. t = s
    BY <1>3 DEF NavigationCommitted
  <2>2. s.page.status \in Statuses
    BY DEF Good, Calm, States, Pages
  <2>3. ~Unsaid(s)
    BY <1>3, <2>2 DEF Good, ToBeSaid, Unsaid, Statuses
  <2> QED BY <2>1, <2>3
<1> QED BY <1>1, <1>2, <1>3


-----------------------------------------------------------------------------
(* Every action keeps it *)

LEMMA Typed == ASSUME Good(State)
               PROVE  /\ State \in States /\ voice \in Voices /\ page \in Pages
                      /\ asked \in Asked /\ highlight \in Highlights
BY DEF Good, Calm, State, States

LEMMA Fields ==
    /\ State.page = page /\ State.shown = shown /\ State.mounted = mounted
    /\ State.handled = handled /\ State.initial = initial
    /\ State.asked = asked /\ State.placing = placing
    /\ State.saving = saving /\ State.restorer = restorer
    /\ State.restored = restored /\ State.highlight = highlight
    /\ State.held = held /\ State.voice = voice
BY DEF State

\* What a handler leaves is the next state.
LEMMA Entered ==
    ASSUME NEW t, Good(t), Becomes(t),
           Unsaid(t) => t.shown.revision # t.page.revision
    PROVE  IInv' /\ asked' = t.asked /\ voice' = t.voice /\ page' = t.page
<1>1. State' = t /\ asked' = t.asked /\ voice' = t.voice
        /\ page' = t.page /\ shown' = t.shown
  BY Shape DEF Good, Calm, Becomes
<1>2. Good(State)' /\ (Unsaid(State)' => Unsaid(t))
  BY <1>1
<1>3. Unsaid(t) => SyncCommitDue'
  BY <1>1 DEF SyncCommitDue, Snapshot
<1> QED BY <1>1, <1>2, <1>3 DEF IInv


\* A task starts on a page that is shown as it is.
LEMMA AtATask ==
    ASSUME IInv, Task
    PROVE  Good(State) /\ ~Unsaid(State)
BY DEF IInv, Task

\* Nothing asked for is forgotten, and no run starts.
Goes == asked' = asked /\ (voice'.speaks => voice.speaks)

LEMMA CommitKeeps == ASSUME IInv, Commit PROVE IInv' /\ Goes
<1> DEFINE changes == page.revision # shown.revision
           drawn(there) == [State EXCEPT
                         !.shown = Snapshot(page),
                         !.mounted = IF changes
                                     THEN there /\ page.status = "render"
                                     ELSE @]
           attached(there) == IF changes /\ drawn(there).mounted
                         THEN DestinationAttached(drawn(there)) ELSE drawn(there)
<1>1. PICK there \in BOOLEAN :
        \E followed \in Refreshed(RestorationCommitted(attached(there))) :
          Becomes(NavigationCommitted(followed))
  BY DEF Commit
<1> DEFINE d == drawn(there)
           a == attached(there)
           r == RestorationCommitted(a)
<1>2. PICK f \in Refreshed(r) : Becomes(NavigationCommitted(f))
  BY <1>1
<1> DEFINE t == NavigationCommitted(f)
<1>3. Good(State) /\ State \in States
  BY DEF IInv, Good, Calm
<1>4. /\ d \in States
      /\ d.page = page /\ d.shown = Snapshot(page) /\ d.handled = handled
      /\ d.initial = initial /\ d.asked = asked /\ d.placing = placing
      /\ d.saving = saving /\ d.restorer = restorer /\ d.restored = restored
      /\ d.highlight = highlight /\ d.held = held /\ d.voice = voice
      /\ d.mounted /\ changes => page.status = "render"
  <2> DEFINE m == IF changes THEN there /\ page.status = "render" ELSE mounted
  <2>1. Snapshot(page) \in Frames /\ mounted \in BOOLEAN
    BY <1>3 DEF State, States, Pages, Frames, Statuses, Snapshot, Locators
  <2>2. m \in BOOLEAN
    BY <2>1
  <2>3. d = [State EXCEPT !.shown = Snapshot(page), !.mounted = m]
    BY DEF State
  <2>4. m /\ changes => page.status = "render"
    OBVIOUS
  <2> HIDE DEF m, d
  <2> QED BY <1>3, <2>1, <2>2, <2>3, <2>4 DEF State, States
<1>5. a = IF changes /\ d.mounted THEN DestinationAttached(d) ELSE d
  OBVIOUS
<1> HIDE DEF d, a
<1>6. /\ Snapshot(page).revision = page.revision
      /\ Snapshot(page).status = page.status
      /\ Snapshot(page).chapter = page.at.chapter
  BY DEF Snapshot
<1>7. /\ State.page = page /\ State.handled = handled /\ State.shown = shown
      /\ State.initial = initial /\ State.asked = asked
      /\ State.placing = placing /\ State.saving = saving
      /\ State.restorer = restorer /\ State.restored = restored
      /\ State.highlight = highlight /\ State.held = held
      /\ State.voice = voice
  BY DEF State
<1>8. page.revision \in Nat
  BY <1>3, Typed DEF Pages
<1>9. Calm(d)
  BY <1>3, <1>4, <1>6, <1>7, <1>8
     DEF Good, Calm, Bounds, Places, Suspended, Quiet, Opening
<1>10. Coming(d) /\ Settles(d) /\ ToBeSaid(d)
  BY <1>3, <1>4, <1>6, <1>7 DEF Good, Coming, Settles, ToBeSaid, Unsaid
<1>11. /\ Good(a) /\ a.asked = asked /\ (a.voice.speaks => voice.speaks)
       /\ ~Unsaid(a) \/ a = d
  <2>1. CASE changes /\ d.mounted
    <3>1. ~Unsaid(d)
      BY <1>4, <2>1 DEF Unsaid
    <3> QED BY <1>4, <1>5, <1>9, <1>10, <2>1, <3>1, AttachedGood DEF Good
  <2>2. CASE ~(changes /\ d.mounted)
    BY <1>4, <1>5, <1>9, <1>10, <2>2 DEF Good
  <2> QED BY <2>1, <2>2
<1>12. /\ Good(r) /\ Tells(a, r) /\ r.asked = a.asked
       /\ r.voice.speaks => a.voice.speaks
  BY <1>11, RestorationGood
<1> HIDE DEF r
<1>13. /\ Good(f) /\ Tells(r, f) /\ f.asked = r.asked
       /\ f.voice.speaks => r.voice.speaks
  BY <1>2, <1>12, RefreshGood
<1>14. Unsaid(f) => /\ f.shown.revision = f.page.revision
                    /\ f.shown.status = f.page.status
  BY <1>4, <1>6, <1>11, <1>12, <1>13 DEF Tells
<1>15. /\ Good(t) /\ ~Unsaid(t) /\ t.asked = f.asked
       /\ t.voice.speaks => f.voice.speaks
  BY <1>13, <1>14, LastGood
<1> HIDE DEF t
<1> QED BY <1>2, <1>11, <1>12, <1>13, <1>15, Entered DEF Goes, t

\* What goes on, keeps the page as it is.
LEMMA GoesOn ==
    ASSUME IInv, Task, NEW t, Becomes(t), Good(t), Tells(State, t),
           t.asked = asked, t.voice.speaks => voice.speaks
    PROVE  IInv' /\ Goes
<1>1. ~Unsaid(t)
  BY AtATask DEF Tells
<1> QED BY <1>1, Entered DEF Goes

LEMMA MountKeeps == ASSUME IInv, MountDestination PROVE IInv' /\ Goes
<1> DEFINE c == [State EXCEPT !.mounted = TRUE]
           a == DestinationAttached(c)
<1>1. PICK t \in Refreshed(a) : Becomes(t)
  BY DEF MountDestination
<1>2. Task /\ Good(State) /\ ~Unsaid(State)
  BY AtATask DEF MountDestination
<1>3. /\ c \in States
      /\ c.page = page /\ c.shown = shown /\ c.handled = handled
      /\ c.initial = initial /\ c.asked = asked /\ c.placing = placing
      /\ c.saving = saving /\ c.restorer = restorer /\ c.restored = restored
      /\ c.highlight = highlight /\ c.held = held /\ c.voice = voice
  <2>1. State \in States
    BY <1>2, Typed
  <2> QED BY <2>1 DEF State, States
<1> HIDE DEF c
<1>4. Calm(c)
  BY <1>2, <1>3 DEF State, Good, Calm, Bounds, Places, Suspended, Quiet, Opening
<1>5. Coming(c) /\ Settles(c) /\ ToBeSaid(c) /\ ~Unsaid(c)
  BY <1>2, <1>3 DEF State, Good, Coming, Settles, ToBeSaid, Unsaid
<1>6. /\ Good(a) /\ ~Unsaid(a) /\ a.asked = asked
      /\ a.voice.speaks => voice.speaks
  BY <1>3, <1>4, <1>5, AttachedGood DEF Good
<1> HIDE DEF a
<1>7. /\ Good(t) /\ Tells(a, t) /\ t.asked = a.asked
      /\ t.voice.speaks => a.voice.speaks
  BY <1>1, <1>6, RefreshGood
<1> QED BY <1>1, <1>2, <1>6, <1>7, GoesOn DEF Tells


LEMMA RestorerKeeps == ASSUME IInv, RestorerFrame PROVE IInv' /\ Goes
<1> DEFINE c == [State EXCEPT !.restorer = NoRestoration]
           free == Resume(c, "reflow")
           result(o) == [at |-> restorer.at, outcome |-> o,
                         revision |-> page.revision]
           put(o) == [free EXCEPT !.restored =
                        [at |-> restorer.at, outcome |-> o,
                         revision |-> page.revision]]
<1>1. Task /\ restorer # NoRestoration /\ Good(State) /\ ~Unsaid(State)
  BY AtATask DEF RestorerFrame
<1>2. PICK outcome \in {"exact", "block", "nowhere"} :
        Becomes(CASE restorer.reason = "preference" ->
                       notifySettlement(free, "reflow")
                  [] restorer.reason = "restoration" -> put(outcome)
                  [] OTHER -> free)
  BY DEF RestorerFrame
<1>3. /\ free \in States
      /\ free.page = page /\ free.shown = shown /\ free.mounted = mounted
      /\ free.handled = handled /\ free.initial = initial
      /\ free.asked = asked /\ free.placing = placing /\ free.saving = saving
      /\ free.restorer = NoRestoration /\ free.restored = restored
      /\ free.highlight = highlight /\ free.voice = voice
      /\ free.held = held \ {"reflow"}
  <2>1. free = cancel(State)
    BY DEF cancel
  <2>2. State \in States
    BY <1>1, Typed
  <2> HIDE DEF free
  <2> QED BY <2>1, <2>2, CancelFields DEF State
<1> HIDE DEF c, free
<1>4. NoRestoration.reason = "none"
  BY DEF NoRestoration
<1>5. Calm(free)
  BY <1>1, <1>3, <1>4, ZenonT(60)
     DEF State, Good, Calm, Bounds, Places, Suspended, Quiet, Opening
<1>6. Settles(free) /\ ToBeSaid(free) /\ Tells(State, free)
  BY <1>1, <1>3 DEF State, Good, Settles, ToBeSaid, Unsaid, Tells
<1>7. restorer.reason # "restoration" => Coming(free)
  BY <1>1, <1>3 DEF State, Good, Coming
<1>8. CASE restorer.reason = "preference"
  <2> DEFINE t == notifySettlement(free, "reflow")
  <2>1. Becomes(t)
    BY <1>2, <1>8
  <2>2. CASE placing
    <3>1. t = free
      BY <1>3, <2>2 DEF notifySettlement
    <3> QED BY <1>1, <1>3, <1>5, <1>6, <1>7, <1>8, <2>1, <3>1, GoesOn DEF Good
  <2>3. CASE ~placing
    <3>1. initial = "done" /\ ~voice.pending
      BY <1>1, <1>8, <2>3 DEF State, Good, Calm, Opening, Settles
    <3>2. /\ t \in States /\ KeepsPage(free, t) /\ ~t.voice.pending
          /\ t.voice.available => free.page.status = "render"
          /\ \/ Silenced(free, t)
             \/ SpeaksOn(free, t) /\ t.voice.nav = voice.nav
      <4>1. t = IF free.page.status = "chapter-too-large"
                THEN settleReaderPlacement([free EXCEPT !.placing = FALSE], FALSE)
                ELSE settleReaderPlacement([free EXCEPT !.placing = FALSE], TRUE)
        BY <1>3, <2>3 DEF notifySettlement
      <4> DEFINE e == [free EXCEPT !.placing = FALSE]
      <4>2. e \in States /\ KeepsPage(free, e) /\ e.voice = free.voice
              /\ e.highlight = free.highlight /\ e.held = free.held
        BY <1>3 DEF States, KeepsPage
      <4> HIDE DEF e, t
      <4>3. free.page.status \in Statuses
        BY <1>3 DEF States, Pages
      <4>4. CASE free.page.status = "chapter-too-large"
        <5>1. t = settleReaderPlacement(e, FALSE)
          BY <4>1, <4>4 DEF e
        <5> QED BY <4>2, <5>1, SettleNowhere DEF KeepsPage, Silenced
      <4>5. CASE free.page.status = "render"
        <5>1. t = settleReaderPlacement(e, TRUE)
          BY <4>1, <4>5 DEF e
        <5> QED BY <1>3, <4>2, <4>5, <5>1, SettleThere,
                   ZenonT(60) DEF KeepsPage, SpeaksOn
      <4> QED BY <4>3, <4>4, <4>5 DEF Statuses
    <3>3. Calm(t) /\ (t.voice.speaks => voice.speaks)
      BY <1>3, <1>5, <2>3, <3>1, NotifyCalm
    <3> HIDE DEF t
    <3>4. ~NoNavigation.open
      BY DEF NoNavigation
    <3>5. Settles(t)
      <4>1. CASE SpeaksOn(free, t) /\ t.voice.nav = voice.nav
        BY <1>3, <1>6, <2>3, <3>1, <3>2, <4>1 DEF Settles, KeepsPage, SpeaksOn
      <4>2. CASE Silenced(free, t)
        BY <1>3, <3>1, <3>2, <3>4, <4>2 DEF Settles, KeepsPage, Silenced
      <4> QED BY <3>2, <4>1, <4>2
    <3>6. Coming(t) /\ ~Unsaid(t)
      BY <3>2 DEF Coming, Unsaid, KeepsPage
    <3> QED BY <1>1, <1>3, <2>1, <3>2, <3>3, <3>5, <3>6, GoesOn
            DEF Good, ToBeSaid, Tells, KeepsPage
  <2> QED BY <2>2, <2>3
<1>9. CASE restorer.reason = "restoration"
  <2> DEFINE t == put(outcome)
  <2>1. Becomes(t)
    BY <1>2, <1>9
  <2>2. result(outcome) \in Results /\ result(outcome).revision = page.revision
          /\ result(outcome).at = restorer.at
    <3>1. State \in States
      BY <1>1, Typed
    <3> QED BY <3>1 DEF State, States, Restorers, Results, Pages
  <2>3. /\ t \in States
        /\ t.page = page /\ t.shown = shown /\ t.mounted = mounted
        /\ t.handled = handled /\ t.initial = initial
        /\ t.asked = asked /\ t.placing = placing /\ t.saving = saving
        /\ t.restorer = NoRestoration /\ t.restored.revision = page.revision
        /\ t.restored.at = restorer.at
        /\ t.highlight = highlight /\ t.voice = voice
        /\ t.held = held \ {"reflow"}
    <3> DEFINE res == result(outcome)
    <3>1. t = [free EXCEPT !.restored = res]
      OBVIOUS
    <3> HIDE DEF res, t
    <3> QED BY <1>3, <2>2, <3>1 DEF States, res
  <2> HIDE DEF t
  <2>4. restorer.at # Nowhere
    BY <1>1, <1>9 DEF State, Good, Calm, Places
  <2>5. Calm(t)
    BY <1>3, <1>5, <2>3, <2>4
       DEF Calm, Bounds, Places, Suspended, Quiet, Opening
  <2>6. Coming(t) /\ Settles(t) /\ ToBeSaid(t) /\ Tells(State, t)
    BY <1>1, <2>3 DEF State, Good, Coming, Settles, ToBeSaid, Unsaid, Tells
  <2> QED BY <1>1, <2>1, <2>3, <2>5, <2>6, GoesOn DEF Good
<1>10. CASE restorer.reason \notin {"preference", "restoration"}
  <2>1. Becomes(free)
    BY <1>2, <1>10
  <2> QED BY <1>1, <1>3, <1>5, <1>6, <1>7, <1>10, <2>1, GoesOn DEF Good
<1> QED BY <1>8, <1>9, <1>10

LEMMA PreferenceKeeps == ASSUME IInv, PreferenceChange PROVE IInv' /\ Goes
<1> DEFINE reason == IF saving # 0 /\ saving = page.revision
                     THEN "restoration" ELSE "preference"
           c == preserve(State, page.at, reason)
<1>1. PICK t \in Refreshed(c) : Becomes(t)
  BY DEF PreferenceChange
<1>2. Task /\ Good(State) /\ ~Unsaid(State) /\ initial = "done"
  BY AtATask DEF PreferenceChange
<1>3. /\ reason \in {"restoration", "preference", "viewport"}
      /\ reason = "restoration" \/ saving = 0 \/ saving # page.revision
      /\ page.at \in Locators
  BY <1>2, Typed DEF Pages
<1> HIDE DEF reason
<1>4. Good(c) /\ Tells(State, c) /\ c.asked = asked /\ c.voice = voice
  BY <1>2, <1>3, PreserveGood DEF State
<1> HIDE DEF c
<1>5. /\ Good(t) /\ Tells(c, t) /\ t.asked = c.asked
      /\ t.voice.speaks => c.voice.speaks
  BY <1>1, <1>4, RefreshGood
<1> QED BY <1>1, <1>2, <1>4, <1>5, GoesOn DEF Tells

LEMMA ResizeKeeps == ASSUME IInv, ViewportResize PROVE IInv' /\ Goes
<1> DEFINE t == preserve(State, page.at, "viewport")
<1>1. Task /\ Good(State) /\ restorer = NoRestoration /\ Becomes(t)
  BY AtATask DEF ViewportResize
<1>2. page.at \in Locators /\ NoRestoration.reason = "none"
  BY <1>1, Typed DEF Pages, NoRestoration
<1>3. Good(t) /\ Tells(State, t) /\ t.asked = asked /\ t.voice = voice
  BY <1>1, <1>2, PreserveGood DEF State
<1> QED BY <1>1, <1>3, GoesOn

\* manualInspection: what was followed is not followed any more.
LEMMA InspectionGood ==
    ASSUME NEW s, Good(s)
    PROVE  LET t == manualInspection(s) IN
           /\ Good(t) /\ Tells(s, t) /\ t.asked = s.asked /\ t.voice = s.voice
<1> DEFINE c == [s EXCEPT !.highlight.eligible = FALSE]
           t == cancelPendingFollow(c)
<1>1. /\ c \in States /\ KeepsPage(s, c) /\ c.placing = s.placing
      /\ c.voice = s.voice /\ c.held = s.held
      /\ c.highlight.at = s.highlight.at /\ ~c.highlight.eligible
  BY DEF Good, Calm, States, Highlights, KeepsPage
<1> HIDE DEF c
<1>2. /\ t \in States /\ KeepsPage(c, t)
      /\ t.placing = c.placing /\ t.voice = c.voice
      /\ t.held = c.held \ {"highlight"}
      /\ t.highlight.at = c.highlight.at
      /\ t.highlight.eligible = c.highlight.eligible
  BY <1>1, CancelFollow
<1> HIDE DEF t
<1>3. Calm(t)
  BY <1>1, <1>2
     DEF Good, Calm, Bounds, Places, Suspended, Quiet, Opening, KeepsPage
<1>4. Coming(t) /\ Settles(t) /\ ToBeSaid(t) /\ Tells(s, t)
  BY <1>1, <1>2 DEF Good, Coming, Settles, ToBeSaid, Unsaid, Tells, KeepsPage
<1> QED BY <1>1, <1>2, <1>3, <1>4 DEF Good, KeepsPage, manualInspection, t, c

LEMMA SampleKeeps == ASSUME IInv, Sample PROVE IInv' /\ Goes
<1>1. PICK at \in Locators \ {page.at} :
        Becomes(manualInspection(updateActiveVisualLocator(State, at)))
  BY DEF Sample
<1> DEFINE c == updateActiveVisualLocator(State, at)
           t == manualInspection(c)
<1>2. Task /\ Good(State)
  BY AtATask DEF Sample
<1>3. Good(c) /\ Tells(State, c) /\ c.asked = asked /\ c.voice = voice
  BY <1>2, PlacedGood DEF State
<1> HIDE DEF c
<1>4. Good(t) /\ Tells(c, t) /\ t.asked = c.asked /\ t.voice = c.voice
  BY <1>3, InspectionGood
<1> HIDE DEF t
<1>5. Becomes(t)
  BY <1>1 DEF t, c
<1> QED BY <1>2, <1>3, <1>4, <1>5, GoesOn DEF Tells

\* Once its frame has run or it is over, a segment suspends nothing.
LEMMA OverGood ==
    ASSUME NEW s \in States, Good(State), KeepsPage(State, s), s.placing = placing,
           s.voice = voice, s.held = held,
           s.highlight.at = highlight.at,
           s.highlight.eligible => highlight.eligible
    PROVE  Good(Resume(s, "highlight")) /\ Tells(State, s)
<1> DEFINE r == Resume(s, "highlight")
<1>1. /\ r \in States /\ KeepsPage(s, r) /\ r.placing = s.placing
      /\ r.highlight = s.highlight /\ r.voice = s.voice
      /\ r.held = s.held \ {"highlight"}
  BY SuspendResume DEF Owners
<1> HIDE DEF r
<1>2. Calm(r)
  <2>1. Calm(State) BY DEF Good
  <2>2. Bounds(r) BY <1>1, <2>1, SMTT(30) DEF State, Calm, Bounds, KeepsPage
  <2>3. Places(r) BY <1>1, <2>1, SMTT(30) DEF State, Calm, Places, KeepsPage
  <2>4. Suspended(r) BY <1>1, <2>1, SMTT(30) DEF State, Calm, Suspended, KeepsPage
  <2>5. Quiet(r) BY <1>1, <2>1, SMTT(30) DEF State, Calm, Quiet
  <2>6. Opening(r) BY <1>1, <2>1, SMTT(30) DEF State, Calm, Opening, KeepsPage
  <2> QED BY <1>1, <2>2, <2>3, <2>4, <2>5, <2>6 DEF Calm
<1>3. Coming(r) /\ Settles(r) /\ ToBeSaid(r) /\ Tells(State, s)
  BY <1>1 DEF State, Good, Coming, Settles, ToBeSaid, Unsaid, Tells, KeepsPage
<1> QED BY <1>2, <1>3 DEF Good, r

LEMMA FollowKeeps == ASSUME IInv, FollowFrame PROVE IInv' /\ Goes
<1> DEFINE c == [State EXCEPT !.highlight.frame = FALSE]
           t == settleActive(c, highlight.at)
<1>1. /\ Task /\ Good(State)
      /\ Becomes(IF highlight.eligible THEN t ELSE c)
  BY AtATask DEF FollowFrame
<1>2. State \in States /\ highlight \in Highlights
  BY <1>1, Typed
<1>3. /\ c \in States /\ KeepsPage(State, c) /\ c.placing = placing
      /\ c.voice = voice /\ c.held = held
      /\ c.highlight.at = highlight.at
      /\ c.highlight.eligible = highlight.eligible
  BY <1>2 DEF State, States, Highlights, KeepsPage
<1>4. c.asked = asked
  BY DEF State
<1> HIDE DEF c
<1>5. Good(Resume(c, "highlight")) /\ Tells(State, c)
  BY <1>1, <1>3, OverGood
<1>6. CASE highlight.eligible
  <2>1. ~voice.pending /\ ~voice.nav.open /\ highlight.at \in Locators
    BY <1>1, <1>2, <1>6
       DEF State, Good, Calm, Quiet, Places, Highlights, Somewhere
  <2>2. /\ Good(t) /\ Tells(c, t) /\ t.asked = c.asked
        /\ t.voice.speaks = c.voice.speaks
    BY <1>3, <1>5, <2>1, SettleGood
  <2> HIDE DEF t
  <2> QED BY <1>1, <1>3, <1>4, <1>5, <1>6, <2>2, GoesOn DEF Tells
<1>7. CASE ~highlight.eligible
  <2>1. "highlight" \notin held
    BY <1>1, <1>7 DEF State, Good, Calm, Suspended
  <2>2. Calm(c)
    BY <1>1, <1>3, <1>7, <2>1, ZenonT(60)
       DEF State, Good, Calm, Bounds, Places, Suspended, Quiet, Opening,
           KeepsPage
  <2>3. Coming(c) /\ Settles(c) /\ ToBeSaid(c)
    BY <1>1, <1>3 DEF State, Good, Coming, Settles, ToBeSaid, Unsaid, KeepsPage
  <2> QED BY <1>1, <1>3, <1>4, <1>5, <1>7, <2>2, <2>3, GoesOn DEF Good
<1> QED BY <1>6, <1>7


\* A segment of a chapter that is rendered is followed; of one that is too large
\* it is said, and the run is given up.
LEMMA SegmentKeeps == ASSUME IInv, SegmentStarts PROVE IInv' /\ Goes
<1>0. PICK at \in Locators : \E t \in accept(State, at) : Becomes(t)
  BY DEF SegmentStarts
<1>1. PICK t \in accept(State, at) : Becomes(t)
  BY <1>0
<1> DEFINE h == [NoHighlight EXCEPT !.at = at, !.eligible = TRUE]
           b == cancelPendingFollow(State)
           c == [b EXCEPT !.highlight = h]
<1>2. t \in Refreshed(c)
  BY <1>1 DEF accept
<1>3. /\ Task /\ Good(State) /\ ~Unsaid(State) /\ State \in States
      /\ voice.speaks /\ ~voice.pending /\ ~voice.nav.open /\ initial = "done"
  BY AtATask, Typed
     DEF SegmentStarts, State, Good, Calm, Quiet, Opening
<1>4. /\ h \in Highlights /\ h.at = at /\ h.eligible /\ ~h.requested
  BY NothingTyped DEF NoHighlight, Highlights, Somewhere
<1> HIDE DEF h
<1>5. /\ b \in States /\ KeepsPage(State, b) /\ b.placing = placing
      /\ b.voice = voice /\ b.held = held \ {"highlight"}
  BY <1>3, CancelFollow DEF State
<1> HIDE DEF b
<1>6. /\ c \in States /\ KeepsPage(State, c) /\ c.placing = placing
      /\ c.voice = voice /\ c.held = held \ {"highlight"} /\ c.highlight = h
  BY <1>4, <1>5 DEF States, KeepsPage
<1> HIDE DEF c
<1>7. /\ c.page = page /\ c.shown = shown /\ c.mounted = mounted
      /\ c.handled = handled /\ c.initial = initial /\ c.asked = asked
      /\ c.saving = saving /\ c.restorer = restorer /\ c.restored = restored
  BY <1>6 DEF KeepsPage, State
<1>8. at # Nowhere
  BY PageAssumption DEF Locators, Nowhere
<1>9. CASE at.chapter \notin Huge
  <2>1. Calm(c)
    BY <1>3, <1>4, <1>6, <1>7, <1>8, <1>9
       DEF State, Good, Calm, Bounds, Places, Suspended, Quiet, Opening
  <2>2. Coming(c) /\ Settles(c) /\ ToBeSaid(c) /\ Tells(State, c)
    BY <1>3, <1>6, <1>7
       DEF State, Good, Coming, Settles, ToBeSaid, Unsaid, Tells
  <2>3. /\ Good(t) /\ Tells(c, t) /\ t.asked = c.asked
        /\ t.voice.speaks => c.voice.speaks
    BY <1>2, <2>1, <2>2, RefreshGood DEF Good
  <2> QED BY <1>1, <1>3, <1>6, <1>7, <2>2, <2>3, GoesOn DEF Tells
<1>10. CASE at.chapter \in Huge
  <2>1. RangeChoices(c) = {FALSE}
    <3>1. ~(shown.status = "render" /\ shown.chapter = at.chapter)
      BY <1>3, <1>10 DEF State, Good, Calm, Places
    <3> QED BY <1>4, <1>6, <1>7, <3>1 DEF RangeChoices
  <2>2. t = Missing(c)
    BY <1>2, <1>4, <1>6, <2>1 DEF Refreshed
  <2> DEFINE d == [c EXCEPT !.highlight.requested = TRUE]
             w == Suspend(d, "highlight")
  <2>3. t = navigateToLocator(w, at)
    <3>1. c.highlight.at = at /\ ~c.highlight.requested
      BY <1>4, <1>6
    <3>2. Missing(c) = navigateToLocator(w, c.highlight.at)
      BY <3>1 DEF Missing
    <3> QED BY <2>2, <3>1, <3>2
  <2>4. /\ d \in States /\ KeepsPage(c, d) /\ d.placing = c.placing
        /\ d.voice = c.voice /\ d.held = c.held
    BY <1>6 DEF States, Highlights, KeepsPage
  <2> HIDE DEF d
  <2>5. /\ w \in States /\ KeepsPage(d, w) /\ w.placing = d.placing
        /\ w.voice = d.voice /\ w.held = d.held \cup {"highlight"}
    BY <2>4, SuspendResume DEF Owners
  <2> HIDE DEF w
  <2>6. /\ w.page = page /\ w.shown = shown /\ w.asked = asked
        /\ w.initial = "done" /\ w.restored = restored
        /\ w.held = held \cup {"highlight"}
    BY <1>3, <1>6, <1>7, <2>4, <2>5 DEF KeepsPage
  <2>7. /\ t \in States
        /\ t.shown = shown /\ t.initial = "done" /\ t.asked = asked
        /\ t.page.revision = page.revision + 1
        /\ t.handled = t.page.revision /\ t.saving = 0
        /\ t.restorer = NoRestoration /\ t.restored = restored
        /\ t.page.status = "chapter-too-large"
        /\ ~t.voice.pending /\ ~t.voice.available
        /\ t.highlight = NoHighlight
        /\ t.held = (held \cup {"highlight"}) \ {"reflow", "highlight"}
        /\ t.voice.intent = "inactive" /\ ~t.voice.speaks
        /\ t.voice.request = Nowhere /\ t.voice.nav = NoNavigation
    BY <1>10, <2>3, <2>5, <2>6, VoiceNavigates
  <2>8. /\ NoHighlight.at = Nowhere /\ Nowhere.chapter = 0
        /\ ~NoHighlight.eligible /\ ~NoNavigation.open /\ 0 \notin Huge
        /\ NoRestoration.reason = "none"
    BY PageAssumption
       DEF NoHighlight, Nowhere, NoNavigation, NoRestoration
  <2>9. /\ page.revision \in Nat /\ shown.revision \in Nat
        /\ shown.revision <= page.revision
    BY <1>3 DEF State, Good, Calm, States, Pages, Frames, Bounds
  <2>10. Bounds(t) /\ Opening(t) /\ Places(t)
    BY <1>3, <2>7, <2>8, <2>9 DEF State, Good, Calm, Bounds, Opening, Places
  <2>11. Suspended(t) /\ Quiet(t)
    BY <1>3, <2>7, <2>8 DEF State, Good, Calm, Suspended, Quiet
  <2>12. Coming(t) /\ Settles(t) /\ ~Unsaid(t)
    BY <2>7, <2>8 DEF Coming, Settles, Unsaid
  <2> QED BY <1>1, <1>3, <2>7, <2>10, <2>11, <2>12, GoesOn
          DEF Good, Calm, ToBeSaid, Tells
<1> QED BY <1>9, <1>10

LEMMA CompletionKeeps == ASSUME IInv, SegmentCompletes PROVE IInv' /\ Goes
<1> DEFINE at == [highlight.at EXCEPT !.offset = 1]
           c == [State EXCEPT !.highlight.eligible = FALSE,
                              !.highlight.done = TRUE]
           d == [c EXCEPT !.highlight.frame = FALSE]
           t == settleActive(d, at)
<1>1. /\ Task /\ Good(State) /\ voice.speaks /\ highlight.at # Nowhere
      /\ Becomes(IF highlight.eligible THEN t ELSE c)
  BY AtATask DEF SegmentCompletes
<1>2. State \in States /\ highlight \in Highlights
  BY <1>1, Typed
<1>3. /\ c \in States /\ KeepsPage(State, c) /\ c.placing = placing
      /\ c.voice = voice /\ c.held = held
      /\ c.highlight.at = highlight.at /\ ~c.highlight.eligible
      /\ c.asked = asked
  BY <1>2, ZenonT(60) DEF State, States, Highlights, KeepsPage
<1> HIDE DEF c
<1>4. /\ d \in States /\ KeepsPage(State, d) /\ d.placing = placing
      /\ d.voice = voice /\ d.held = held
      /\ d.highlight.at = highlight.at /\ ~d.highlight.eligible
      /\ d.asked = asked
  BY <1>3 DEF States, Highlights, KeepsPage
<1> HIDE DEF d
<1>5. CASE highlight.eligible
  <2>1. at \in Locators
    <3>1. highlight.at \in Locators /\ highlight.at.chapter \notin Huge
      BY <1>1, <1>2 DEF State, Good, Calm, Places, Highlights, Somewhere
    <3> QED BY <3>1 DEF Locators
  <2>2. Good(Resume(d, "highlight")) /\ Tells(State, d)
    BY <1>1, <1>4, OverGood
  <2>3. ~voice.pending /\ ~voice.nav.open
    BY <1>1 DEF State, Good, Calm, Quiet
  <2> HIDE DEF at
  <2>4. /\ Good(t) /\ Tells(d, t) /\ t.asked = d.asked
        /\ t.voice.speaks = d.voice.speaks
    BY <1>4, <2>1, <2>2, <2>3, SettleGood
  <2> HIDE DEF t
  <2> QED BY <1>1, <1>4, <1>5, <2>2, <2>4, GoesOn DEF Tells
<1>6. CASE ~highlight.eligible
  <2>1. "highlight" \notin held
    BY <1>1, <1>6 DEF State, Good, Calm, Suspended
  <2>2. Calm(c)
    BY <1>1, <1>3, <2>1
       DEF State, Good, Calm, Bounds, Places, Suspended, Quiet, Opening,
           KeepsPage
  <2>3. Coming(c) /\ Settles(c) /\ ToBeSaid(c) /\ Tells(State, c)
    BY <1>1, <1>3
       DEF State, Good, Coming, Settles, ToBeSaid, Unsaid, Tells, KeepsPage
  <2> QED BY <1>1, <1>3, <1>6, <2>2, <2>3, GoesOn DEF Good
<1> QED BY <1>5, <1>6

\* Nothing but the run changes, and no more than it may.
OnlyTheRun(s, t) ==
    /\ KeepsPage(s, t) /\ t.placing = s.placing
    /\ t.voice.pending = s.voice.pending
    /\ t.voice.available = s.voice.available
    /\ \/ t.highlight = s.highlight /\ t.held = s.held
       \/ t.highlight = NoHighlight /\ t.held = s.held \ {"highlight"}
    /\ \/ t.voice.nav = s.voice.nav /\ t.voice.request = s.voice.request
       \/ t.voice.nav = NoNavigation /\ t.voice.request = Nowhere
    /\ t.voice.speaks =>
         ~t.voice.pending /\ ~t.voice.nav.open /\ t.voice.intent # "inactive"
    /\ t.voice.intent # "inactive" =>
         s.voice.intent # "inactive" \/ s.initial = "done"
    /\ t.voice.intent = "inactive" => ~t.voice.nav.open

LEMMA VoiceGood ==
    ASSUME NEW s, NEW t \in States, Good(s), OnlyTheRun(s, t)
    PROVE  Good(t) /\ Tells(s, t)
<1> USE DEF OnlyTheRun
<1>1. /\ NoHighlight.at = Nowhere /\ Nowhere.chapter = 0 /\ ~NoHighlight.eligible
      /\ ~NoNavigation.open /\ 0 \notin Huge
  BY PageAssumption DEF NoHighlight, Nowhere, NoNavigation
<1>2. Bounds(t) /\ Opening(t)
  BY DEF Good, Calm, Bounds, Opening, KeepsPage
<1>3. Places(t) /\ Suspended(t)
  BY <1>1 DEF Good, Calm, Places, Suspended, KeepsPage
<1>4. Quiet(t)
  BY <1>1 DEF Good, Calm, Quiet
<1>5. Coming(t)
  BY DEF Good, Coming, KeepsPage
<1>6. Settles(t) /\ ToBeSaid(t) /\ Tells(s, t)
  BY <1>1 DEF Good, Settles, ToBeSaid, Unsaid, Tells, KeepsPage
<1> QED BY <1>2, <1>3, <1>4, <1>5, <1>6 DEF Good, Calm

LEMMA PauseKeeps == ASSUME IInv, Pause PROVE IInv' /\ Goes
<1> DEFINE t == [State EXCEPT !.voice.intent = "paused"]
<1>1. Task /\ Good(State) /\ voice.speaks /\ Becomes(t)
  BY AtATask DEF Pause
<1>2. State \in States
  BY <1>1, Typed
<1>3. /\ t \in States /\ KeepsPage(State, t) /\ t.placing = placing
      /\ t.voice.pending = voice.pending
      /\ t.voice.available = voice.available
      /\ t.highlight = highlight /\ t.held = held
      /\ t.voice.nav = voice.nav /\ t.voice.request = voice.request
      /\ t.voice.speaks = voice.speaks /\ t.voice.intent = "paused"
      /\ t.asked = asked
  BY <1>2 DEF State, States, Voices, KeepsPage
<1> HIDE DEF t
<1>4. ~voice.pending /\ ~voice.nav.open /\ voice.intent # "inactive"
  BY <1>1 DEF State, Good, Calm, Quiet
<1>5. Good(t) /\ Tells(State, t)
  <2>1. OnlyTheRun(State, t)
    BY <1>3, <1>4, Fields DEF OnlyTheRun
  <2> QED BY <1>1, <1>3, <2>1, VoiceGood
<1> QED BY <1>1, <1>3, <1>5, GoesOn

LEMMA StopEndsKeeps == ASSUME IInv, StopEnds PROVE IInv' /\ Goes
<1> DEFINE t == [State EXCEPT !.voice.stopping = FALSE]
<1>1. Task /\ Good(State) /\ Becomes(t) /\ ~Unsaid(State)
  BY AtATask DEF StopEnds
<1>2. State \in States
  BY <1>1, Typed
<1>3. /\ t \in States /\ KeepsPage(State, t) /\ t.placing = placing
      /\ t.voice.pending = voice.pending
      /\ t.voice.available = voice.available
      /\ t.highlight = highlight /\ t.held = held
      /\ t.voice.nav = voice.nav /\ t.voice.request = voice.request
      /\ t.voice.speaks = voice.speaks /\ t.voice.intent = voice.intent
      /\ t.asked = asked
  BY <1>2 DEF State, States, Voices, KeepsPage
<1> HIDE DEF t
<1>4. /\ voice.speaks => ~voice.pending /\ ~voice.nav.open
                         /\ voice.intent # "inactive"
      /\ voice.intent = "inactive" => ~voice.nav.open
  BY <1>1 DEF State, Good, Calm, Quiet
<1>5. Good(t) /\ Tells(State, t)
  <2>1. OnlyTheRun(State, t)
    BY <1>3, <1>4, Fields DEF OnlyTheRun
  <2> QED BY <1>1, <1>3, <2>1, VoiceGood
<1> QED BY <1>1, <1>3, <1>5, GoesOn

\* silence: the run is given up where the page is.
LEMMA SilenceGood ==
    ASSUME NEW s, Good(s), ~Unsaid(s)
    PROVE  LET t == silence(s) IN
           /\ Good(t) /\ Tells(s, t) /\ t.asked = s.asked /\ ~t.voice.speaks
           /\ ~t.voice.nav.open
<1> DEFINE t == silence(s)
<1>1. /\ t \in States /\ KeepsPage(s, t)
      /\ t.placing = s.placing /\ t.held = s.held
      /\ t.highlight = s.highlight
      /\ t.voice.pending = s.voice.pending
      /\ t.voice.available = s.voice.available
      /\ t.voice.intent = "inactive" /\ ~t.voice.speaks
      /\ t.voice.request = Nowhere /\ t.voice.nav = NoNavigation
  BY Silence DEF Good, Calm
<1> HIDE DEF t
<1>2. ~NoNavigation.open
  BY DEF NoNavigation
<1>3. Good(t) /\ Tells(s, t)
  <2>1. OnlyTheRun(s, t)
    BY <1>1, <1>2 DEF OnlyTheRun
  <2> QED BY <1>1, <2>1, VoiceGood
<1> QED BY <1>1, <1>2, <1>3 DEF t, KeepsPage

LEMMA StopKeeps == ASSUME IInv, Stop PROVE IInv' /\ Goes
<1> DEFINE c == silence(State)
           t == clear(c)
<1>1. Task /\ Good(State) /\ ~Unsaid(State) /\ Becomes(t)
  BY AtATask DEF Stop
<1>2. /\ Good(c) /\ Tells(State, c) /\ c.asked = asked /\ ~c.voice.speaks
      /\ ~c.voice.nav.open
  BY <1>1, SilenceGood DEF State
<1> HIDE DEF c
<1>3. /\ t \in States /\ KeepsPage(c, t)
      /\ t.placing = c.placing /\ t.voice = c.voice
      /\ t.held = c.held \ {"highlight"}
      /\ t.highlight = NoHighlight
  BY <1>2, Clear DEF Good, Calm
<1> HIDE DEF t
<1>4. Good(t) /\ Tells(c, t)
  <2>1. OnlyTheRun(c, t)
    BY <1>2, <1>3 DEF OnlyTheRun, Good, Calm, Quiet
  <2> QED BY <1>2, <1>3, <2>1, VoiceGood
<1> QED BY <1>1, <1>2, <1>3, <1>4, GoesOn DEF Tells, KeepsPage

LEMMA BookEndsKeeps == ASSUME IInv, BookEnds PROVE IInv' /\ Goes
<1> DEFINE c == silence(State)
           t == manualInspection(c)
<1>1. Task /\ Good(State) /\ ~Unsaid(State) /\ Becomes(t)
  BY AtATask DEF BookEnds
<1>2. /\ Good(c) /\ Tells(State, c) /\ c.asked = asked /\ ~c.voice.speaks
  BY <1>1, SilenceGood DEF State
<1> HIDE DEF c
<1>3. Good(t) /\ Tells(c, t) /\ t.asked = c.asked /\ t.voice = c.voice
  BY <1>2, InspectionGood
<1> HIDE DEF t
<1> QED BY <1>1, <1>2, <1>3, GoesOn DEF Tells


\* A run starts on a page that is rendered, in the chapter it starts from.
Starts ==
    ~voice.speaks /\ voice'.speaks =>
        page.status = "render"
        /\ (voice.nav.open => page.at.chapter = voice.nav.target.chapter)

\* An action that starts a run keeps what is asked for.
GoesOrStarts == asked' = asked /\ Starts

LEMMA RenderedToStart ==
    ASSUME Good(State), ~Unsaid(State), ~voice.pending, voice.available
    PROVE  page.status = "render" /\ initial = "done"
BY DEF State, Good, Calm, Opening, Unsaid

LEMMA ResumeKeeps == ASSUME IInv, ResumeVoice PROVE IInv' /\ GoesOrStarts
<1> DEFINE c == [State EXCEPT !.voice.intent = "playing", !.voice.speaks = TRUE]
           d == [c EXCEPT !.highlight.eligible = TRUE]
<1>1. /\ Task /\ Good(State) /\ ~Unsaid(State)
      /\ ~voice.pending /\ voice.available /\ ~voice.nav.open
      /\ IF highlight.at # Nowhere /\ ~highlight.done
         THEN \E s \in Refreshed(d) : Becomes(s) ELSE Becomes(c)
  BY AtATask DEF ResumeVoice, CanStart
<1>2. State \in States /\ page.status = "render" /\ initial = "done"
  BY <1>1, Typed, RenderedToStart
<1>3. /\ c \in States /\ KeepsPage(State, c) /\ c.placing = placing
      /\ c.voice.pending = voice.pending
      /\ c.voice.available = voice.available
      /\ c.highlight = highlight /\ c.held = held
      /\ c.voice.nav = voice.nav /\ c.voice.request = voice.request
      /\ c.voice.speaks /\ c.voice.intent = "playing"
      /\ c.asked = asked
  BY <1>2, ZenonT(60) DEF State, States, Voices, KeepsPage
<1> HIDE DEF c
<1>4. OnlyTheRun(State, c)
  BY <1>1, <1>2, <1>3, Fields DEF OnlyTheRun
<1>5. Good(c) /\ Tells(State, c)
  BY <1>1, <1>3, <1>4, VoiceGood
<1>6. CASE highlight.at # Nowhere /\ ~highlight.done
  <2>1. PICK t \in Refreshed(d) : Becomes(t)
    BY <1>1, <1>6
  <2>2. /\ d \in States /\ KeepsPage(c, d) /\ d.placing = c.placing
        /\ d.voice = c.voice /\ d.held = c.held
        /\ d.highlight.at = highlight.at /\ d.highlight.eligible
        /\ d.highlight.frame = highlight.frame
        /\ d.highlight.requested = highlight.requested
    BY <1>3 DEF States, Highlights, KeepsPage
  <2> HIDE DEF d
  <2>3. Calm(d)
    BY <1>1, <1>3, <1>5, <1>6, <2>2
       DEF Good, Calm, Bounds, Places, Suspended, Quiet, Opening, KeepsPage
  <2>4. Coming(d) /\ Settles(d) /\ ToBeSaid(d) /\ Tells(c, d)
    BY <1>5, <2>2 DEF Good, Coming, Settles, ToBeSaid, Unsaid, Tells, KeepsPage
  <2>5. Good(t) /\ Tells(d, t) /\ t.asked = d.asked
    BY <2>1, <2>3, <2>4, RefreshGood DEF Good
  <2>6. ~Unsaid(t) /\ t.asked = asked
    BY <1>1, <1>3, <1>5, <2>2, <2>4, <2>5 DEF Tells, KeepsPage
  <2> QED BY <1>1, <1>2, <2>1, <2>5, <2>6, Entered DEF GoesOrStarts, Starts
<1>7. CASE ~(highlight.at # Nowhere /\ ~highlight.done)
  <2>1. ~Unsaid(c)
    BY <1>1, <1>5 DEF Tells
  <2> QED BY <1>1, <1>2, <1>3, <1>5, <1>7, <2>1, Entered DEF GoesOrStarts, Starts
<1> QED BY <1>6, <1>7

LEMMA FinishKeeps == ASSUME IInv, FinishNavigation PROVE IInv' /\ GoesOrStarts
<1> DEFINE starts == voice.nav.restart /\ ~voice.pending /\ voice.available
           over == [voice EXCEPT !.nav = NoNavigation, !.request = Nowhere]
           intent == IF starts THEN "playing"
                     ELSE IF voice.nav.restart THEN "inactive" ELSE "paused"
           v == [over EXCEPT !.speaks = starts, !.intent = intent]
           t == [State EXCEPT !.voice = v]
<1>1. FinishDue /\ Good(State) /\ Becomes(t)
  BY DEF FinishNavigation, IInv
<1>2. voice.nav.open /\ voice.nav.settled /\ State \in States /\ voice \in Voices
  BY <1>1, Typed DEF FinishDue
<1>3. starts \in BOOLEAN /\ intent \in {"inactive", "playing", "paused"}
  BY <1>2 DEF Voices, Navigations
<1>4. /\ v \in Voices /\ v.nav = NoNavigation /\ v.request = Nowhere
      /\ v.speaks = starts /\ v.intent = intent
      /\ v.pending = voice.pending /\ v.available = voice.available
  <2> HIDE DEF starts, intent
  <2> QED BY <1>2, <1>3, NothingTyped DEF Voices
<1>5. starts => ~v.pending /\ v.intent # "inactive"
  BY <1>4
<1>6. starts => ~voice.pending /\ voice.available
  OBVIOUS
<1> HIDE DEF v, starts, intent
<1>7. /\ t \in States /\ KeepsPage(State, t) /\ t.placing = placing
      /\ t.highlight = highlight /\ t.held = held /\ t.voice = v
      /\ t.asked = asked
  BY <1>2, <1>4 DEF State, States, KeepsPage
<1> HIDE DEF t
<1>8. ~NoNavigation.open
  BY DEF NoNavigation
<1>9. voice.intent # "inactive" /\ ~Unsaid(State)
  BY <1>1, <1>2 DEF State, Good, Calm, Quiet, ToBeSaid
<1>10. OnlyTheRun(State, t)
  BY <1>4, <1>5, <1>7, <1>8, <1>9, Fields DEF OnlyTheRun
<1>11. Good(t) /\ ~Unsaid(t)
  BY <1>1, <1>7, <1>9, <1>10, VoiceGood DEF Tells
<1>12. starts => /\ page.status = "render"
                 /\ page.at.chapter = voice.nav.target.chapter
  <2>1. starts => page.status = "render"
    BY <1>1, <1>6, <1>9, RenderedToStart
  <2>2. starts => page.at.chapter = voice.nav.target.chapter
    BY <1>1, <1>2, <1>6 DEF State, Good, Settles
  <2> QED BY <2>1, <2>2
<1> QED BY <1>1, <1>4, <1>7, <1>11, <1>12, Entered DEF GoesOrStarts, Starts

\* place: while the page settles the narration neither follows nor says.
LEMMA PlaceFields ==
    ASSUME NEW s \in States
    PROVE  LET t == place(s) IN
           /\ t \in States /\ KeepsPage(s, t) /\ t.placing
           /\ t.held = s.held \ {"highlight"} /\ t.highlight = NoHighlight
           /\ t.voice.pending /\ t.voice.available = s.voice.available
           /\ t.voice.intent = s.voice.intent /\ t.voice.speaks = s.voice.speaks
           /\ t.voice.nav = s.voice.nav /\ t.voice.request = s.voice.request
           /\ t.voice.stopping = s.voice.stopping
<1> DEFINE c == [s EXCEPT !.placing = TRUE]
           d == [c EXCEPT !.voice.pending = TRUE]
<1>1. /\ c \in States /\ KeepsPage(s, c) /\ c.placing /\ c.held = s.held
      /\ c.highlight = s.highlight /\ c.voice = s.voice
  BY DEF States, KeepsPage
<1>2. place(s) = clear(d)
  BY DEF place, beginReaderPlacement
<1> HIDE DEF c
<1>3. /\ d \in States /\ KeepsPage(c, d) /\ d.placing = c.placing
      /\ d.held = c.held /\ d.highlight = c.highlight
      /\ d.voice.pending /\ d.voice.available = c.voice.available
      /\ d.voice.intent = c.voice.intent /\ d.voice.speaks = c.voice.speaks
      /\ d.voice.nav = c.voice.nav /\ d.voice.request = c.voice.request
      /\ d.voice.stopping = c.voice.stopping
  BY <1>1 DEF States, Voices, KeepsPage
<1> HIDE DEF d
<1> DEFINE e == clear(d)
<1>4. /\ e \in States /\ KeepsPage(d, e) /\ e.placing = d.placing
      /\ e.voice = d.voice
      /\ e.held = d.held \ {"highlight"} /\ e.highlight = NoHighlight
  BY <1>3, Clear
<1>5. place(s) = e
  BY <1>2 DEF d
<1> HIDE DEF e
<1> QED BY <1>1, <1>3, <1>4, <1>5, ZenonT(30) DEF KeepsPage

\* What was asked for by a boundary or a leaf comes first.
LEMMA RequestKeeps ==
    ASSUME IInv, RequestArrives
    PROVE  /\ IInv' /\ voice.request # Nowhere /\ ~asked'.open
           /\ voice'.speaks => voice.speaks
<1> DEFINE c == [State EXCEPT !.voice.request = Nowhere]
           p == place(c)
           t == continueNavigation(p, voice.request)
<1>1. Good(State) /\ voice.request # Nowhere /\ Becomes(t)
  BY DEF RequestArrives, RequestDue, IInv
<1>2. State \in States /\ voice \in Voices
  BY <1>1, Typed
<1>3. /\ c \in States /\ KeepsPage(State, c) /\ c.placing = placing
      /\ c.held = held /\ c.highlight = highlight
      /\ c.voice.pending = voice.pending
      /\ c.voice.intent = voice.intent /\ c.voice.speaks = voice.speaks
      /\ c.voice.nav = voice.nav /\ c.voice.request = Nowhere
  BY <1>2, NothingTyped DEF State, States, Voices, KeepsPage
<1> HIDE DEF c
<1>4. /\ p \in States /\ KeepsPage(c, p) /\ p.placing
      /\ p.held = c.held \ {"highlight"} /\ p.highlight = NoHighlight
      /\ p.voice.pending
      /\ p.voice.intent = c.voice.intent /\ p.voice.speaks = c.voice.speaks
      /\ p.voice.nav = c.voice.nav /\ p.voice.request = c.voice.request
  BY <1>3, PlaceFields
<1> HIDE DEF p
<1>5. /\ NoHighlight.at = Nowhere /\ Nowhere.chapter = 0 /\ ~NoHighlight.eligible
      /\ 0 \notin Huge
  BY PageAssumption DEF NoHighlight, Nowhere
<1>6. voice.nav.open /\ ~voice.speaks /\ initial = "done"
  BY <1>1 DEF State, Good, Calm, Quiet, Opening
<1>7. Calm(p)
  <2>1. Calm(State) /\ initial = "done" BY <1>1, <1>6 DEF Good
  <2>2. Bounds(p) BY <1>3, <1>4, <2>1, SMTT(30) DEF State, Calm, Bounds, KeepsPage
  <2>3. Places(p)
    BY <1>3, <1>4, <1>5, <2>1, SMTT(30) DEF State, Calm, Places, KeepsPage
  <2>4. Suspended(p)
    BY <1>3, <1>4, <2>1, SMTT(30) DEF State, Calm, Suspended, KeepsPage
  <2>5. Quiet(p)
    BY <1>3, <1>4, <1>5, <1>6, <2>1, SMTT(30) DEF State, Calm, Quiet, KeepsPage
  <2>6. Opening(p) BY <1>3, <1>4, <2>1, SMTT(30) DEF State, Opening, KeepsPage
  <2> QED BY <1>4, <2>2, <2>3, <2>4, <2>5, <2>6 DEF Calm
<1>8. voice.request \in Somewhere
  BY <1>2 DEF Voices
<1>9. /\ Good(t) /\ ~t.asked.open /\ (t.voice.speaks => p.voice.speaks)
      /\ Unsaid(t) => t.shown.revision # t.page.revision
  BY <1>4, <1>7, <1>8, ContinueGood
<1> HIDE DEF t
<1> QED BY <1>1, <1>3, <1>4, <1>9, Entered

\* A chapter is asked for while the page is in place or the narration has
\* stopped, and the page goes there.
LEMMA ContinueKeeps ==
    ASSUME IInv, ContinueNavigation
    PROVE  /\ IInv' /\ (voice'.speaks => voice.speaks)
           /\ \/ asked.to = Nowhere \/ page'.at = asked.to
              \/ asked.to.chapter \in Huge /\ page'.status = "chapter-too-large"
<1> DEFINE t == continueNavigation(State, asked.to)
<1>1. /\ Good(State) /\ Becomes(t)
      /\ asked.open /\ (asked.waits => ~voice.stopping)
      /\ ~(voice.request # Nowhere /\ ~voice.stopping)
      /\ ~(voice.nav.open /\ voice.nav.settled /\ ~voice.stopping)
  BY DEF ContinueNavigation, ContinueDue, RequestDue, FinishDue, IInv
<1>2. asked.to \in Somewhere
  BY <1>1, Typed DEF Asked
<1>3. voice.nav.open => voice.pending
  BY <1>1 DEF State, Good, Settles
<1>4. voice.pending => placing
  BY <1>1 DEF State, Good, Calm, States, Settles
<1>5. /\ Good(t) /\ (t.voice.speaks => voice.speaks)
      /\ Unsaid(t) => t.shown.revision # t.page.revision
      /\ asked.to \in Locators /\ asked.to # Nowhere =>
            \/ t.page.at = asked.to
            \/ asked.to.chapter \in Huge /\ t.page.status = "chapter-too-large"
  <2>1. Calm(State)
    BY <1>1 DEF Good
  <2> QED BY <1>2, <1>3, <1>4, <2>1, ContinueGood, Fields
<1> HIDE DEF t
<1> QED BY <1>1, <1>2, <1>5, Entered DEF Somewhere


\* #beginNavigation, when none is open: what is said is stopped, and the page is
\* told where to go.
LEMMA BeginFields ==
    ASSUME NEW s \in States, NEW target \in Somewhere, NEW restart \in BOOLEAN,
           ~s.voice.nav.open
    PROVE  LET t == beginNavigation(s, target, restart) IN
           /\ t \in States /\ KeepsPage(s, t) /\ t.placing = s.placing
           /\ t.held = s.held \ {"highlight"} /\ t.highlight = NoHighlight
           /\ t.voice.pending = s.voice.pending
           /\ t.voice.available = s.voice.available
           /\ t.voice.intent # "inactive" /\ ~t.voice.speaks
           /\ t.voice.nav.open /\ t.voice.nav.target = target
           /\ ~t.voice.nav.settled
           /\ t.voice.request = s.voice.request
<1> DEFINE k == [open |-> TRUE, target |-> target,
                 restart |-> restart \/ s.voice.intent # "paused",
                 settled |-> FALSE]
           i == IF s.voice.intent = "inactive" THEN "playing" ELSE s.voice.intent
           c == [s EXCEPT !.voice.intent = i, !.voice.nav = k,
                          !.voice.speaks = FALSE,
                          !.voice.stopping = @ \/ s.voice.speaks]
           t == clear(c)
<1>1. beginNavigation(s, target, restart) = t
  BY DEF beginNavigation
<1>2. /\ k \in Navigations /\ k.open /\ k.target = target /\ ~k.settled
  BY DEF Navigations
<1>3. i \in {"playing", "paused"} /\ s.voice \in Voices
  BY DEF States, Voices
<1> HIDE DEF k, i
<1>4. /\ c \in States /\ KeepsPage(s, c) /\ c.placing = s.placing
      /\ c.held = s.held /\ c.voice.pending = s.voice.pending
      /\ c.voice.available = s.voice.available
      /\ c.voice.intent = i /\ ~c.voice.speaks /\ c.voice.nav = k
      /\ c.voice.request = s.voice.request
  BY <1>2, <1>3 DEF States, Voices, KeepsPage
<1> HIDE DEF c
<1>5. /\ t \in States /\ KeepsPage(c, t) /\ t.placing = c.placing
      /\ t.voice = c.voice
      /\ t.held = c.held \ {"highlight"} /\ t.highlight = NoHighlight
  BY <1>4, Clear
<1> HIDE DEF t
<1> QED BY <1>1, <1>2, <1>3, <1>4, <1>5 DEF KeepsPage

LEMMA BeginHere ==
    ASSUME State \in States, NEW target \in Somewhere, NEW restart \in BOOLEAN,
           ~voice.nav.open
    PROVE  LET t == beginNavigation(State, target, restart) IN
           /\ t \in States /\ KeepsPage(State, t) /\ t.placing = placing
           /\ t.held = held \ {"highlight"} /\ t.highlight = NoHighlight
           /\ t.voice.pending = voice.pending
           /\ t.voice.available = voice.available
           /\ t.voice.intent # "inactive" /\ ~t.voice.speaks
           /\ t.voice.nav.open /\ t.voice.nav.target = target
           /\ ~t.voice.nav.settled
           /\ t.voice.request = voice.request
<1> DEFINE t == beginNavigation(State, target, restart)
<1>1. ~State.voice.nav.open
  BY Fields
<1>2. /\ t \in States /\ KeepsPage(State, t) /\ t.placing = State.placing
      /\ t.held = State.held \ {"highlight"} /\ t.highlight = NoHighlight
      /\ t.voice.pending = State.voice.pending
      /\ t.voice.available = State.voice.available
      /\ t.voice.intent # "inactive" /\ ~t.voice.speaks
      /\ t.voice.nav.open /\ t.voice.nav.target = target
      /\ ~t.voice.nav.settled
      /\ t.voice.request = State.voice.request
  BY <1>1, BeginFields
<1> HIDE DEF t
<1> QED BY <1>2, Fields DEF t

\* A navigation of the narration begun where nothing else is asked for: it has a
\* request on its way, or is settled where the page is.
LEMMA BegunGood ==
    ASSUME NEW t \in States, Good(State), ~Unsaid(State),
           KeepsPage(State, t), t.placing = placing,
           initial = "done", ~voice.pending,
           asked.open => asked.waits,
           t.held = held \ {"highlight"}, t.highlight = NoHighlight,
           t.voice.pending = voice.pending,
           t.voice.available = voice.available,
           t.voice.intent # "inactive", ~t.voice.speaks, t.voice.nav.open,
           \/ t.voice.request # Nowhere /\ ~t.voice.nav.settled
           \/ /\ t.voice.request = Nowhere /\ t.voice.nav.settled
              /\ t.voice.nav.target = page.at
    PROVE  Good(t) /\ Tells(State, t) /\ t.asked = asked
<1>1. /\ NoHighlight.at = Nowhere /\ Nowhere.chapter = 0 /\ ~NoHighlight.eligible
      /\ 0 \notin Huge
  BY PageAssumption DEF NoHighlight, Nowhere
<1>2. Bounds(t) /\ Opening(t) /\ Places(t) /\ Suspended(t)
  <2>1. Calm(State) BY DEF Good
  <2>2. Bounds(t) BY <2>1, SMTT(30) DEF State, Calm, Bounds, KeepsPage
  <2>3. Opening(t) BY <2>1, SMTT(30) DEF State, Calm, Opening, KeepsPage
  <2>4. Places(t) BY <1>1, <2>1, SMTT(30) DEF State, Calm, Places, KeepsPage
  <2>5. Suspended(t) BY <2>1, SMTT(30) DEF State, Calm, Suspended, KeepsPage
  <2> QED BY <2>2, <2>3, <2>4, <2>5
<1>3. Quiet(t) /\ Coming(t)
  BY <1>1 DEF Quiet, Coming
<1>4. Settles(t)
  BY Fields DEF Settles, KeepsPage
<1>5. ~Unsaid(t) /\ t.asked = asked
  BY Fields DEF Unsaid, KeepsPage
<1> QED BY <1>2, <1>3, <1>4, <1>5 DEF Good, Calm, ToBeSaid, Tells

\* Nothing that does not wait is asked for when a task runs.
LEMMA AskedWaits == ASSUME Task PROVE asked.open => asked.waits
BY DEF Task, ContinueDue

LEMMA LeafKeeps == ASSUME IInv, StartAtLeaf PROVE IInv' /\ Goes
<1> DEFINE at == [chapter |-> shown.chapter, offset |-> 0]
           c == beginNavigation(State, at, TRUE)
           t == [c EXCEPT !.voice.request = at]
<1>1. /\ Task /\ Good(State) /\ ~Unsaid(State)
      /\ ~voice.pending /\ voice.available /\ ~voice.nav.open
      /\ Becomes(t)
  BY AtATask DEF StartAtLeaf, CanStart
<1>2. State \in States /\ initial = "done"
  BY <1>1, Typed, RenderedToStart
<1>3. at \in Somewhere /\ at # Nowhere
  BY <1>2, PageAssumption DEF State, States, Frames, Somewhere, Locators, Nowhere
<1> HIDE DEF at
<1>4. /\ c \in States /\ KeepsPage(State, c) /\ c.placing = placing
      /\ c.held = held \ {"highlight"} /\ c.highlight = NoHighlight
      /\ c.voice.pending = voice.pending
      /\ c.voice.available = voice.available
      /\ c.voice.intent # "inactive" /\ ~c.voice.speaks
      /\ c.voice.nav.open /\ ~c.voice.nav.settled
  BY <1>1, <1>2, <1>3, BeginHere
<1> HIDE DEF c
<1>5. /\ t \in States /\ KeepsPage(State, t) /\ t.placing = placing
      /\ t.held = held \ {"highlight"} /\ t.highlight = NoHighlight
      /\ t.voice.pending = voice.pending
      /\ t.voice.available = voice.available
      /\ t.voice.intent # "inactive" /\ ~t.voice.speaks
      /\ t.voice.nav.open /\ ~t.voice.nav.settled /\ t.voice.request = at
  BY <1>3, <1>4 DEF States, Voices, KeepsPage
<1> HIDE DEF t
<1>6. Good(t) /\ Tells(State, t) /\ t.asked = asked
  BY <1>1, <1>2, <1>3, <1>5, BegunGood, AskedWaits
<1> QED BY <1>1, <1>5, <1>6, GoesOn

LEMMA BoundaryKeeps == ASSUME IInv, GoToBoundary PROVE IInv' /\ Goes
<1>0. PICK at \in Locators :
        Becomes([beginNavigation(State, at, FALSE) EXCEPT !.voice.request = at])
  BY DEF GoToBoundary
<1> DEFINE c == beginNavigation(State, at, FALSE)
           t == [c EXCEPT !.voice.request = at]
<1>1. /\ Task /\ Good(State) /\ ~Unsaid(State)
      /\ ~voice.pending /\ ~voice.nav.open /\ Becomes(t)
  BY <1>0, AtATask DEF GoToBoundary
<1>2. State \in States /\ initial = "done"
  BY <1>1, Typed DEF State, Good, Calm, Opening
<1>3. at \in Somewhere /\ at # Nowhere
  BY PageAssumption DEF Somewhere, Locators, Nowhere
<1>4. /\ c \in States /\ KeepsPage(State, c) /\ c.placing = placing
      /\ c.held = held \ {"highlight"} /\ c.highlight = NoHighlight
      /\ c.voice.pending = voice.pending
      /\ c.voice.available = voice.available
      /\ c.voice.intent # "inactive" /\ ~c.voice.speaks
      /\ c.voice.nav.open /\ ~c.voice.nav.settled
  BY <1>1, <1>2, <1>3, BeginHere
<1> HIDE DEF c
<1>5. /\ t \in States /\ KeepsPage(State, t) /\ t.placing = placing
      /\ t.held = held \ {"highlight"} /\ t.highlight = NoHighlight
      /\ t.voice.pending = voice.pending
      /\ t.voice.available = voice.available
      /\ t.voice.intent # "inactive" /\ ~t.voice.speaks
      /\ t.voice.nav.open /\ ~t.voice.nav.settled /\ t.voice.request = at
  BY <1>3, <1>4 DEF States, Voices, KeepsPage
<1> HIDE DEF t
<1>6. Good(t) /\ Tells(State, t) /\ t.asked = asked
  BY <1>1, <1>2, <1>3, <1>5, BegunGood, AskedWaits
<1> QED BY <1>1, <1>5, <1>6, GoesOn

LEMMA StartHereKeeps == ASSUME IInv, StartHere PROVE IInv' /\ GoesOrStarts
<1> DEFINE b == [State EXCEPT !.voice.intent = "playing", !.voice.speaks = TRUE]
           c == beginNavigation(State, page.at, TRUE)
           t == [c EXCEPT !.voice.nav.settled = TRUE]
           plain == voice.intent = "inactive" /\ ~voice.stopping
<1>1. /\ Task /\ Good(State) /\ ~Unsaid(State)
      /\ ~voice.pending /\ voice.available /\ ~voice.nav.open
      /\ Becomes(IF plain THEN b ELSE t)
  BY AtATask DEF StartHere, CanStart
<1>2. /\ State \in States /\ page \in Pages /\ page.status = "render"
      /\ initial = "done"
  BY <1>1, Typed, RenderedToStart
<1>3. CASE plain
  <2>1. /\ b \in States /\ KeepsPage(State, b) /\ b.placing = placing
        /\ b.voice.pending = voice.pending
        /\ b.voice.available = voice.available
        /\ b.highlight = highlight /\ b.held = held
        /\ b.voice.nav = voice.nav /\ b.voice.request = voice.request
        /\ b.voice.speaks /\ b.voice.intent = "playing"
        /\ b.asked = asked
    BY <1>2, ZenonT(60) DEF State, States, Voices, KeepsPage
  <2>2. Becomes(b)
    BY <1>1, <1>3
  <2> HIDE DEF b
  <2>3. OnlyTheRun(State, b)
    BY <1>1, <1>2, <2>1, Fields DEF OnlyTheRun
  <2>4. Good(b) /\ ~Unsaid(b)
    BY <1>1, <2>1, <2>3, VoiceGood DEF Tells
  <2> QED BY <1>1, <1>2, <2>1, <2>2, <2>4, Entered DEF GoesOrStarts, Starts
<1>4. CASE ~plain
  <2>1. page.at \in Somewhere
    BY <1>2 DEF Pages, Somewhere
  <2>2. /\ c \in States /\ KeepsPage(State, c) /\ c.placing = placing
        /\ c.held = held \ {"highlight"} /\ c.highlight = NoHighlight
        /\ c.voice.pending = voice.pending
        /\ c.voice.available = voice.available
        /\ c.voice.intent # "inactive" /\ ~c.voice.speaks
        /\ c.voice.nav.open /\ c.voice.nav.target = page.at
        /\ c.voice.request = voice.request
    BY <1>1, <1>2, <2>1, BeginHere
  <2>3. Becomes(t)
    BY <1>1, <1>4
  <2> HIDE DEF c
  <2>4. /\ t \in States /\ KeepsPage(State, t) /\ t.placing = placing
        /\ t.held = held \ {"highlight"} /\ t.highlight = NoHighlight
        /\ t.voice.pending = voice.pending
        /\ t.voice.available = voice.available
        /\ t.voice.intent # "inactive" /\ ~t.voice.speaks
        /\ t.voice.nav.open /\ t.voice.nav.target = page.at
        /\ t.voice.nav.settled /\ t.voice.request = voice.request
    BY <2>2 DEF States, Voices, Navigations, KeepsPage
  <2> HIDE DEF t
  <2>5. voice.request = Nowhere
    BY <1>1 DEF State, Good, Calm, Quiet
  <2>6. Good(t) /\ Tells(State, t) /\ t.asked = asked
    BY <1>1, <1>2, <2>4, <2>5, BegunGood, AskedWaits
  <2> QED BY <1>1, <2>3, <2>4, <2>6, GoesOn DEF Goes, GoesOrStarts, Starts
<1> QED BY <1>3, <1>4


\* A chapter asked for: the page settles, and what is said is stopped first.
LEMMA GoToKeeps ==
    ASSUME IInv, NEW to \in Somewhere, GoTo(to)
    PROVE  IInv' /\ asked'.open /\ (voice'.speaks => voice.speaks)
<1> DEFINE p == place(State)
           waits == voice.intent # "inactive"
           k == [open |-> TRUE, to |-> to, waits |-> waits]
           b == [p EXCEPT !.asked = k]
           g == beginNavigation(b, Nowhere, FALSE)
           t == IF waits THEN g ELSE b
<1>1. Task /\ Good(State) /\ ~Unsaid(State) /\ Becomes(t)
  BY AtATask DEF GoTo
<1>2. State \in States
  BY <1>1, Typed
<1>3. /\ p \in States /\ KeepsPage(State, p) /\ p.placing
      /\ p.held = held \ {"highlight"} /\ p.highlight = NoHighlight
      /\ p.voice.pending
      /\ p.voice.intent = voice.intent /\ p.voice.speaks = voice.speaks
      /\ p.voice.nav = voice.nav /\ p.voice.request = voice.request
  BY <1>2, PlaceFields, Fields
<1> HIDE DEF p
<1>4. k \in Asked /\ k.open /\ k.waits = waits
  BY DEF Asked
<1> HIDE DEF k
<1>5. /\ b \in States
      /\ b.page = page /\ b.shown = shown /\ b.handled = handled
      /\ b.initial = initial /\ b.saving = saving /\ b.restorer = restorer
      /\ b.restored = restored /\ b.asked = k /\ b.placing
      /\ b.held = held \ {"highlight"} /\ b.highlight = NoHighlight
      /\ b.voice = p.voice
  BY <1>3, <1>4 DEF State, States, KeepsPage
<1> HIDE DEF b
<1>6. /\ voice.nav.open => ~voice.speaks /\ waits
      /\ voice.speaks => waits
      /\ voice.request # Nowhere => voice.nav.open
      /\ waits => initial = "done"
  BY <1>1 DEF State, Good, Calm, Quiet, Opening
<1> HIDE DEF waits
<1>7. /\ t \in States
      /\ t.page = page /\ t.shown = shown /\ t.handled = handled
      /\ t.initial = initial /\ t.saving = saving /\ t.restorer = restorer
      /\ t.restored = restored /\ t.asked = k /\ t.placing
      /\ t.held = held \ {"highlight"} /\ t.highlight = NoHighlight
      /\ t.voice.pending /\ ~t.voice.speaks
      /\ waits <=> t.voice.intent # "inactive"
      /\ t.voice.nav.open => waits
      /\ t.voice.request # Nowhere => t.voice.nav.open
  <2>1. CASE ~waits
    <3>1. t = b
      BY <2>1
    <3> HIDE DEF t
    <3> QED BY <1>3, <1>5, <1>6, <2>1, <3>1 DEF waits
  <2>2. CASE waits /\ voice.nav.open
    <3>1. t = [b EXCEPT !.voice.nav.restart = @ \/ FALSE]
      BY <1>3, <1>5, <2>2 DEF beginNavigation
    <3> HIDE DEF t
    <3>2. /\ t \in States /\ KeepsPage(b, t) /\ t.placing = b.placing
          /\ t.held = b.held /\ t.highlight = b.highlight
          /\ t.voice.pending = b.voice.pending
          /\ t.voice.intent = b.voice.intent
          /\ t.voice.speaks = b.voice.speaks
          /\ t.voice.nav.open = b.voice.nav.open
          /\ t.voice.request = b.voice.request
      BY <1>5, <3>1 DEF States, Voices, Navigations, KeepsPage
    <3> QED BY <1>3, <1>5, <1>6, <2>2, <3>2 DEF KeepsPage, waits
  <2>3. CASE waits /\ ~voice.nav.open
    <3>1. t = g
      BY <2>3
    <3>2. b \in States /\ ~b.voice.nav.open /\ Nowhere \in Somewhere
      BY <1>3, <1>5, <2>3, NothingTyped
    <3>3. /\ g \in States /\ KeepsPage(b, g) /\ g.placing = b.placing
          /\ g.held = b.held \ {"highlight"} /\ g.highlight = NoHighlight
          /\ g.voice.pending = b.voice.pending
          /\ g.voice.intent # "inactive" /\ ~g.voice.speaks
          /\ g.voice.nav.open
      BY <3>2, BeginFields, ZenonT(60)
    <3> HIDE DEF t, g
    <3> QED BY <1>3, <1>5, <2>3, <3>1, <3>3 DEF KeepsPage
  <2> QED BY <2>1, <2>2, <2>3
<1> HIDE DEF t
<1>8. /\ NoHighlight.at = Nowhere /\ Nowhere.chapter = 0 /\ ~NoHighlight.eligible
      /\ 0 \notin Huge
  BY PageAssumption DEF NoHighlight, Nowhere
<1>9. /\ Bounds(State) /\ Places(State) /\ Suspended(State) /\ Opening(State)
      /\ initial # "done" => voice.intent = "inactive"
  BY <1>1 DEF State, Good, Calm, Opening
<1>10. Bounds(t) /\ Places(t) /\ Suspended(t) /\ Opening(t)
  BY <1>6, <1>7, <1>8, <1>9, Fields DEF Bounds, Places, Suspended, Opening
<1>11. Quiet(t)
  BY <1>7, <1>8 DEF Quiet
<1>12. Coming(t) /\ Settles(t) /\ ~Unsaid(t)
  BY <1>4, <1>7 DEF Coming, Settles, Unsaid
<1>13. Good(t)
  BY <1>7, <1>10, <1>11, <1>12 DEF Good, Calm, ToBeSaid
<1> QED BY <1>1, <1>4, <1>7, <1>12, <1>13, Entered

LEMMA NavigateKeeps ==
    ASSUME IInv, Navigate
    PROVE  IInv' /\ asked'.open /\ (voice'.speaks => voice.speaks)
<1>1. PICK to \in {at \in Locators : at.offset = 0} \cup {Nowhere} : GoTo(to)
  BY DEF Navigate
<1>2. to \in Somewhere
  BY <1>1 DEF Somewhere
<1> QED BY <1>1, <1>2, GoToKeeps

-----------------------------------------------------------------------------
(* The theorems *)

LEMMA InitGood == Init => IInv
<1> SUFFICES ASSUME Init PROVE IInv
  OBVIOUS
<1>1. PICK at \in Locators, start \in {"restored", "fresh", "too-large"} :
        LET restores == start = "restored"
            renders == start # "too-large" IN
        /\ start # "restored" => at.offset = 0
        /\ renders <=> at.chapter \notin Huge
        /\ page = [at |-> at, revision |-> 0,
                   status |-> IF renders THEN "render" ELSE "chapter-too-large"]
        /\ shown = Snapshot(page) /\ mounted = FALSE /\ handled = 0
        /\ initial = IF restores THEN "pending" ELSE "done"
        /\ asked = NotAsked /\ placing = FALSE /\ saving = 0
        /\ restorer = NoRestoration /\ restored = NoResult
        /\ highlight = NoHighlight
        /\ held = IF restores THEN {"initial"} ELSE {}
        /\ voice = [pending |-> restores, available |-> renders,
                    intent |-> "inactive", speaks |-> FALSE,
                    nav |-> NoNavigation, request |-> Nowhere,
                    stopping |-> FALSE]
  BY DEF Init
<1>2. /\ page \in Pages /\ page.at = at /\ page.revision = 0
      /\ page.status = IF start # "too-large" THEN "render"
                                              ELSE "chapter-too-large"
  BY <1>1 DEF Pages, Statuses
<1>3. /\ shown \in Frames /\ shown.revision = 0 /\ shown.status = page.status
      /\ shown.chapter = at.chapter
  BY <1>1, <1>2 DEF Snapshot, Frames, Pages, Locators
<1>4. /\ voice \in Voices /\ voice.pending = (start = "restored")
      /\ voice.available = (start # "too-large") /\ voice.intent = "inactive"
      /\ ~voice.speaks /\ voice.nav = NoNavigation /\ voice.request = Nowhere
  <2> DEFINE restores == start = "restored"
             renders == start # "too-large"
  <2>1. restores \in BOOLEAN /\ renders \in BOOLEAN
    OBVIOUS
  <2>2. voice = [pending |-> restores, available |-> renders,
                 intent |-> "inactive", speaks |-> FALSE,
                 nav |-> NoNavigation, request |-> Nowhere,
                 stopping |-> FALSE]
    BY <1>1
  <2> HIDE DEF restores, renders
  <2>3. /\ voice \in Voices /\ voice.pending = restores
        /\ voice.available = renders /\ voice.intent = "inactive"
        /\ ~voice.speaks /\ voice.nav = NoNavigation /\ voice.request = Nowhere
    BY <2>1, <2>2, NothingTyped DEF Voices
  <2> QED BY <2>3 DEF restores, renders
<1>5. /\ initial = IF start = "restored" THEN "pending" ELSE "done"
      /\ held = IF start = "restored" THEN {"initial"} ELSE {}
      /\ mounted = FALSE /\ handled = 0 /\ placing = FALSE /\ saving = 0
      /\ asked = NotAsked /\ restorer = NoRestoration /\ restored = NoResult
      /\ highlight = NoHighlight
      /\ start # "too-large" <=> at.chapter \notin Huge
  BY <1>1
<1>6. /\ NoHighlight.at = Nowhere /\ Nowhere.chapter = 0 /\ ~NoHighlight.eligible
      /\ ~NoNavigation.open /\ 0 \notin Huge /\ NoRestoration.reason = "none"
      /\ ~NotAsked.open
  BY PageAssumption DEF NoHighlight, Nowhere, NoNavigation, NoRestoration, NotAsked
<1>7. State \in States
  BY <1>2, <1>3, <1>4, <1>5, NothingTyped DEF State, States, Owners
<1>8. Bounds(State) /\ Places(State)
  BY <1>2, <1>3, <1>5, <1>6, Fields DEF Bounds, Places
<1>9. Suspended(State) /\ Quiet(State) /\ Opening(State)
  <2>1. Suspended(State)
    BY <1>5, Fields DEF Suspended
  <2>2. Quiet(State)
    BY <1>4, <1>5, <1>6, Fields DEF Quiet
  <2>3. Opening(State)
    BY <1>2, <1>4, <1>5, <1>6, Fields DEF Opening
  <2> QED BY <2>1, <2>2, <2>3
<1>10. Coming(State) /\ Settles(State) /\ ~Unsaid(State)
  BY <1>2, <1>4, <1>5, <1>6, Fields DEF Coming, Settles, Unsaid
<1> QED BY <1>7, <1>8, <1>9, <1>10 DEF IInv, Good, Calm, ToBeSaid

\* The page goes to the chapter asked for.
Reaches ==
    asked.open /\ ~asked'.open =>
         \/ voice.request # Nowhere
         \/ asked.to = Nowhere \/ page'.at = asked.to
         \/ asked.to.chapter \in Huge
            /\ page'.status = "chapter-too-large"

LEMMA NextKeeps ==
    ASSUME IInv, Next
    PROVE  IInv' /\ Reaches /\ Starts
<1> USE DEF Reaches, Starts, Goes, GoesOrStarts
<1>1. CASE Commit
  BY <1>1, CommitKeeps
<1>2. CASE RequestArrives
  BY <1>2, RequestKeeps
<1>3. CASE FinishNavigation
  BY <1>3, FinishKeeps
<1>4. CASE ContinueNavigation
  BY <1>4, ContinueKeeps
<1>5. CASE Navigate
  BY <1>5, NavigateKeeps
<1>6. CASE MountDestination
  BY <1>6, MountKeeps
<1>7. CASE RestorerFrame
  BY <1>7, RestorerKeeps
<1>8. CASE PreferenceChange
  BY <1>8, PreferenceKeeps
<1>9. CASE ViewportResize
  BY <1>9, ResizeKeeps
<1>10. CASE Sample
  BY <1>10, SampleKeeps
<1>11. CASE FollowFrame
  BY <1>11, FollowKeeps
<1>12. CASE StartHere
  BY <1>12, StartHereKeeps
<1>13. CASE StartAtLeaf
  BY <1>13, LeafKeeps
<1>14. CASE GoToBoundary
  BY <1>14, BoundaryKeeps
<1>15. CASE SegmentStarts
  BY <1>15, SegmentKeeps
<1>16. CASE SegmentCompletes
  BY <1>16, CompletionKeeps
<1>17. CASE Pause
  BY <1>17, PauseKeeps
<1>18. CASE ResumeVoice
  BY <1>18, ResumeKeeps
<1>19. CASE Stop
  BY <1>19, StopKeeps
<1>20. CASE BookEnds
  BY <1>20, BookEndsKeeps
<1>21. CASE StopEnds
  BY <1>21, StopEndsKeeps
<1> QED BY <1>1, <1>2, <1>3, <1>4, <1>5, <1>6, <1>7, <1>8, <1>9, <1>10, <1>11,
           <1>12, <1>13, <1>14, <1>15, <1>16, <1>17, <1>18, <1>19, <1>20, <1>21
        DEF Next

LEMMA StutterKeeps ==
    ASSUME IInv, UNCHANGED vars
    PROVE  IInv'
<1>1. State' = State /\ SyncCommitDue' = SyncCommitDue
  BY DEF vars, pageVars, State, SyncCommitDue, Snapshot
<1> QED BY <1>1 DEF IInv

LEMMA Invariant == Spec => []IInv
<1>1. IInv /\ [Next]_vars => IInv'
  BY NextKeeps, StutterKeeps
<1> QED BY <1>1, InitGood, PTL DEF Spec

\* The state of the page is well formed: what is shown and handled is never ahead
\* of the page, and the placement to be saved is that of its last revision
\* (ReaderPublication.tsx, pendingPositionSaveRevision).
THEOREM PageTyped == Spec => []TypeOK
<1>1. IInv => TypeOK
  <2> SUFFICES ASSUME IInv PROVE TypeOK
    OBVIOUS
  <2>1. State \in States /\ Bounds(State)
    BY DEF IInv, Good, Calm
  <2>2. /\ page \in Pages /\ shown \in Frames /\ handled \in Nat
        /\ mounted \in BOOLEAN
        /\ initial \in {"pending", "started", "done"} /\ placing \in BOOLEAN
        /\ held \subseteq Owners /\ page.revision \in Nat
        /\ shown.revision \in Nat
    BY <2>1 DEF State, States, Pages, Frames
  <2>3. shown.revision \in 0..page.revision /\ handled \in 0..page.revision
          /\ saving \in {0, page.revision}
    BY <2>1, <2>2 DEF State, Bounds
  <2> QED BY <2>2, <2>3 DEF TypeOK, Pages, Statuses
<1> QED BY <1>1, Invariant, PTL

\* Neither the narration nor the tracker waits for something that was given up,
\* whatever supersedes what: when the narration waits for the page, the saved
\* place, a chapter or a destination is still to come; and sampling is suspended
\* only for what is under way.
THEOREM PageNeverWaitsInVain == Spec => []NothingWaitsInVain
<1>1. IInv => NothingWaitsInVain
  <2> SUFFICES ASSUME IInv PROVE NothingWaitsInVain
    OBVIOUS
  <2>1. Coming(State) /\ Suspended(State)
    BY DEF IInv, Good, Calm
  <2>2. PlacementIsComing
    BY <2>1, Fields DEF Coming, PlacementIsComing
  <2>3. SuspendedByItsOwner
    BY <2>1, Fields DEF Suspended, SuspendedByItsOwner
  <2> QED BY <2>2, <2>3 DEF NothingWaitsInVain
<1> QED BY <1>1, Invariant, PTL

\* The page goes to the chapter asked for, unless a boundary or a leaf supersedes
\* it, and a run starts only on a page that is rendered, in the chapter it starts
\* from: the safety of PageSettlesAsAsked.
THEOREM PageGoesAsAsked == Spec => ChapterIsReached /\ StartsOnThePage
<1>1. IInv /\ [Next]_vars => [Reaches]_vars /\ [Starts]_vars
  BY NextKeeps
<1>2. Spec => [][Reaches]_vars /\ [][Starts]_vars
  BY <1>1, Invariant, PTL DEF Spec
<1> QED BY <1>2, PTL DEF ChapterIsReached, StartsOnThePage, Reaches, Starts

=============================================================================
