# Verification of VoxLeaf

VoxLeaf is a Windows desktop reader for EPUB books that reads aloud with speech
synthesized on the machine: a React page in a Tauri shell, a native supervisor
in Rust, and a speech service in Python that runs as a child process. This
directory holds TLA+ models of its concurrent parts, the TLC configurations that
check them, and TLAPS proofs of their main theorems. Paths below are relative to
the repository; `desktop` stands for `apps/desktop/src` and `native` for
`apps/desktop/src-tauri/src`.

`PROJECT.json` lists the components, the runs with their properties, the source
lines each definition stands for (`map`), a plausible bug each property rejects
(`mutants`), the hazards the properties are for, the disagreements found
(`findings`) and the theorems.

    tlc -config BufferScheduler.cfg BufferScheduler       # one run
    tlapm BufferScheduler_proofs.tla                      # one proof module

## 1. The system

### Components, their state and their operations

| Component | State | Operations | Model |
|---|---|---|---|
| Adaptive narration buffer, `desktop/tts/adaptive-buffer-scheduler.ts` | service and playback state, pending segments, active synthesis, FIFO of audio units, discarded units, resource counters, playback rate | start/prepare service, prepare text, synthesize (accepted, stale, invalid, failed), consume, pause, resume, play now, select a rate, invalidate, release, settle | `BufferScheduler` |
| Position and preference saves, `desktop/persistence/reader-position-save-coordinator.ts` and the narration bridge | two lanes (wanted, queued, writing, saved), two timers, narration marks | schedule, begin/finish narration, heard checkpoint, save preferences, flush, close | `ReaderPositionSave` |
| Publication session, open flow and shell lifecycle, `desktop/publication/*` | attempt, active publication, chain of closes, intents, what the shell shows | open, close, fail rendering, clean up | `PublicationSession`, `ReaderLifecycle`, `LatestIntent` |
| Speech service, `services/tts/src/voxleaf_tts/service.py` | state, the active request, two pipes | start, prepare, synthesize, cancel, shutdown, end of input | `SpeechService` |
| Native supervisor, `native/tts_service_supervisor.rs` | admission and operation locks, session slot, lifecycle record with two receipts, child process | start, prepare, synthesize, cancel, shutdown, forced stop for removal | `NativeSupervisor` |
| Service client, `desktop/tts/process-client.ts` | state, service and request identity, active synthesis, retained sound, invalidation token | start, prepare, synthesize, take the unit, cancel, shutdown | `ProcessClient` |
| Narration coordinator and recovery, `desktop/tts/product-narration-coordinator.ts`, `operational-recovery.ts` | run token, operation in hand, player, two teardowns, recovery phase, navigation, availability | start, pause, resume, stop, recover, contain a failure, navigate, recheck, change configuration, close | `NarrationRun`; what it dispatches is the environment of `BufferScheduler` |
| PCM player and backends, `desktop/tts/pcm-playback.ts`, `playback-backends/` | handle, requests to the audio context, transition pause, rate preparation, cleanup waiter | synchronize, pause, resume, select a rate, stop, end of a unit, cleanup by turns | `PcmPlayer` |
| Optional Chatterbox runtime, `native/tts_optional_chatterbox.rs` | operation record, cancellation token, staging, installed and backup directories | select, confirm, download, verify, promote, cancel, remove | `OptionalChatterbox`; the removal's stop of the service in `NativeSupervisor` |
| Opened publication, `packages/epub/src/resource/opened-publication.ts`, with `narration/narration-preparation.ts` | active read, active preparation, checkpoint, archive | read, prepare narration, abort, close | `OpenedPublication` |
| Narration segmentation, `packages/epub/src/narration/` (packer, window, quotations) | none between calls | window of the source, boundaries of segments, quotation at a place | `NarrationText` |
| Images of a publication, `desktop/reader/images/` | what each element shows, queue and active load, decoded sources and object URLs | appear, read, decode, deliver, serve the next, unmount, close | `PublicationImages`, which extends `OpenedPublication` |
| Position repository and restore, `desktop/persistence/reader-position-repo*`, `-restore-*` | envelope of at most 128 states; revision, chosen preferences | read, write, restore, cancel, close | not modelled: synchronous (section 6) |
| Reader page, `desktop/reader/ReaderPublication.tsx` with `reader-navigation.ts`, `reader-reflow-restoration.ts`, `active-visual-locator.ts`, `segment-highlight-controller.ts` | where the page is, what is committed, the placement under way, the restorer, the followed segment, who suspends sampling | go to a chapter, commit, render, align, change preferences, resize, scroll, follow the voice, start from here | `ReaderPage` |
| Narration preferences, hardware compatibility, `desktop/persistence/*-preference.ts`, `desktop/tts/hardware-*` | single records, probe results | read, write, probe, match | not modelled |
| EPUB ingestion, text normalization, `packages/epub/src/` | none between calls | pure pipelines | not modelled |
| Protocol framing and generated contracts, `native/tts_service_protocol.rs`, `packages/shared/` | none | encode, decode, validate | not modelled: a frame is its kind |
| Engines and packaging, diagnostics, release scripts, benchmarks | model weights, files | inference, measurement, release | not modelled |

### How they interact

The shell opens a publication through the lifecycle, the open flow and the
session. The page and the narration report positions to the save coordinator,
which writes through the repository. The coordinator drives the narration: it
asks the scheduler for its next action, executes it against the publication
(text) or the client (service), and hands the answer back to the scheduler; the
player takes units from the scheduler and reports rendered frames. The images of the
page are read from the same publication, one at a time, beside the preparation of
the narration. The page tells the narration where it is and when it is being moved,
the narration asks the page for the place of a segment; neither starts while the other
places. Each call of
the client is a command of the Tauri shell, run on a thread of its own inside
the supervisor, which talks to the child over two pipes and hands sound back in
memory. Cancelling kills the child: a cancel or shutdown of the client is
answered only when the process is known to be gone.

### What is hard

- Overlap. Every `await` lets other calls in: opens and closes of books, an
  answer that comes after its run was replaced, saves behind a write in progress.
  Identity is kept by tokens and counters that are compared after the await.
- Threads. The supervisor's commands share four locks, two of which are only
  ever tried, and a process is terminated while one or two of them are held.
- Failure. The child may crash, stay silent, refuse, or survive its
  termination; storage may refuse a write; a close of a book may fail.
- Bounds. Audio held, discarded and reserved shares frozen ceilings.
- Progress. The pump dispatches one operation at a time; a counter that drifts or
  a target that cannot be reached would stop a narration silently.

`PROJECT.json` gives the 40 places where this bites (`hazards`), each with the
properties that cover it; one, which the code gets wrong, has none and is
described in section 3.

## 2. The models

### `BufferScheduler`: the adaptive narration buffer

One action per method of `AdaptiveBufferScheduler`, with the class's fields as
variables under their own names. A method that throws changes nothing, so its
preconditions are the guards. The environment is grouped by who calls:
`Dispatch` (the coordinator's pump), `Answer` (what the service and the
publication return, at any later time, also after the run was invalidated),
`Render` (the player), `Listener` and `Teardown`. `nextAction`,
`canPlayAvailableAudio` and `refreshPlaybackState` are operators, evaluated in
the step that the code evaluates them in.

A segment is a sequence number and an amount of text, a unit is its identity,
its frames and how much of it was heard. The code assigns payload bytes as four
times the frames and counts metadata entries with the units in every assignment,
so one counter stands for each pair. `heard`, `inflight`, `releases` and
`remaining` are not fields: they record the listener, the service's debts, calls
of `release()` and the publication.

Run `buffer` (`BufferScheduler.cfg`, about 456,000 states): two narration runs
over a range of up to four segments, batches of one or two segments, units of one
or two frames, room for three units and six frames, a quick and two prepared
modes, two rates. The bounds let every ceiling bind (a reservation is a third of
the frames, a batch fills the text), an answer of the first run arrive in the
second, and both runs end in every way. The properties:

- `Conveyor`: heard, buffered, synthesized and pending segments are together the
  accepted sequence; nothing is lost, repeated or overtaken.
- `EverythingIsAccountedFor`: the counters equal what is owned
  (`ResourcesMatchOwners`), and each delivered unit has one owner until it is
  released once (`UnitOwnership`).
- `WithinCeilings`: the ceilings hold, reservations and discarded units included.
- `ListenerIsServed`: the listener never waits for nothing (`NoSilentStall`), and
  playing has audio, complete has heard it all (`TruthfulPlaybackState`).
- `NarrationProgresses`: a narration left alone ends, fails or offers a choice.
- `HeardUnitKeepsItsRate`: a chosen rate waits for the next unit.

Fairness is weak, on `Dispatch`, `Answer` and `Render`: the pump is requested
after every operation and every tick of the player, each service call carries a
deadline that turns silence into a failure, and the device renders what it was
given. Nothing is assumed of the listener. `CHECK_DEADLOCK FALSE` because a
narration that is over stops.

### `ReaderPositionSave`: saving positions and preferences

A lane is a record: what is wanted, queued, being written and known to be saved,
plus whether writing and queue hold the very object that is wanted, because the
code compares preferences by identity after a write (`reader-position-save-coordinator.ts:540`) and locators by
value. The write reaches storage when it is made and its result is known later,
in a step of its own; the storage either takes it or fails. The narration bridge
is `Voice`. Locators that do not resolve to themselves are refused before
anything changes, so only canonical ones occur.

Run `position_saves` (`MCReaderPositionSave`, about 208,000 states) takes three
publications: one with three positions, one with three preference sets to choose
from, and one with both lanes busy, each with two narrated segments. Three values
of a lane are one written, one queued and one replacing it; two segments are
enough for a checkpoint of the wrong one to arrive.

- `NothingAskedForIsLost`: once a closed publication's writes have settled, storage
  holds the position and the preferences asked for last, unless that very write
  failed; a choice refused as a repetition is stored or on its way.
- `VoiceOwnsThePosition`: while it reads, only what was heard is saved, and neither a
  layout change nor the end of the narration replaces it.
- `PositionsSettle`: every request is settled.

`PositionsSettle` assumes that timers fire and storage calls return (weak
fairness); it says "written or attempted", because the code gives up on a
failed position until the next request, flush or close. `NothingAskedForIsLost`
leaves out one case: a choice repeated while the failing write of the same choice
is in progress becomes a new object, so its failure is not reported and a third
repetition is refused; flush and close still write it.

### `PublicationSession`, `ReaderLifecycle`, `LatestIntent`: which book is open

Calls overlap, so each call is a member of `Calls` and stands at a *stage*, the
await it is suspended in. The intent counters of the code only say whether a call
is the latest one, so the model names that call. The chain of closes is a queue
with the number that have settled and the first that failed; a promise is a place
in it. `ReaderLifecycle` extends the session with the open flow and the shell.

`LatestIntent` is the abstract promise: asking for anything hides what is shown at
once, and only what was asked for last comes to be shown. `ShowsLatestIntent` is
its refinement, with `wanted` mapped to the latest call while it is opening or
ready and `shown` to the publication on the page.

Run `publication_lifecycle` (four calls, about 961,000 states) checks it with
`NoBookIsForgotten`, which is `PublicationsAreOwned` (no handle leaks, none is closed
twice, and a close that has ended leaves nothing open) and `OneBookAtATime` (`ReadyIsActive`: a publication that is
shown is the session's and is not being closed; `CleanBeforeOpen`: the EPUB is
opened only after whatever was shown before is closed) and `ReaderSettles`.
Four calls are enough for two opens with a close between them and one more that
overtakes; every await is a point of interleaving. Fairness: the promises of
reads, the opener and closes settle.

### `SpeechService`, `NativeSupervisor`, `ProcessClient`: the service and its owner

`SpeechService` is the child: its state, its two pipes as bounded sequences of
message kinds, and what it does with each message in each state. `NativeSupervisor`
is the Rust side. Each command is a thread (`work[t]`) that walks through the
lines of its code between lock operations: `admission` and `operation` are tried
and fail with busy; the slot and the record are waited for, and a step is a
critical section, except that terminating a process takes steps of its own while
the slot (and, for a forced stop, the record) stays held. A child is named by the
number of its start request, as the code starts at most one child per request.
`ProcessClient` is the TypeScript side: a call hands a command to a thread and
continues when its reply is taken; `fresh` are the threads whose token is still
current, `stop` is the shutdown that interrupts, joins the start and acknowledges.
It also has the removal of the optional runtime, which stops the service without
the client's knowledge.

Faults are bounded by `MaxFaults`: a crash, a deadline that passes, an engine error,
a spawn whose job cannot be assigned, a termination that cannot be verified.
The conversation of a command is a script of sends and expected frames; a frame out
of order is `protocolRejected`.

`start` is guarded by `Joined`: the narration starts a service only when all it
asked for before has returned and the last stop was verified. That is what the
coordinator awaits (`product-narration-coordinator.ts:1489-1507`) and the shell's
close barrier (`App.tsx:283-316`). It is a discipline of the callers, not of the
client; without it `OldWorkStaysOld` fails, since a `prepare` names no service and
an old one can reach the child that replaced its own.

Run `speech_service` (three threads, two starts, one synthesis, two faults, about
3.07 million states):

- `NothingRunsUnseen`: no child is forgotten (`NoForgottenChild`), a stopped client
  has left nothing running (`StoppedMeansGone`), and receipts and acknowledgements
  tell the truth about the process (`ContainmentIsTruthful`).
- `InterruptionsHold`: sound taken back is not answered (`TakenBackIsNotHeard`), and
  files are removed while nothing runs (`RemovalIsExclusive`).
- `ConversationsStayApart`: a healthy child is never rejected
  (`HealthyServiceIsNeverRejected`), and work of one start never reaches the child
  of another (`OldWorkStaysOld`).

Three threads are the most that interact: a conversation, the command that
interrupts it, and a removal. Two starts let an answer outlive its child. Two faults
give a failure during the handling of another; only `HealthyServiceIsNeverRejected`
is about behaviours with none. This run checks deadlock: some call is always
possible.

Run `service_calls_return` (two threads, one start, two faults): `EveryCallReturns`,
the liveness of commands and shutdowns. Fairness: the service handles what it
reads (weak); each thread runs and comes to get a lock that is free again and again
(strong: the operating system's mutexes are fair enough for a handful of threads);
replies are delivered (weak). Nothing is assumed about the child after a crash; a
deadline frees whoever waits.

### `NarrationRun`: the coordinator of one book

The coordinator compares a captured token with `#runToken` after every await. In the
model whatever supersedes the token clears the `current` flag of those that hold it:
the run and the two teardowns. `operation` is the one piece of work in hand,
`abandoned` a preflight that the run left behind and that still answers; `stopping`
is a stop with the await it stands at, `containing` the containment of a failure,
which joins a stop under way. Of the scheduler, the player and the client only the
answers remain that the coordinator acts on: a call succeeds or fails, a unit is
refused, the device fails, the audio runs out, the book ends. The recovery state
machine is `recovery`; `spent` records that the one recovery of an episode was used.

Run `narration_run` (about 191,000 states, unbounded in time: no counter is needed):

- `RunIsLookedAfter`: somebody sees to failures (`FailuresAreWatched`) and to the service
  (`ServiceIsOwned`). A recovery that is half way is being carried through by its
  containment (`RecoveryNeverStalls`), and a run that is current is in a phase in
  which a failure of it will be contained (`LiveRunIsWatched`); `#fail` drops failures
  in every other. The service never outlives the owners that have to see it
  stopped, whatever answers late (`ServiceHasOwner`); while the settings write another
  configuration nothing of the old one runs, and nothing may start
  (`ConfigurationIsExclusive`).
- `ListenerIsNotMisled`: one recovery per episode (`RecoveryIsOnce`); what takes a
  playing run away says so (`IntentIsTruthful`).
- `NarrationSettles`: failures are contained; teardowns, navigations and rechecks end.

Fairness is weak, on answers of calls (each has a deadline), on ticks and on the
continuations of awaits. The user need not press anything, the device need not fail,
and an answer need not be the good one.

### `PcmPlayer`: what is heard

`synchronize` is part of most handlers, so the handlers are functions of the whole
state, `now`, composed as the code calls them. The audio context answers requests in
order and late: it goes on sounding until a suspension takes hold, and the end of a
unit is an event that may come after a pause. The preparation of another playback
rate has an owner and a purpose (`future`, or `due` for a unit that waits for it),
and the creation of its node is answered late, also when nobody wants it any more.

Run `pcm_player` (three units, a silence after the first, units and silences of two
ticks, three rates, at most three unanswered requests, about 81,000 states):

- `HeardAsWritten`: listeners hear every unit started and then completed, once and in
  order (`HeardInOrder`), with their silences (`PausesAreKept`), and nothing begins to
  sound while paused (`PausedIsSilent`).
- `ListenerCannotFailIt`: a button that is offered is accepted, since a refusal would
  fail the run (`PressesAreAccepted`), and a run at the ordinary rate is not failed by
  the preparation of another (`OrdinaryRateSurvives`, with the exception of section 3).
- `PlaybackGoesOn`: a run that plays gets on with its audio, unless the listener keeps
  changing the rate, and who waits for the cleanup is released.

Three units are a pair with a silence between them and one without; three rates are
one heard, one chosen and one chosen instead; three requests are a pause, a resumption
and another pause before the first is answered.

### `NarrationText`, `OpenedPublication`: the text that is prepared

`NarrationText` holds the pure part. A block is a sequence of units, each a word, a
quotation mark, a dialogue turn, a clause or sentence end, a blank or a scene break;
that is what a boundary depends on. `SelectEnd` chooses the end of a segment as the
packer does, between a target and a hard size: the `Boundary` that is preferred among
the candidates, with the silence after it (`Drained`). `WindowLeaves` are the leaves
of a source window, of which `leaves` keeps those that are not packed yet, and `Quoted`
is the quotation that is open at a place. The loops of the code are given by what they
find (a least or greatest end, a number of units), so that the text can be reasoned
about without recursion. `OpenedPublication` is the
handle: one read, one preparation, a checkpoint. A preparation is divided at its
awaits: it visits the place it starts from, projects a window of the source, packs
and retains segments, and settles; `aborted` is its signal.

Run `opened_publication` (`MCPublicationImages`, about 168,000 states) checks it
together with its images (next section): five small books, windows of 6 units, blocks
that are inspected to a depth of 12, batches of one or two, two contexts with targets
of 2 and 3 units. The books are made for the cases: a block longer than a window with
quotations open across it, short blocks with a dialogue turn and a scene break, silence
longer than a segment, a silent end, and a silence in the middle of a block deeper than
a window inspects. Two more have images. As in the code (4,096 and 16,384,
`narration-policy.ts:13-22`) a window inspects at least twice what it holds
(`TextAssumption`), without which it could not come back to where it ended.

- `NarrationIsTheText`: every answer is the text of the book from the place asked for,
  nothing skipped, nothing twice, the quotation right, resumed or not and whatever was
  aborted before (`PreparedAsWritten`); a preparation fails in three named cases only
  (`FailsOnlyThere`).
- `PublicationCloses`: close waits for the read and the preparation under way and then
  closes the archive with nothing saved; preparations end; after close nothing but a
  cancellation is answered.

`PreparedAsWritten` says that the text is covered, not where segments end: that
depends on where a window begins (section 3). Fairness: the event loop runs what is
due, reads and the close of the archive end.

### `PublicationImages`: what the page loads of it

An image is an element of the page (`SemanticRasterImage`), mounted once; `view` is
what it shows, `load` how far its load is, and `answer` what the promise of its load
was settled with until the element's continuation runs. The queue, the active load and
the decoded sources are those of `PublicationRasterImageLoader` and of
`RasterImageSourceManager`. A load is a thread of its own between two awaits, so that
one at a time is a property and not an assumption; it starts with `StartRead` of the
publication, whose close may come in between, and ends its read with `EndRead`.
Elements unmount one at a time where a chapter unmounts all of its in one turn, which
only adds interleavings; the loader closes in the turn after the reader was left
(`useStrictModeSafeResourceCleanup`). The limits on the size of an image and on the
pixels of all are one kind of refusal.

The same run takes a book with three images and nothing else, and one with an image and
a word to prepare meanwhile. With a limit of two, three images are one active, one
queued and one refused.

- `SourcesAreOwned`: every decoded image has one owner that will release it, the element
  that shows it or the answer on its way; never more than allowed; no other object URL
  outlives its decoding; nothing revoked is shown.
- `ImagesSettle`: loads take turns (`LoadsTakeTurns`), so that the publication never
  refuses one because of another and nobody who waits is told of a cancellation; whoever
  waits is answered, and of a reader that was left nothing remains.

Fairness: reads and decodings end, continuations run, and the cleanup of a reader that
was left comes. Nobody has to look at an image or to close anything.

### `ReaderPage`: navigation, the saved place and the voice

`ReaderPublicationContent` is a React component: its handlers change the coordinator of
navigation and its refs at once, and the document follows at the next commit, in which
refs are attached and layout effects run. `page` is the coordinator's state and `shown`
what was committed last; `Commit` is the ref of the destination, the effect of a finished
restoration, the highlight's refresh and the last effect, in that order. Handlers call
each other, so each is a function of the whole state (`navigate`, `preserve`,
`settleReaderPlacement`), named as in the code. A commit that is due and the
continuations of promises run before any other task (`Task`). A chapter is too large to
be rendered or is rendered in batches, so its destination is there at once or some frames
later (`MountDestination`). An alignment ends at the exact place, at the block or nowhere.
Whether the range of a segment is in the document is a free choice while its chapter is
shown, and certain when the voice has had it put there.

`held` are the owners of a suspension of visual sampling: the saved place, a navigation,
the restorer, the segment that is followed. `voice` is what the narration and the page
know of each other: whether a placement is pending and the page available, the intent, the
pending navigation, the request on its way to the page, and a stop that is not answered.

Run `reader_page` (three chapters, one of them too large, two places in each of the
others, two navigations, about 192,000 states):

- `NothingWaitsInVain`: if the narration waits for a place, somebody is still going to
  tell it (`PlacementIsComing`); sampling is suspended for as long as its owner is at
  work and no longer (`SuspendedByItsOwner`; of a navigation's token `PlacementIsComing`
  speaks).
- `PageSettlesAsAsked`: the page gets to the chapter asked for (`ChapterIsReached`), a
  voice starts on a page that is rendered and in the chapter it was sent to
  (`StartsOnThePage`), and every placement settles (`PlacementSettles`).

Two navigations let one overtake the other, be refused or be taken over by the voice at
every await; a third would be the second again. Two places in a chapter are its start and
an inside, which is what decides whether a passage is aligned. Fairness: due commits and
promises run, the browser renders the rest of a chapter and runs frames, a stop is
answered (`NarrationRun` shows that it is). Nothing is assumed of the reader or the voice.

### `OptionalChatterbox`: the speech runtime that is downloaded

Each command is a thread that walks through `download_for_attempt` and `promote`,
`cancel_at`, `remove_with_manifest` or `select_at` and stops where another thread
can come in: at a lock, at a look at the cancellation, and between two changes of
the disk. `operation` is the record of the code, with the attempt's number in the
place of its cancellation token, which the code compares by pointer. The record's
lock is held across steps by a committing promotion only, so `OperationFree` says
where that is; `lock` is the lock of the installed runtime. A directory is absent,
partial (anything that does not verify) or complete, which is all that a decision
of the code depends on. A deletion fails before it begins or half way, a rename
fails or works, and which error it was matters where it decides whether a cleanup
may be retried. `crash` may come between any two steps, keeps the directories and
forgets the rest; the next start may also find what an earlier session left.
`installed` and `promoted` are not fields: they record that a runtime was there
and nobody asked to remove it, and which attempts were committed.

Run `optional_runtime` (three threads, two attempts, one crash, about 302,000
states):

- `InstalledSurvives`: an installed runtime stays on disk, in its place or set
  aside, until its removal is asked for.
- `ConsentIsRespected`: a cancellation and a commit have one winner
  (`CancelledIsNotInstalled`), and one thread at a time works in the staging directory
  (`StagingHasOneOwner`), for the attempt that was consented to, however long the
  probe of the host took (`ConsentIsCurrent`; together `StagingIsConsented`).
- `WorkEnds`: what is under way ends, also when the cleanup fails.

Three threads are a worker, the command that cancels it and one that overtakes
both; two attempts let a consent, an answer of a worker or a runtime set aside
outlive the attempt it belongs to. Weak fairness of each thread's own steps: the
operating system runs threads, transfers have connection and read timeouts of 30
seconds (`tts_optional_chatterbox.rs:1664`), and the locks are held for finite
work. Nothing is assumed of the user. `CHECK_DEADLOCK FALSE` because attempts and
crashes are bounded.

## 3. Disagreements found

Two runs show the code doing other than its documents or tests say.

- `close_during_reopen`: close, open, close. The second close gets the promise of
  the first, the open goes on and its book is shown, against "clears data
  immediately".
- `shutdown_after_removal`: `shutdown_owned` writes the state *stopping* without
  asking whether the session it captured is still there. If a removal ended it in
  between, the record stays *stopping* with no session, and every later start that
  names a profile is refused until another forced stop. The protocol document
  allows *stopping* only from a live state, and ADR-0056 asks for the captured
  session to be validated first.

These have no run of their own. The properties named leave exactly the case out, so
that everything beside it is still checked:

- `VoiceOwnsThePosition` (its part `HeardIsProtected`): the test "protects the latest
  heard checkpoint from reflow until user movement"
  (`reader-position-save-coordinator.test.ts:485`) is not met when the write of the
  checkpoint failed and the reader moves back to the position that was saved before: the
  move needs no write, and the protection stays (`:219-239`, `:377-386`).
- `ChapterIsReached`: start a voice elsewhere (a paragraph, a boundary), and ask for a
  chapter while its stop is still awaited. Both wait for the same stop; the request of
  the voice is continued first and takes the number of the chapter's
  (`product-narration-coordinator.ts:1703`, `ReaderPublication.tsx:669`), so the page goes
  to the older request and the chapter that was asked for last is dropped.
- `PlacementIsComing` speaks of the narration's wait only. A restoration committed
  between asking for a chapter and continuing there finds the old revisions unchanged
  and settles the newer placement too early (`ReaderPublication.tsx:557`). If a segment
  begins before the destination is rendered, `navigateToLocator` drops what was to be
  saved, and the navigation's suspension of sampling is given back by the next
  navigation only: until then scrolling is not followed.
- A removal that wins against a shutdown of the same session wipes the receipts, and
  the client then waits for an acknowledgement that never comes
  (`tts_service_supervisor.rs:1961`). Nothing is asserted about it.
- `OrdinaryRateSurvives`: choose another rate between two units of a rate, choose the
  first again and then the ordinary one. The preparation begun meanwhile is kept, the
  next unit starts at the ordinary rate, and if the node then cannot be made the run
  fails (`pcm-playback.ts:818-829`), where the plan's ledger
  (`docs/plans/evidence/revalidated-chat-findings/execution-ledger.md:153`) promises
  direct audio.
- `IntentIsTruthful`: a recheck asked for while a recovery starts stops the run through
  `#stopActiveRun` and leaves the play intent *playing*
  (`product-narration-coordinator.ts:1090-1093`).
- A recheck that is refused because a recovery is under way leaves the availability
  *checking* (`product-narration-coordinator.ts:1145-1150`) until the next check.
- `FailsOnlyThere`: a window that cuts a block of which it holds a single segment
  fails with *resource-limit-exceeded* (`narration-preparation.ts:551-573`), so a
  larger batch may fail where a smaller one succeeds, against
  `M005-narration-text-preparation.md:628`. So do a silence longer than a segment
  before the next spoken unit, and resuming deep in a block: the batch saved where its
  last segment ends, but the traversal was saved where the window for the lookahead
  began, and that may have been in another block or further on in this one. From the
  start of the block the place is too deep to be reached, unless it is spoken at once.
- `PreparedAsWritten`: near the end of a window the ends of segments depend on where the
  window begins, against ADR-0012:346 ("independent of ... request batching").

Failing a synthesis whose unit was already rejected throws inside the coordinator's
own handler (`product-narration-coordinator.ts:1965`); `RunIsLookedAfter` and
`NarrationSettles` show that the containment comes all the same.

## 4. Proofs

| Theorem | Statement | Module |
|---|---|---|
| `Typing` | `Spec => []TypeOK` | `BufferScheduler_proofs` |
| `Ceilings` | `Spec => []WithinCeilings` | |
| `NothingLost` | `Spec => []Conveyor` | |
| `SteadyRate` | `Spec => HeardUnitKeepsItsRate` | |
| `NothingLeaks` | `Spec => []EverythingIsAccountedFor` | |
| `ListenerServed` | `Spec => []ListenerIsServed` | |
| `LifecycleTyped` | `Spec => []TypeOK` | `ReaderLifecycle_proofs` |
| `NothingLeaks`, `OneBook`, `NoneForgotten` | `Spec => []PublicationsAreOwned`, `[]OneBookAtATime`, and both: `[]NoBookIsForgotten` | |
| `LatestIntentHolds` | `Spec => ShowsLatestIntent` | |
| `SavesTyped` | `Spec => []TypeOK` of `ReaderPositionSave` | `HeardAndSaved_proofs` |
| `NothingIsLost` | `Spec => []NothingAskedForIsLost` | |
| `VoiceOwns` | `Spec => VoiceOwnsThePosition` | |
| `PlayerTyped` | `PlayerSpec => []PlayerTypeOK` of `PcmPlayer` | |
| `ListenerIsAccepted` | `PlayerSpec => []ListenerCannotFailIt` | |
| `TextIsHeard` | `PlayerSpec => HeardAsWritten` | |
| `ClientTypes` | `Spec => []TypeOK` | `ProcessClient_proofs` |
| `NothingGoesUnseen` | `Spec => []NothingRunsUnseen` | |
| `InterruptionsAreObeyed` | `Spec => []InterruptionsHold` | |
| `ConversationsAreApart` | `Spec => []ConversationsStayApart` | |
| `NarrationTyped` | `Spec => []TypeOK` | `NarrationRun_proofs` |
| `RunAlwaysLookedAfter` | `Spec => []RunIsLookedAfter` | |
| `ListenerNeverMisled` | `Spec => ListenerIsNotMisled` | |
| `PageTyped` | `Spec => []TypeOK` | `ReaderPage_proofs` |
| `PageNeverWaitsInVain` | `Spec => []NothingWaitsInVain` | |
| `PageGoesAsAsked` | `Spec => ChapterIsReached /\ StartsOnThePage`, the safety of `PageSettlesAsAsked` | |
| `TextIsWritten` | `Spec => []NarrationIsTheText` of `OpenedPublication` | `PublicationImages_proofs` |
| `NarrationWithImages` | `ImagesSpec => []NarrationIsTheText` | |
| `ClosingIsQuiet`, `ClosingWithImages` | `Spec => []ClosedIsQuiet`, and of `ImagesSpec` | |
| `ImagesTyped` | `ImagesSpec => []ImagesTypeOK` | |
| `SourcesOwned` | `ImagesSpec => []SourcesAreOwned` | |
| `TurnsTaken` | `ImagesSpec => []LoadsTakeTurns` | |
| `TypesHold` | `Spec => []TypeOK` | `OptionalChatterbox_proofs` |
| `RuntimeSurvives` | `Spec => []InstalledSurvives` | |
| `OneWinner`, `StagingConsented`, `ConsentHolds` | `Spec => []CancelledIsNotInstalled`, `[]StagingIsConsented`, and both: `[]ConsentIsRespected` | |

The assumptions are the named ones of the modules: the limits, targets and inputs
of the buffer (`LimitsAssumption`, `TargetsAssumption`, `InputsAssumption`: naturals,
a reservation that fits under the ceiling, units no larger than a reservation, and no
prepared target below the refill threshold, see **Buffer**),
`MaxCalls` positive (`MaxCallsAssumption`), publications that share no position and
a `None` that is no value (`ValuesAssumption`), batches of at least one segment
(`BatchAssumption`) with windows and segment sizes that are positive
and windows that inspect twice what they hold (`TextAssumption`), books that are blocks
of units (`BooksAssumption`), finitely many images and a limit that is a natural
(`ImagesAssumption`), at least one thread of the optional runtime with bounds that
are naturals (`BoundsAssumption`), at least one thread, start and synthesis of the
supervisor (`SupervisorAssumption`) with faults that are a natural
(`MaxFaultsAssumption`), and chapters that are positive numbers, of which one at least
is not too large (`PageAssumption`; chapter 0 stands for no place), and units and silences
of at least one tick with an ordinary rate among the rates (`PlayerAssumption`). The
coordinator has no constants.

**Buffer.** Typing is proved per method. The ceilings are inductive by themselves
once dispatch reserves before it works: every other method only lowers a counter or
replaces a reservation by a unit that is no larger (`SettledWithin`). The conveyor
is not: that a batch continues the accepted sequence needs to know that no synthesis
or preparation outlives the service state it began in, which is `OneOperation`.
`IInv` is the conjunction of the four. The conveyor is split by `ConveyorParts` into
what holds always (`Buffered`) and what holds while the service serves (`Waiting`);
each action preserves one of them trivially or moves a segment across exactly one
boundary. `SteadyRate` needs types only.

The counters of `EverythingIsAccountedFor` are compared with folds over the queues. What
a fold gives when a unit is appended, leaves the front or was heard in part is proved
from its definition: a fold picks elements in an order of its own, and that any
element may be taken last holds because a smallest set of indices for which it did not
would not be one (`SumsSplit`; `TotalAppend`, `TotalTail`, `TotalFirst` and `TotalCounts`
follow). `Accounts` adds what makes an answer new: every unit that was asked for or
delivered in the run is no further than what is heard, buffered and in synthesis
(`Fresh`), so a segment is asked for once, a delivered unit has no owner yet, and the
units of the old run are all released when the next one starts. `Listening` is what
`ListenerIsServed` needs of the past: the listener waits only while something is still to
come and what can be played falls short of the start threshold (`Told`), a range that is
complete has nothing left and no preparation under way (`Ended`), and a run that is over
is silent (`Settled`). A wait then has a reason: with nothing buffered a unit can always
be reserved (`EmptyReserves`, which needs the accounts), and as the target is no lower than
the threshold one is wanted. This is where a prepared target below the refill
threshold would stall the listener for good, as TLC shows when the assumption is dropped;
the authority has none (`adaptive-buffer-authority.ts:17-20`: refill at 60 s, prepared
targets from 60 s).

**Publication.** `Holdings` strengthens ownership by "an attempt and an active
publication exclude each other"; `Places` says that a call has no publication before
the opener answers, and that the latest call between its close and its claim finds
the session as it left it. Without `Places` an answer could put a publication
over another one. `OInv`, their conjunction, is preserved by every call at every
stage. The refinement needs `ShellInv`: while the latest call is an open under way,
the shell says so; hence presenting it is the abstract `Show`, every call is `Ask`
or `Leave`, and all other steps stutter. `OneBookAtATime` needs the flow between the
two: `BInv` adds that the flow works for the shell's latest call or for nothing, the
session for the flow's, an attempt for the session's (`Intents`); that the answer about
to be presented is the session's open publication (`Answered`); and that an attempt is
preceded in the queue of cleanups by all that was shown before (`Cleaned`).

**Saves.** `SavesInv` says of each lane what it knows of storage (`Sound`: a write that
succeeded is there, and so is what is taken for saved unless a newer write has just
succeeded), that a flush leaves what is wanted attempted, being written or next in
line, which every result keeps (`InHand`), and what the flags tell of object identity
(`Objects`). On the side of the voice, a protected position is the last heard one
(`Protects`) except after a move back to what is saved, and while a voice reads only
what was heard waits to be written (`OnlyHeardWaits`). `NothingAskedForIsLost` is a
consequence, and `VoiceOwnsThePosition` follows from it step by step.

**Player.** Every handler is a composition of the same few functions, so each of them
has a lemma that says what it leaves alone and that a `Good` state stays good, and an
action is the functions it calls; `synchronize`, with which nearly all of them end, is
dealt with once (`SynchronizeGood`). `Good` adds to the three properties what they rest
on. The unit that plays is the first of the buffer, in the rate that is active, and only
one that the context has started can end (`Plays`); a paused unit awaits nothing but its
suspension, so that a late answer to an older request does not start it (`Asks`); a
silence under way still owes something and does not run while paused (`Keeps`); what was
told so far is the beginning of the story up to the unit that plays (`Told`). That a pause
can be resumed needs it to hold something (`HeldBack`), which would be lost with a unit that
ends during the pause were it not remembered (`#pausedBeforeRateStart`). That a
preparation a unit waits for is not kept under the ordinary rate (`Survives`) rests, when an
ordinary unit starts, on the creation having been given up by then (`ReleaseBackend`). An
invalidation is proved from less (`Stoppable`), because a listener may stop the player in
the middle of an event, when the state is not good.

**Publication types.** That the queue of cleanups is no longer than the calls is not
typed by a step: `LifecycleTyped` shows that no publication is in it twice, so the
queue is an injection into the calls.

**Speech service.** A *conversation* is what happens between two starts, and its number
`R` is the request last made. The client asks for the next start only when it owes no
acknowledgement, and it owes none only once the conversation is *over*: its start is past
(`Early` no more), no process strays and the slot is empty. Hence whatever any thread,
receipt or reply still knows names `R` or nothing (`WorkTyped`, `SupervisorTyped`,
`ClientTyped`), which is `OldWorkStaysOld` and most of the type invariant. `Endings` is the
core: a receipt of `R`, an *ok* to a cancel or a shutdown, what a stop has heard and a
debt that was paid each say that the conversation is over; and only the next start
begins another, when nothing of this one is left to be mistaken. `Children` says that a
process runs only behind the slot and none where one was seen to be gone; `Locks` that
admission, termination and start are exclusive; `Stations` which command can be where,
with which session and reply; `Syntheses` that what is not active yet or was answered
with sound was never taken back, for which each synthesis must be numbered once;
`Conversation` that the client awaits one reply at most. Steps fall into classes for which
preservation is proved once: those after which the session is published as before
(`Steady`), those that end it (`Ends`), and the client's, which consume a reply or give
one command. The invariant `Inv` was checked by TLC on every state of the run
`ProcessClient` before it was proved.

**Pipes.** That a healthy service is never rejected needs what is in the two pipes
(`Sound`, which contains `Inv`). `Orderly` holds whatever goes wrong: only frames of the
protocol are read, who is past the wait for it has the operation lock (`Holding`), and there is one
preparation at a time (`Preparing`). `Healthy` holds while there was no fault:

- `Exchanging`: while a session that can be written to is talked to, the reader's line,
  the state of the service, both pipes and the supervisor's record match
  (`Greeted`, `Loaded` and their like list how);
- `Resting`: between two scripts the pipes are empty and the record is right;
- `Opened`: only who ends a session closes its writer, so a published session with a closed
  writer is about to end, and what is read there is not held against the service;
- `Sounding`: the one frame that is taken without asking whether the session is still
  published, the sound, is there;
- `Loading`: a model is loaded only by a thread whose reply the client awaits or has not
  read, so that no `prepare` finds it loaded.

The steps are again few kinds: those that leave the pipes alone (`Calm`), a line of a
script (`Speaks`), the beginning of one (`Begins`), an answer of the service (`Responds`)
and the client's (`Changes`). TLC checked `Sound` first, with one fault and three threads,
and without faults with four.

**Coordinator.** `RunIsLookedAfter` needs the shape of teardowns: one at a time, and it
holds the token and the run it takes down (`OneTeardown`); what is in hand, the service
included, belongs to a run that has its owners (`OwnersStay`); a recovery that is halfway has
its containment (`RecoveryFollows`); and a recheck that waits for a containment finds
its end (`ResetFollows`). `ListenerIsNotMisled` follows step by step.

**Page.** The handlers are functions of the whole state that call one another, and so are
the proofs: each handler has a lemma that says what it leaves alone and that a `Good`
state stays good, and an action is the handlers it calls. `Good` adds to
`NothingWaitsInVain` that nothing is said or followed while the page settles (`Quiet`),
that nothing begins before the saved place is restored (`Opening`), and that a navigation
of the narration that has settled is where the page is (`Settles`). A chapter that is too
large is `Unsaid` from the navigation to the commit that shows it. Only that the commit
runs before the next task (`SyncCommitDue`) keeps the voice from starting in between.

**Opened publication.** That the archive is closed under nothing is not inductive:
whether anything is saved when it closes depends on what a preparation that was under
way when close came leaves behind. `AbortedByClose` says that it is aborted, and so
forgets what it saved as it settles; `ArchiveIsAlone` that nothing else is under way.

**Text.** `NarrationIsTheText` is proved for every book, window, batch and size of
segments; TLC had checked the invariant `TextInv`, on all books of the run, before. Its
core is `Told`: the segments prepared so far hold every spoken unit from the place asked
for up to the `Frontier`, the cursor or, while a leaf is packed, its start; they are in
order and of the text, with the quotation right (`Tells`). A batch grows by what is wanted of a
leaf's segments (`TellsMore`), and the frontier moves over silence (`TellsFurther`). That no
unit falls between two leaves, windows or requests needs the rest:

- `InWindow`: what is left of a window is the current leaf and the leaves after it, so
  that silence alone lies between them; `CutInOrder`: a leaf is cut in order, until it
  is used up, only silence is left, or no more may be retained;
- `Known`, `KnownAtEnd`: the quotation that is carried along is the one of the text
  where the preparation goes on, and where the batch ends;
- `Saved`: a checkpoint of use continues where the last batch ended, with the quotation
  there, and its traversal stands near enough for a window to reach that place (`Near`) or
  in a silence; `CursorNear`, `LeavesNear` keep that while a preparation goes from window
  to window. They give the failures: a window inspects at most a window more than it
  holds, unless a preparation resumes in a silence (`DeepSilence`);
- `Asked`, `Fresh`: what was asked for is in bounds, and nothing is left over from the
  preparation before, whatever became of it.

The packer's choices are not looked into: `BoundaryIs` and `SelectEndIs` say that the end
is after the beginning, within the leaf and the hard size, and reaches what is spoken,
which every preference among the candidates does. The types are proved with it, since most
steps need both.

**Images.** `ImagesInv` puts an element, its load and its answer at matching points of
their lives (`Phases`), so that a source that was made is kept until the one of them
that has it releases it (`Kept`, `Owned`, `Revocable`). Whoever is in the queue has not
begun and is there once (`Waiting`), which keeps one load under way as the queue is
served or shortened (`Turns`). What was cancelled is wanted no more (`GivenUp`): the
loader closes only after the reader was left, when every element has unmounted.

**Optional runtime.** What keeps the threads apart is the record of the operation, not
the runtime's lock, which the proof never uses. `IInv` joins the types with: at most
one thread works on the directories (`Exclusive`); the consents, the commits and the
promoted attempts (`Consents`, `CancelledIsNotInstalled`); an installed runtime is
complete in its place, or complete in the backup with its place empty (`Kept`); and
`Local` for every thread: whoever works is recorded (`RecordedAt`), works for the last
consent on an attempt that was not installed (`ConsentedAt`), commits what is not
cancelled (`CommitsAt`), and knows where the installed runtime is (`KeptAt`). A step is
one thread's: it keeps `Local` for itself by what the action does, and for the others
because it is alone on the directories or leaves them be.

A leaf of a proof that takes a prover longer than about a second names its prover and
allows it more time (`SMTT`, `ZenonT`), so that the proofs do not depend on the machine.

**Left to TLC.** Liveness (`NarrationProgresses`, `PositionsSettle`, `ReaderSettles`,
`NarrationSettles`, `PlaybackGoesOn`, `PlacementSettles`, the liveness of `PublicationCloses` and
of `ImagesSettle`, `EveryCallReturns`, `WorkEnds`) is beyond the prover.
Every invariant that a run checks is proved.

## 5. Plan

Done: the buffer, the saves, the publication lifecycle, the speech service with its
owner and client, the optional runtime, the coordinator, the player, the page, the opened
publication with its segmentation and its images, and the proofs above.

What could follow:

1. An abstract narration stream (accepted, heard, dropped at once) that
   `BufferScheduler` implements, and one that `PcmPlayer` shares with it.
2. The page with the images and the ingestion it shows.

## 6. Not modelled

The contents of text, sound, messages and frames; wording and layout; health queries,
diagnostics and the forced stop at process exit; the arithmetic of time stretching,
normalization and hardware matching; EPUB parsing (one call that succeeds, finds an
empty book, fails or is cancelled); DOM geometry and the reconciliation of React; engines,
packaging, release scripts and benchmarks. Some of these are pure or sequential and
well covered by unit tests; others depend on services outside the program.

The position repository parses, validates, evicts and writes one envelope
synchronously, and a restoration's promises are settled by it at once, so that no other
actor comes between two steps; `ReaderPositionSave` takes it as a write that reaches
storage or fails. From the opened publication are left out the English title context
(which travels as the quotation does), work budgets of a whole operation, the recovery
of locators that no longer resolve, and refusals that change nothing.

The concurrent and stateful code modelled here is a small part of the repository by
lines. Most of the remainder has no state machine to model: generated validators
(10,700 lines in one file), smoke and release scripts, Unicode and normalization
tables, XHTML projection, probes of hardware, benchmarks, and React components whose
behaviour is that of the DOM. The parts of it that do keep state across calls are the
components above.
