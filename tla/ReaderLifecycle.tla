---------------------------- MODULE ReaderLifecycle ----------------------------
(***************************************************************************)
(* The publication as the reader shell sees it: ReaderLifecycle and the    *)
(* open flow below it (apps/desktop/src/publication/reader-lifecycle.ts    *)
(* and local-publication-open.ts), on top of the publication session.      *)
(*                                                                         *)
(* The application calls open, close, failRendering and cleanup at any     *)
(* time; every call is a member of Calls, used once.  A call of open goes  *)
(* through the file's read, the cleanup of what was open before, the       *)
(* session, and comes back with an answer that counts only if it is still  *)
(* the latest intent of the flow and of the lifecycle.                     *)
(***************************************************************************)
EXTENDS PublicationSession, SequencesExt

VARIABLES
    flowIntent,   \* the call the flow works for
    readFailed,   \* calls whose file could not be read
    reader,       \* the state the shell shows
    readerIntent, \* the latest call of the lifecycle
    closeTracked, \* the call whose close is returned to further calls
    lastCall,     \* what the application asked for last
    shown         \* publications that were presented

flowVars == <<flowIntent, readFailed>>
readerVars == <<reader, readerIntent, closeTracked, lastCall, shown>>
vars == <<sessionVars, flowVars, readerVars>>

Reading(status) == [status |-> status, publication |-> Nobody]

Init ==
    /\ SessionInit
    /\ flowIntent = Nobody /\ readFailed = {}
    /\ reader = Reading("idle") /\ readerIntent = Nobody
    /\ closeTracked = Nobody /\ lastCall = "none" /\ shown = {}

\* Calls are used in their order.
Fresh(c) == stage[c] = "unused" /\ \A d \in 1 .. c - 1 : stage[d] # "unused"

\* The session is closed for c, which waits for the cleanup at a stage.
CloseSession(c, where) ==
    /\ Close(c)
    /\ Stand(c, where)
    /\ ticket' = [ticket EXCEPT ![c] = session'.closing]
    /\ UNCHANGED <<answer, opened>>

-----------------------------------------------------------------------------
(* open *)

\* The call returns; its locals are gone.
Return(c) ==
    /\ Stand(c, "done")
    /\ answer' = [answer EXCEPT ![c] = "none"]
    /\ ticket' = [ticket EXCEPT ![c] = NotClosing]
    /\ readFailed' = readFailed \ {c}

\* A file is selected: the shell shows that it opens, the session is closed,
\* and the file is read meanwhile.
open(c) ==
    /\ Fresh(c)
    /\ readerIntent' = c /\ reader' = Reading("opening") /\ lastCall' = "open"
    /\ flowIntent' = c
    /\ CloseSession(c, "reading")
    /\ UNCHANGED <<readFailed, closeTracked, shown>>

\* The read ends, with the bytes or without.
fileRead(c) ==
    /\ stage[c] = "reading"
    /\ readFailed' \in {readFailed, readFailed \cup {c}}
    /\ IF flowIntent = c THEN Stand(c, "closing") /\ UNCHANGED answer
                         ELSE Answer(c, "cancelled")
    /\ UNCHANGED <<session, cleanup, ticket, opened, flowIntent, readerVars>>

\* The previous publication is closed: the session opens the bytes.
replacementClosed(c) ==
    /\ stage[c] = "closing" /\ Settled(ticket[c])
    /\ UNCHANGED <<opened, flowVars, readerVars>>
    /\ IF flowIntent = c /\ AllClosed(ticket[c]) /\ c \notin readFailed
       THEN Open(c) /\ UNCHANGED answer
       ELSE /\ Answer(c, IF flowIntent = c THEN "rejected" ELSE "cancelled")
            /\ UNCHANGED <<session, cleanup, ticket>>

\* What the flow makes of the session's answer.
FlowAnswer(c) == IF flowIntent = c THEN answer[c] ELSE "cancelled"

\* Mutated form: an answer that comes late is presented.
present_late(c) ==
    /\ stage[c] = "answered"
    /\ answer[c] # "empty"
    /\ Return(c)
    /\ reader' = IF FlowAnswer(c) = "book"
                 THEN [status |-> "ready", publication |-> c]
                 ELSE Reading("failure")
    /\ shown' = IF FlowAnswer(c) = "book" THEN shown \cup {c} ELSE shown
    /\ UNCHANGED <<session, cleanup, opened, flowIntent,
                   readerIntent, closeTracked, lastCall>>

\* The latest call presents its publication, or its failure.
present(c) ==
    /\ stage[c] = "answered"
    /\ readerIntent = c => FlowAnswer(c) # "empty"
    /\ Return(c)
    /\ IF readerIntent # c THEN UNCHANGED <<reader, shown>>
       ELSE IF FlowAnswer(c) = "book"
       THEN /\ reader' = [status |-> "ready", publication |-> c]
            /\ shown' = shown \cup {c}
       ELSE reader' = Reading("failure") /\ UNCHANGED shown
    /\ UNCHANGED <<session, cleanup, opened, flowIntent,
                   readerIntent, closeTracked, lastCall>>

\* A publication without anything to read is closed again.
rejectEmpty(c) ==
    /\ stage[c] = "answered" /\ readerIntent = c /\ FlowAnswer(c) = "empty"
    /\ flowIntent' = Nobody
    /\ CloseSession(c, "emptying")
    /\ UNCHANGED <<readFailed, readerVars>>

-----------------------------------------------------------------------------
(* close, failRendering, cleanup *)

\* A close asked for again answers with the first one.
repeatClose ==
    /\ closeTracked # Nobody
    /\ lastCall' = "close"
    /\ UNCHANGED <<sessionVars, flowVars, reader, readerIntent, closeTracked,
                   shown>>

\* The publication is given up.
close(c) ==
    /\ Fresh(c) /\ closeTracked = Nobody
    /\ readerIntent' = c /\ reader' = Reading("closing") /\ lastCall' = "close"
    /\ flowIntent' = Nobody /\ closeTracked' = c
    /\ CloseSession(c, "leaving")
    /\ UNCHANGED <<readFailed, shown>>

\* Mutated form: the failed page keeps its publication.
failRendering_keepsPublication(c) ==
    /\ Fresh(c) /\ reader.status = "ready"
    /\ readerIntent' = c /\ reader' = [reader EXCEPT !.status = "failure"]
    /\ lastCall' = "close" /\ flowIntent' = Nobody /\ closeTracked' = c
    /\ CloseSession(c, "failing")
    /\ UNCHANGED <<readFailed, shown>>

\* The page could not be rendered.
failRendering(c) ==
    /\ Fresh(c) /\ reader.status = "ready"
    /\ readerIntent' = c /\ reader' = Reading("failure") /\ lastCall' = "close"
    /\ flowIntent' = Nobody /\ closeTracked' = c
    /\ CloseSession(c, "failing")
    /\ UNCHANGED <<readFailed, shown>>

\* The application unmounts; nobody waits for the result.
cleanupReader(c) ==
    /\ Fresh(c)
    /\ readerIntent' = c /\ reader' = Reading("idle") /\ lastCall' = "close"
    /\ flowIntent' = Nobody
    /\ Close(c) /\ Stand(c, "done")
    /\ UNCHANGED <<ticket, answer, opened, readFailed, closeTracked, shown>>

\* What the shell shows when the close of the latest call has settled.
ClosedAs(c) ==
    IF ~AllClosed(ticket[c]) THEN Reading("close-failed")
    ELSE CASE stage[c] = "leaving" -> Reading("idle")
           [] stage[c] = "emptying" -> Reading("empty")
           [] stage[c] = "failing" -> reader

closeSettled(c) ==
    /\ stage[c] \in {"leaving", "failing", "emptying"} /\ Settled(ticket[c])
    /\ Return(c)
    /\ reader' = IF readerIntent = c THEN ClosedAs(c) ELSE reader
    /\ closeTracked' = IF closeTracked = c THEN Nobody ELSE closeTracked
    /\ UNCHANGED <<session, cleanup, opened, flowIntent,
                   readerIntent, lastCall, shown>>

-----------------------------------------------------------------------------
Asked(c) == open(c) \/ close(c) \/ failRendering(c) \/ cleanupReader(c)

Continues(c) ==
    \/ fileRead(c) \/ replacementClosed(c) \/ present(c) \/ rejectEmpty(c)
    \/ closeSettled(c)
    \/ SessionStep(c) /\ UNCHANGED <<flowVars, readerVars>>

Closes == PublicationCloses /\ UNCHANGED <<flowVars, readerVars>>

Next == (\E c \in Calls : Asked(c) \/ Continues(c)) \/ repeatClose \/ Closes

Spec == Init /\ [][Next]_vars

\* Promises settle: reads, the EPUB opener and the closes come to an end.
FairSpec == Spec /\ WF_vars(Closes) /\ \A c \in Calls : WF_vars(Continues(c))

-----------------------------------------------------------------------------
(* Properties *)

Stages == {"unused", "reading", "closing", "finishing", "claiming", "cleaning",
           "opening", "discarding", "answered", "emptying", "leaving",
           "failing", "done"}

Statuses == {"idle", "opening", "ready", "empty", "failure", "close-failed",
             "closing"}

Somebody == Calls \cup {Nobody}

Promises == [by : Somebody, after : 0 .. MaxCalls]

\* Every variable has its type; only a publication that is ready is exposed.
TypeOK ==
    /\ session \in [intent : Somebody, attempt : Somebody, active : Somebody,
                    closing : Promises]
    /\ cleanup.queue \in Seq(Calls)
    /\ cleanup.settled \in 0 .. Len(cleanup.queue)
    /\ cleanup.firstFailure \in 0 .. cleanup.settled
    /\ stage \in [Calls -> Stages] /\ ticket \in [Calls -> Promises]
    /\ answer \in [Calls -> {"none", "book", "empty", "rejected", "cancelled"}]
    /\ opened \subseteq Calls /\ readFailed \subseteq Calls /\ shown \subseteq Calls
    /\ {flowIntent, readerIntent, closeTracked} \subseteq Somebody
    /\ reader \in [status : Statuses, publication : Somebody]
    /\ reader.status = "ready" <=> reader.publication # Nobody
    /\ lastCall \in {"none", "open", "close"}

\* No publication is lost: each one that was opened is the active one or is
\* closed exactly once, whatever overtook the call that opened it.
EveryPublicationIsOwned ==
    /\ opened = (ToSet(cleanup.queue) \cup {session.active}) \ {Nobody}
    /\ IsInjective(cleanup.queue)
    /\ session.active \notin ToSet(cleanup.queue)

\* While a close is known to the session there is nothing left to close, so
\* answering a second close with the first one's result is right.
ClosingLeavesNothing ==
    session.closing # NotClosing =>
        session.attempt = Nobody /\ session.active = Nobody

\* However opens, closes and their late answers overlap, every publication has
\* somebody to close it, and a close that is answered twice closed everything.
PublicationsAreOwned == EveryPublicationIsOwned /\ ClosingLeavesNothing

\* The shell shows only the publication the session holds, never one that is
\* being closed.
ReadyIsActive ==
    reader.status = "ready" => session.active = reader.publication

\* An EPUB is opened for the session only when every publication that was
\* shown before has been closed.
CleanBeforeOpen ==
    \A c \in Calls : stage[c] = "opening" /\ session.attempt = c =>
        /\ session.active = Nobody
        /\ shown \subseteq ToSet(SubSeq(cleanup.queue, 1, cleanup.settled))

\* What is on the screen is open, and nothing else is.
OneBookAtATime == ReadyIsActive /\ CleanBeforeOpen

\* However calls overtake each other, one book is open and none is forgotten.
NoBookIsForgotten == PublicationsAreOwned /\ OneBookAtATime

\* The shell keeps the promise of LatestIntent: every new call hides what is
\* shown at once, and only the latest one's publication comes to be shown.
Promised == INSTANCE LatestIntent WITH
    Publications <- Calls,
    Nothing <- Nobody,
    wanted <- IF reader.status \in {"opening", "ready"} THEN readerIntent
                                                        ELSE Nobody,
    shown <- reader.publication

ShowsLatestIntent == Promised!Spec

\* The shell does not stay opening or closing, even when closes fail.
ReaderSettles ==
    reader.status \in {"opening", "closing"}
        ~> reader.status \notin {"opening", "closing"}

\* The test "coalesces close, clears data immediately, and supports reopen"
\* states that a close clears what is open; so nothing opens after it.
CloseClears == lastCall = "close" => reader.status \notin {"opening", "ready"}
=============================================================================
