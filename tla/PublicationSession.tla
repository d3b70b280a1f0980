-------------------------- MODULE PublicationSession --------------------------
(***************************************************************************)
(* The owner of the open publication: DesktopPublicationSession of         *)
(* apps/desktop/src/publication/publication-session.ts.                    *)
(*                                                                         *)
(* Opening and closing are asynchronous functions.  A call of open is at a *)
(* stage: the await it stands at.  Calls overlap freely; what each does    *)
(* when it goes on depends on what the others did meanwhile.               *)
(*                                                                         *)
(* The intent counter of the code only tells whether a call is still the   *)
(* latest one, so the model names that call (intent).  A publication is    *)
(* named by the call that opened it.                                       *)
(***************************************************************************)
EXTENDS Naturals, Sequences

CONSTANT MaxCalls   \* bound: calls made by the application

ASSUME MaxCallsAssumption == MaxCalls \in Nat \ {0}

Calls == 1 .. MaxCalls

Nobody == 0

VARIABLES
    session,    \* the session's fields
    cleanup,    \* publications being closed, one after the other
    stage,      \* where each call stands
    ticket,     \* the cleanup a call waits for
    answer,     \* what a call of open found
    opened      \* publications handed out by openEpubPublication

sessionVars == <<session, cleanup, stage, ticket, answer, opened>>

\* The promise of a cleanup: who asked for it, and the place in the queue after
\* which its result is known.
Promise(c, queue) == [by |-> c, after |-> Len(queue)]

NotClosing == Promise(Nobody, <<>>)

SessionInit ==
    /\ session = [intent |-> Nobody, attempt |-> Nobody, active |-> Nobody,
                  closing |-> NotClosing]
    /\ cleanup = [queue |-> <<>>, settled |-> 0, firstFailure |-> 0]
    /\ stage = [c \in Calls |-> "unused"]
    /\ ticket = [c \in Calls |-> NotClosing]
    /\ answer = [c \in Calls |-> "none"]
    /\ opened = {}

-----------------------------------------------------------------------------
(* The chain of cleanups *)

Settled(promise) == cleanup.settled >= promise.after

\* Whether everything up to its place was closed.
AllClosed(promise) ==
    cleanup.firstFailure = 0 \/ cleanup.firstFailure > promise.after

\* The queue after a publication, if any, was given up.
queuePublicationClose(publication) ==
    IF publication = Nobody THEN cleanup.queue
    ELSE Append(cleanup.queue, publication)

\* Mutated form: a failure ends the chain.
PublicationCloses_untilFailure ==
    /\ cleanup.settled < Len(cleanup.queue) /\ cleanup.firstFailure = 0
    /\ \E closed \in BOOLEAN :
          cleanup' = [cleanup EXCEPT !.settled = IF closed THEN @ + 1 ELSE @,
                         !.firstFailure = IF closed THEN @ ELSE cleanup.settled + 1]
    /\ UNCHANGED <<session, stage, ticket, answer, opened>>

\* The publication first in line is closed, or fails to close.
PublicationCloses ==
    /\ cleanup.settled < Len(cleanup.queue)
    /\ \E closed \in BOOLEAN :
          cleanup' = [cleanup EXCEPT
             !.settled = @ + 1,
             !.firstFailure = IF closed \/ @ # 0 THEN @ ELSE cleanup.settled + 1]
    /\ UNCHANGED <<session, stage, ticket, answer, opened>>

-----------------------------------------------------------------------------
(* close *)

\* The session is closed on behalf of call c; a close that is already known
\* answers again.
Close(c) ==
    IF session.closing # NotClosing
    THEN /\ session' = [session EXCEPT !.intent = Nobody]
         /\ UNCHANGED cleanup
    ELSE LET queue == queuePublicationClose(session.active)
         IN  /\ session' = [session EXCEPT !.intent = Nobody, !.attempt = Nobody,
                               !.active = Nobody,
                               !.closing = Promise(c, queue)]
             /\ cleanup' = [cleanup EXCEPT !.queue = queue]

-----------------------------------------------------------------------------
(* open *)

Stand(c, where) == stage' = [stage EXCEPT ![c] = where]

\* The call is done with the session.
Answer(c, found) ==
    /\ Stand(c, "answered")
    /\ answer' = [answer EXCEPT ![c] = found]

\* The call takes the session over: the publication there was is given up.
Claim(c) ==
    LET queue == queuePublicationClose(session.active)
    IN  /\ session' = [session EXCEPT !.intent = c, !.attempt = c,
                                      !.active = Nobody]
        /\ cleanup' = [cleanup EXCEPT !.queue = queue]
        /\ ticket' = [ticket EXCEPT ![c] = Promise(Nobody, queue)]
        /\ Stand(c, "cleaning")

\* open is called: an earlier attempt is cancelled, an earlier close awaited.
Open(c) ==
    IF session.closing = NotClosing THEN Claim(c)
    ELSE /\ session' = [session EXCEPT !.intent = c, !.attempt = Nobody]
         /\ ticket' = [ticket EXCEPT ![c] = session.closing]
         /\ Stand(c, "finishing")
         /\ UNCHANGED cleanup

\* The earlier close has settled; a failed one stays.
finishPreviousClose(c) ==
    /\ stage[c] = "finishing" /\ Settled(ticket[c])
    /\ IF AllClosed(ticket[c])
       THEN /\ Stand(c, "claiming")
            /\ session' = [session EXCEPT
                  !.closing = IF @ = ticket[c] THEN NotClosing ELSE @]
            /\ UNCHANGED answer
       ELSE /\ Answer(c, IF session.intent = c THEN "rejected" ELSE "cancelled")
            /\ UNCHANGED session
    /\ UNCHANGED <<cleanup, ticket, opened>>

\* open goes on after the earlier close, if it is still the latest call.
claim(c) ==
    /\ stage[c] = "claiming"
    /\ IF session.intent = c THEN Claim(c) /\ UNCHANGED answer
       ELSE /\ Answer(c, "cancelled")
            /\ UNCHANGED <<session, cleanup, ticket>>
    /\ UNCHANGED opened

\* What was given up is closed: the EPUB is opened.
previousPublicationClosed(c) ==
    /\ stage[c] = "cleaning" /\ Settled(ticket[c])
    /\ IF session.attempt # c THEN Answer(c, "cancelled") /\ UNCHANGED session
       ELSE IF AllClosed(ticket[c])
       THEN Stand(c, "opening") /\ UNCHANGED <<session, answer>>
       ELSE /\ Answer(c, "rejected")
            /\ session' = [session EXCEPT !.attempt = Nobody]
    /\ UNCHANGED <<cleanup, ticket, opened>>

\* Mutated form: a late publication is dropped.
publicationOpened_late(c) ==
    /\ stage[c] = "opening"
    /\ \E found \in {"book", "empty", "rejected", "cancelled"} :
          /\ opened' = IF found \in {"book", "empty"} THEN opened \cup {c}
                                                      ELSE opened
          /\ IF session.attempt = c
             THEN /\ Answer(c, found)
                  /\ session' = [session EXCEPT !.attempt = Nobody,
                        !.active = IF found \in {"book", "empty"} THEN c ELSE @]
             ELSE Answer(c, "cancelled") /\ UNCHANGED session
          /\ UNCHANGED <<cleanup, ticket>>

\* openEpubPublication answers: with a publication (which may have nothing to
\* read), with a failure, or cancelled.  A late publication is closed.
publicationOpened(c) ==
    /\ stage[c] = "opening"
    /\ \E found \in {"book", "empty", "rejected", "cancelled"} :
          LET handedOut == found \in {"book", "empty"}
              queue == queuePublicationClose(c)
          IN  /\ opened' = IF handedOut THEN opened \cup {c} ELSE opened
              /\ \/ /\ session.attempt = c
                    /\ Answer(c, found)
                    /\ session' = [session EXCEPT !.attempt = Nobody,
                                      !.active = IF handedOut THEN c ELSE @]
                    /\ UNCHANGED <<cleanup, ticket>>
                 \/ /\ session.attempt # c /\ handedOut
                    /\ cleanup' = [cleanup EXCEPT !.queue = queue]
                    /\ ticket' = [ticket EXCEPT ![c] = Promise(Nobody, queue)]
                    /\ Stand(c, "discarding")
                    /\ UNCHANGED <<session, answer>>
                 \/ /\ session.attempt # c /\ ~handedOut
                    /\ Answer(c, "cancelled")
                    /\ UNCHANGED <<session, cleanup, ticket>>

\* The late publication is closed.
discarded(c) ==
    /\ stage[c] = "discarding" /\ Settled(ticket[c])
    /\ Answer(c, "cancelled")
    /\ UNCHANGED <<session, cleanup, ticket, opened>>

SessionStep(c) ==
    \/ finishPreviousClose(c) \/ claim(c) \/ previousPublicationClosed(c)
    \/ publicationOpened(c) \/ discarded(c)
=============================================================================
