------------------------ MODULE ReaderLifecycle_proofs ------------------------
(***************************************************************************)
(* Proofs about the publication lifecycle for every number of calls: no    *)
(* publication is lost, a session that closes holds nothing, the shell     *)
(* keeps the promise of LatestIntent, and one book is open at a time.      *)
(***************************************************************************)
EXTENDS ReaderLifecycle, SequenceTheorems, FiniteSetTheorems, TLAPS

\* What the session holds and what it has given up.
Holdings ==
    /\ DOMAIN session = {"intent", "attempt", "active", "closing"}
    /\ DOMAIN cleanup = {"queue", "settled", "firstFailure"}
    /\ cleanup.queue \in Seq(Calls)
    /\ session.active \in Somebody
    /\ EveryPublicationIsOwned
    /\ ClosingLeavesNothing
    /\ session.attempt # Nobody => session.active = Nobody

\* Stages at which a call has not been handed a publication yet.
Waiting == {"unused", "reading", "closing", "finishing", "claiming",
            "cleaning", "opening"}

\* A call has no publication before the opener answers, and the latest call
\* finds the session closed by nobody else.
Places ==
    /\ stage \in [Calls -> Stages]
    /\ DOMAIN ticket = Calls
    /\ \A c \in Calls :
          /\ stage[c] \in Waiting => c \notin opened
          /\ stage[c] = "finishing" /\ session.intent = c
                => session.closing \in {ticket[c], NotClosing}
          /\ stage[c] = "claiming" /\ session.intent = c
                => session.closing = NotClosing

OInv == Holdings /\ Places

-----------------------------------------------------------------------------
(* The queue *)

\* Giving up a publication puts it in the queue once.
LEMMA GivenUp ==
    ASSUME cleanup.queue \in Seq(Calls), IsInjective(cleanup.queue),
           NEW p \in Somebody, p \notin ToSet(cleanup.queue)
    PROVE  /\ queuePublicationClose(p) \in Seq(Calls)
           /\ IsInjective(queuePublicationClose(p))
           /\ ToSet(queuePublicationClose(p)) =
                 (ToSet(cleanup.queue) \cup {p}) \ {Nobody}
<1> DEFINE q == cleanup.queue
           r == queuePublicationClose(p)
<1>0. q \in Seq(Calls) /\ IsInjective(q) /\ p \notin ToSet(q)
  OBVIOUS
<1>1. \A i \in DOMAIN q : q[i] \in Calls
  BY <1>0
<1>2. Nobody \notin ToSet(q)
  BY <1>1 DEF ToSet, Calls, Nobody
<1>3. CASE p = Nobody
  BY <1>0, <1>2, <1>3 DEF queuePublicationClose
<1>4. CASE p # Nobody
  <2>1. p \in Calls /\ r = Append(q, p)
    BY <1>4 DEF Somebody, queuePublicationClose
  <2>2. /\ r \in Seq(Calls) /\ Len(r) = Len(q) + 1 /\ r[Len(q) + 1] = p
        /\ \A i \in 1 .. Len(q) : r[i] = q[i]
    BY <1>0, <2>1, AppendProperties
  <2>3. DOMAIN q = 1 .. Len(q) /\ DOMAIN r = 1 .. Len(q) + 1 /\ Len(q) \in Nat
    BY <1>0, <2>2
  <2>4. ToSet(r) = ToSet(q) \cup {p}
    <3> HIDE DEF q, r
    <3>1. DOMAIN r = DOMAIN q \cup {Len(q) + 1}
      BY <2>3
    <3> QED BY <2>2, <2>3, <3>1 DEF ToSet
  <2>5. IsInjective(r)
    <3> HIDE DEF q, r
    <3>1. SUFFICES ASSUME NEW i \in 1 .. Len(q) + 1, NEW j \in 1 .. Len(q) + 1,
                          r[i] = r[j]
                   PROVE  i = j
      BY <2>3 DEF IsInjective
    <3>2. \A k \in 1 .. Len(q) : q[k] # p
      BY <1>0, <2>3 DEF ToSet
    <3>3. CASE i \in 1 .. Len(q) /\ j \in 1 .. Len(q)
      BY <1>0, <2>2, <2>3, <3>1, <3>3 DEF IsInjective
    <3>4. CASE i = Len(q) + 1 \/ j = Len(q) + 1
      BY <2>2, <2>3, <3>1, <3>2, <3>4
    <3> QED BY <2>3, <3>3, <3>4
  <2> QED BY <1>2, <1>4, <2>2, <2>4, <2>5
<1> QED BY <1>3, <1>4

-----------------------------------------------------------------------------
(* What the session's operations do to its holdings *)

\* Closing hands the active publication, if any, to the queue.
LEMMA CloseHoldings ==
    ASSUME Holdings, NEW c \in Calls, Close(c), UNCHANGED opened
    PROVE  Holdings' /\ session'.intent = Nobody
<1>1. CASE session.closing # NotClosing
  BY <1>1 DEF Holdings, Close, EveryPublicationIsOwned, ClosingLeavesNothing
<1>2. CASE session.closing = NotClosing
  <2> DEFINE q == queuePublicationClose(session.active)
  <2>1. /\ DOMAIN session' = DOMAIN session /\ DOMAIN cleanup' = DOMAIN cleanup
        /\ session'.intent = Nobody /\ session'.attempt = Nobody
        /\ session'.active = Nobody /\ cleanup'.queue = q
    BY <1>2 DEF Close, Holdings
  <2>2. /\ q \in Seq(Calls) /\ IsInjective(q)
        /\ ToSet(q) = (ToSet(cleanup.queue) \cup {session.active}) \ {Nobody}
    BY GivenUp DEF Holdings, EveryPublicationIsOwned
  <2>3. opened' = ToSet(q)
    BY <2>2 DEF Holdings, EveryPublicationIsOwned
  <2>4. Nobody \notin ToSet(q)
    BY <2>2
  <2> HIDE DEF q
  <2> QED BY <2>1, <2>2, <2>3, <2>4
          DEF Holdings, EveryPublicationIsOwned, ClosingLeavesNothing, Somebody
<1> QED BY <1>1, <1>2

\* So does the call that takes the session over.
LEMMA ClaimHoldings ==
    ASSUME Holdings, NEW c \in Calls, Claim(c), UNCHANGED opened,
           session.closing = NotClosing
    PROVE  /\ Holdings' /\ session'.intent = c
           /\ session'.closing = session.closing
<1> DEFINE q == queuePublicationClose(session.active)
<1>1. /\ DOMAIN session' = DOMAIN session /\ DOMAIN cleanup' = DOMAIN cleanup
      /\ session'.intent = c /\ session'.closing = session.closing
      /\ session'.active = Nobody /\ cleanup'.queue = q
  BY DEF Claim, Holdings
<1>2. /\ q \in Seq(Calls) /\ IsInjective(q)
      /\ ToSet(q) = (ToSet(cleanup.queue) \cup {session.active}) \ {Nobody}
  BY GivenUp DEF Holdings, EveryPublicationIsOwned
<1>3. opened' = ToSet(q)
  BY <1>2 DEF Holdings, EveryPublicationIsOwned
<1>4. Nobody \notin ToSet(q)
  BY <1>2
<1> HIDE DEF q
<1> QED BY <1>1, <1>2, <1>3, <1>4
        DEF Holdings, EveryPublicationIsOwned, ClosingLeavesNothing, Somebody

\* The opener's answer becomes the active publication of an empty session, or
\* goes to the queue.
LEMMA OpenedHoldings ==
    ASSUME Holdings, NEW c \in Calls, publicationOpened(c), c \notin opened
    PROVE  /\ Holdings' /\ opened' \subseteq opened \cup {c}
           /\ session'.intent = session.intent
           /\ session'.closing = session.closing
<1> DEFINE q == queuePublicationClose(c)
<1>1. PICK found \in {"book", "empty", "rejected", "cancelled"} :
         LET handedOut == found \in {"book", "empty"}
         IN  /\ opened' = IF handedOut THEN opened \cup {c} ELSE opened
             /\ \/ /\ session.attempt = c
                   /\ session' = [session EXCEPT !.attempt = Nobody,
                                     !.active = IF handedOut THEN c ELSE @]
                   /\ UNCHANGED cleanup
                \/ /\ session.attempt # c /\ handedOut
                   /\ cleanup' = [cleanup EXCEPT !.queue = q]
                   /\ UNCHANGED session
                \/ /\ session.attempt # c /\ ~handedOut
                   /\ UNCHANGED <<session, cleanup>>
  BY Zenon DEF publicationOpened
<1> c # Nobody /\ c \in Somebody
  BY DEF Calls, Nobody, Somebody
<1>2. c \notin ToSet(cleanup.queue) /\ c # session.active
  BY DEF Holdings, EveryPublicationIsOwned
<1>3. CASE session.attempt = c
  <2>1. session.active = Nobody /\ session.closing = NotClosing
    BY <1>3 DEF Holdings, ClosingLeavesNothing
  <2> DEFINE a == IF found \in {"book", "empty"} THEN c ELSE Nobody
  <2>2. /\ DOMAIN session' = DOMAIN session /\ session'.attempt = Nobody
        /\ session'.active = a /\ session'.closing = session.closing
        /\ session'.intent = session.intent /\ cleanup' = cleanup
    BY <1>1, <1>3, <2>1 DEF Holdings
  <2>3. opened' = (opened \cup {a}) \ {Nobody} /\ a \notin ToSet(cleanup.queue)
        /\ a \in Somebody /\ opened' \subseteq opened \cup {c}
    BY <1>1, <1>2, <2>1 DEF Holdings, EveryPublicationIsOwned, Somebody
  <2> HIDE DEF a
  <2> QED BY <2>1, <2>2, <2>3
          DEF Holdings, EveryPublicationIsOwned, ClosingLeavesNothing
<1>4. CASE session.attempt # c /\ found \in {"book", "empty"}
  <2>1. /\ q \in Seq(Calls) /\ IsInjective(q)
        /\ ToSet(q) = (ToSet(cleanup.queue) \cup {c}) \ {Nobody}
    BY <1>2, GivenUp DEF Holdings, EveryPublicationIsOwned
  <2>2. /\ session' = session /\ DOMAIN cleanup' = DOMAIN cleanup
        /\ cleanup'.queue = q /\ opened' = opened \cup {c}
    BY <1>1, <1>4 DEF Holdings
  <2> HIDE DEF q
  <2> QED BY <1>2, <2>1, <2>2
          DEF Holdings, EveryPublicationIsOwned, ClosingLeavesNothing
<1>5. CASE session.attempt # c /\ found \notin {"book", "empty"}
  BY <1>1, <1>5 DEF Holdings, EveryPublicationIsOwned, ClosingLeavesNothing
<1> QED BY <1>3, <1>4, <1>5

\* No other step touches the holdings.
LEMMA SameHoldings ==
    ASSUME Holdings, UNCHANGED <<opened, cleanup>>,
           DOMAIN session' = DOMAIN session,
           session'.active = session.active,
           session'.attempt \in {session.attempt, Nobody},
           session'.closing \in {session.closing, NotClosing}
    PROVE  Holdings'
BY DEF Holdings, EveryPublicationIsOwned, ClosingLeavesNothing

-----------------------------------------------------------------------------
(* Where the calls stand *)

\* A call that asks for a close leaves no latest call behind.
LEMMA PlacesAfterClose ==
    ASSUME Places, NEW c \in Calls, NEW where \in Stages, Stand(c, where),
           where \in Waiting => stage[c] \in Waiting, UNCHANGED opened,
           DOMAIN ticket' = Calls, session'.intent = Nobody
    PROVE  Places'
<1>1. /\ stage' \in [Calls -> Stages]
      /\ \A d \in Calls : stage'[d] \in Waiting => stage[d] \in Waiting
  BY DEF Places, Stand
<1>2. \A d \in Calls : session'.intent # d
  BY DEF Calls, Nobody
<1> QED BY <1>1, <1>2 DEF Places

\* A call goes on: the others keep their places.
LEMMA PlacesGoOn ==
    ASSUME Places, NEW c \in Calls, NEW where \in Stages, Stand(c, where),
           where \notin {"finishing", "claiming"},
           where \in Waiting => stage[c] \in Waiting /\ c \notin opened',
           opened' \subseteq opened \cup {c},
           session'.intent \in {session.intent, c},
           session'.closing \in {session.closing, NotClosing},
           DOMAIN ticket' = Calls,
           \A d \in Calls \ {c} : ticket'[d] = ticket[d]
    PROVE  Places'
<1>1. /\ stage' \in [Calls -> Stages] /\ stage'[c] = where
      /\ \A d \in Calls \ {c} : stage'[d] = stage[d]
  BY DEF Places, Stand
<1>2. ASSUME NEW d \in Calls \ {c}
      PROVE  /\ stage'[d] \in Waiting => d \notin opened'
             /\ stage'[d] = "finishing" /\ session'.intent = d
                   => session'.closing \in {ticket'[d], NotClosing}
             /\ stage'[d] = "claiming" /\ session'.intent = d
                   => session'.closing = NotClosing
  BY <1>1, <1>2 DEF Places
<1> QED BY <1>1, <1>2 DEF Places

\* A call waits for the close it found.
LEMMA PlacesOpen ==
    ASSUME Places, NEW c \in Calls, Stand(c, "finishing"), UNCHANGED opened,
           stage[c] \in Waiting, session'.intent = c,
           session'.closing = session.closing,
           ticket' = [ticket EXCEPT ![c] = session.closing]
    PROVE  Places'
<1>1. /\ stage' \in [Calls -> Stages] /\ stage'[c] = "finishing"
      /\ \A d \in Calls \ {c} : stage'[d] = stage[d]
  BY DEF Places, Stand, Stages
<1>2. DOMAIN ticket' = Calls /\ ticket'[c] = session'.closing
  BY DEF Places
<1> QED BY <1>1, <1>2 DEF Places

\* The latest call finds its close settled.
LEMMA PlacesClaim ==
    ASSUME Places, NEW c \in Calls, stage[c] = "finishing",
           Stand(c, "claiming"), UNCHANGED <<opened, ticket>>,
           session'.intent = session.intent,
           session'.closing = IF session.closing = ticket[c] THEN NotClosing
                                                             ELSE session.closing
    PROVE  Places'
<1>1. /\ stage' \in [Calls -> Stages] /\ stage'[c] = "claiming"
      /\ \A d \in Calls \ {c} : stage'[d] = stage[d]
  BY DEF Places, Stand, Stages
<1>2. session.intent = c => session'.closing = NotClosing
  BY DEF Places
<1>3. c \notin opened'
  BY DEF Places, Waiting
<1>4. ASSUME NEW d \in Calls \ {c}
      PROVE  /\ stage'[d] \in Waiting => d \notin opened'
             /\ stage'[d] = "finishing" /\ session'.intent = d
                   => session'.closing \in {ticket'[d], NotClosing}
             /\ stage'[d] = "claiming" /\ session'.intent = d
                   => session'.closing = NotClosing
  BY <1>1, <1>4 DEF Places
<1> QED BY <1>1, <1>2, <1>3, <1>4 DEF Places

-----------------------------------------------------------------------------
(* Every step keeps the invariant *)

LEMMA OwnedAtStart == Init => OInv
<1> SUFFICES ASSUME Init PROVE OInv
  OBVIOUS
<1>1. Holdings
  BY DEF Init, SessionInit, Holdings, EveryPublicationIsOwned,
         ClosingLeavesNothing, Somebody, ToSet, IsInjective
<1>2. Places
  BY DEF Init, SessionInit, Places, Stages, Calls, Nobody
<1> QED BY <1>1, <1>2 DEF OInv

\* The calls of the application, and the rejection of an empty publication.
LEMMA OwnedWhenAsked ==
    ASSUME OInv, NEW c \in Calls, Asked(c) \/ rejectEmpty(c)
    PROVE  OInv'
<1>1. PICK where \in {"reading", "leaving", "failing", "emptying", "done"} :
         /\ Close(c) /\ Stand(c, where) /\ UNCHANGED opened
         /\ where = "reading" => stage[c] = "unused"
         /\ \/ ticket' = [ticket EXCEPT ![c] = session'.closing]
            \/ ticket' = ticket
  BY DEF Asked, rejectEmpty, open, close, failRendering, cleanupReader,
         CloseSession, Fresh
<1>2. Holdings' /\ session'.intent = Nobody
  BY <1>1, CloseHoldings DEF OInv
<1>3. DOMAIN ticket' = Calls
  BY <1>1 DEF OInv, Places
<1>4. where \in Stages /\ (where \in Waiting => stage[c] \in Waiting)
  BY <1>1 DEF Stages, Waiting
<1>5. Places'
  BY <1>1, <1>2, <1>3, <1>4, PlacesAfterClose DEF OInv
<1> QED BY <1>2, <1>5 DEF OInv

\* The read of the file, and the return of a call.
LEMMA OwnedOutsideSession ==
    ASSUME OInv, NEW c \in Calls,
           fileRead(c) \/ present(c) \/ closeSettled(c)
    PROVE  OInv'
<1>1. PICK where \in {"closing", "answered", "done"} :
         /\ Stand(c, where) /\ UNCHANGED <<session, opened>>
         /\ cleanup' = cleanup
         /\ where = "closing" => stage[c] = "reading"
         /\ ticket' = ticket \/ ticket' = [ticket EXCEPT ![c] = NotClosing]
  BY DEF fileRead, present, closeSettled, Return, Answer
<1>2. Holdings'
  BY <1>1, SameHoldings DEF OInv, Holdings
<1>3. DOMAIN ticket' = Calls /\ \A d \in Calls \ {c} : ticket'[d] = ticket[d]
  BY <1>1 DEF OInv, Places
<1>4. /\ where \in Stages \ {"finishing", "claiming"}
      /\ where \in Waiting => stage[c] \in Waiting /\ c \notin opened'
  BY <1>1 DEF Stages, Waiting, OInv, Places
<1>5. Places'
  BY <1>1, <1>3, <1>4, PlacesGoOn DEF OInv
<1> QED BY <1>2, <1>5 DEF OInv

\* The flow hands the bytes to the session, or gives up.
LEMMA OwnedWhenReplaced ==
    ASSUME OInv, NEW c \in Calls, replacementClosed(c)
    PROVE  OInv'
<1>0. /\ UNCHANGED opened /\ stage[c] = "closing"
      /\ stage[c] \in Waiting /\ c \notin opened /\ c \in Somebody
  BY DEF replacementClosed, OInv, Places, Waiting, Somebody
<1>1. CASE Open(c) /\ session.closing = NotClosing
  <2>1. Claim(c)
    BY <1>1 DEF Open
  <2>2. /\ Holdings' /\ session'.intent = c
        /\ session'.closing = session.closing
    BY <1>0, <1>1, <2>1, ClaimHoldings DEF OInv
  <2>3. /\ Stand(c, "cleaning") /\ DOMAIN ticket' = Calls
        /\ \A d \in Calls \ {c} : ticket'[d] = ticket[d]
    BY <2>1 DEF Claim, OInv, Places
  <2>4. "cleaning" \in Stages
    BY DEF Stages
  <2>5. Places'
    BY <1>0, <2>2, <2>3, <2>4, PlacesGoOn DEF OInv
  <2> QED BY <2>2, <2>5 DEF OInv
<1>2. CASE Open(c) /\ session.closing # NotClosing
  <2>1. /\ session' = [session EXCEPT !.intent = c, !.attempt = Nobody]
        /\ ticket' = [ticket EXCEPT ![c] = session.closing]
        /\ Stand(c, "finishing") /\ UNCHANGED cleanup
    BY <1>2 DEF Open
  <2>2. /\ DOMAIN session' = DOMAIN session /\ session'.intent = c
        /\ session'.attempt = Nobody /\ session'.active = session.active
        /\ session'.closing = session.closing
    BY <2>1 DEF OInv, Holdings
  <2>3. Holdings'
    BY <1>0, <2>1, <2>2, SameHoldings DEF OInv
  <2>4. Places'
    BY <1>0, <2>1, <2>2, PlacesOpen DEF OInv
  <2> QED BY <2>3, <2>4 DEF OInv
<1>3. CASE ~Open(c)
  <2>1. Stand(c, "answered") /\ UNCHANGED <<session, cleanup, ticket>>
    BY <1>3 DEF replacementClosed, Answer
  <2>2. Holdings'
    BY <1>0, <2>1, SameHoldings DEF OInv
  <2>3. "answered" \in Stages \ {"finishing", "claiming"}
        /\ "answered" \notin Waiting
    BY DEF Stages, Waiting
  <2>4. Places'
    BY <1>0, <2>1, <2>3, PlacesGoOn DEF OInv, Places
  <2> QED BY <2>2, <2>4 DEF OInv
<1> QED BY <1>1, <1>2, <1>3

\* The earlier close has settled.
LEMMA OwnedWhenFinished ==
    ASSUME OInv, NEW c \in Calls, finishPreviousClose(c)
    PROVE  OInv'
<1>0. UNCHANGED <<opened, ticket, cleanup>> /\ stage[c] = "finishing"
  BY DEF finishPreviousClose
<1>1. CASE AllClosed(ticket[c])
  <2>1. /\ Stand(c, "claiming")
        /\ session' = [session EXCEPT
              !.closing = IF @ = ticket[c] THEN NotClosing ELSE @]
    BY <1>1 DEF finishPreviousClose
  <2>2. /\ DOMAIN session' = DOMAIN session
        /\ session'.intent = session.intent
        /\ session'.attempt = session.attempt
        /\ session'.active = session.active
        /\ session'.closing = IF session.closing = ticket[c] THEN NotClosing
                              ELSE session.closing
    BY <2>1 DEF OInv, Holdings
  <2>3. Holdings'
    BY <1>0, <2>2, SameHoldings DEF OInv
  <2>4. Places'
    BY <1>0, <2>1, <2>2, PlacesClaim DEF OInv
  <2> QED BY <2>3, <2>4 DEF OInv
<1>2. CASE ~AllClosed(ticket[c])
  <2>1. Stand(c, "answered") /\ UNCHANGED session
    BY <1>2 DEF finishPreviousClose, Answer
  <2>2. Holdings'
    BY <1>0, <2>1, SameHoldings DEF OInv
  <2>3. "answered" \in Stages \ {"finishing", "claiming"}
        /\ "answered" \notin Waiting
    BY DEF Stages, Waiting
  <2>4. Places'
    BY <1>0, <2>1, <2>3, PlacesGoOn DEF OInv, Places
  <2> QED BY <2>2, <2>4 DEF OInv
<1> QED BY <1>1, <1>2

\* The call takes the session over, if it is still the latest one.
LEMMA OwnedWhenClaimed ==
    ASSUME OInv, NEW c \in Calls, claim(c)
    PROVE  OInv'
<1>0. /\ UNCHANGED opened /\ stage[c] = "claiming"
      /\ stage[c] \in Waiting /\ c \notin opened
  BY DEF claim, OInv, Places, Waiting
<1>1. CASE session.intent = c
  <2>1. Claim(c) /\ session.closing = NotClosing
    BY <1>0, <1>1 DEF claim, OInv, Places
  <2>2. /\ Holdings' /\ session'.intent = c
        /\ session'.closing = session.closing
    BY <1>0, <2>1, ClaimHoldings DEF OInv
  <2>3. /\ Stand(c, "cleaning") /\ DOMAIN ticket' = Calls
        /\ \A d \in Calls \ {c} : ticket'[d] = ticket[d]
    BY <2>1 DEF Claim, OInv, Places
  <2>4. "cleaning" \in Stages
    BY DEF Stages
  <2>5. Places'
    BY <1>0, <2>2, <2>3, <2>4, PlacesGoOn DEF OInv
  <2> QED BY <2>2, <2>5 DEF OInv
<1>2. CASE session.intent # c
  <2>1. Stand(c, "answered") /\ UNCHANGED <<session, cleanup, ticket>>
    BY <1>2 DEF claim, Answer
  <2>2. Holdings'
    BY <1>0, <2>1, SameHoldings DEF OInv
  <2>3. "answered" \in Stages \ {"finishing", "claiming"}
        /\ "answered" \notin Waiting
    BY DEF Stages, Waiting
  <2>4. Places'
    BY <1>0, <2>1, <2>3, PlacesGoOn DEF OInv, Places
  <2> QED BY <2>2, <2>4 DEF OInv
<1> QED BY <1>1, <1>2

\* What was given up is closed, and the opener answers.
LEMMA OwnedWhenOpened ==
    ASSUME OInv, NEW c \in Calls,
           previousPublicationClosed(c) \/ publicationOpened(c) \/ discarded(c)
    PROVE  OInv'
<1>1. CASE previousPublicationClosed(c)
  <2>1. PICK where \in {"opening", "answered"} : Stand(c, where)
    BY <1>1 DEF previousPublicationClosed, Answer
  <2>2. UNCHANGED <<opened, ticket, cleanup>> /\ stage[c] = "cleaning"
    BY <1>1 DEF previousPublicationClosed
  <2>3. \/ session' = session
        \/ session' = [session EXCEPT !.attempt = Nobody]
    BY <1>1 DEF previousPublicationClosed
  <2>4. /\ DOMAIN session' = DOMAIN session
        /\ session'.attempt \in {session.attempt, Nobody}
        /\ session'.active = session.active
        /\ session'.closing = session.closing
        /\ session'.intent = session.intent
    BY <2>3 DEF OInv, Holdings
  <2>5. Holdings'
    BY <2>2, <2>4, SameHoldings DEF OInv
  <2>6. /\ where \in Stages \ {"finishing", "claiming"}
        /\ stage[c] \in Waiting /\ c \notin opened'
    BY <2>2 DEF Stages, Waiting, OInv, Places
  <2>7. Places'
    BY <2>1, <2>2, <2>4, <2>6, PlacesGoOn DEF OInv, Places
  <2> QED BY <2>5, <2>7 DEF OInv
<1>2. CASE publicationOpened(c)
  <2>1. PICK where \in {"answered", "discarding"} : Stand(c, where)
    BY <1>2, Zenon DEF publicationOpened, Answer
  <2>2. c \notin opened
    BY <1>2 DEF publicationOpened, OInv, Places, Waiting
  <2>3. /\ Holdings' /\ opened' \subseteq opened \cup {c}
        /\ session'.intent = session.intent
        /\ session'.closing = session.closing
    BY <1>2, <2>2, OpenedHoldings DEF OInv
  <2>4. \/ ticket' = ticket
        \/ ticket' = [ticket EXCEPT ![c] =
                         Promise(Nobody, queuePublicationClose(c))]
    BY <1>2, Zenon DEF publicationOpened
  <2>5. DOMAIN ticket' = Calls /\ \A d \in Calls \ {c} : ticket'[d] = ticket[d]
    BY <2>4 DEF OInv, Places
  <2>6. where \in Stages \ {"finishing", "claiming"} /\ where \notin Waiting
    BY DEF Stages, Waiting
  <2>7. Places'
    BY <2>1, <2>3, <2>5, <2>6, PlacesGoOn DEF OInv
  <2> QED BY <2>3, <2>7 DEF OInv
<1>3. CASE discarded(c)
  <2>1. Stand(c, "answered") /\ UNCHANGED <<session, cleanup, ticket, opened>>
    BY <1>3 DEF discarded, Answer
  <2>2. Holdings'
    BY <2>1, SameHoldings DEF OInv, Holdings
  <2>3. "answered" \in Stages \ {"finishing", "claiming"}
        /\ "answered" \notin Waiting
    BY DEF Stages, Waiting
  <2>4. Places'
    BY <2>1, <2>3, PlacesGoOn DEF OInv, Places
  <2> QED BY <2>2, <2>4 DEF OInv
<1> QED BY <1>1, <1>2, <1>3

\* Steps that belong to no call, and stuttering.
LEMMA OwnedOtherwise ==
    ASSUME OInv, Closes \/ repeatClose \/ UNCHANGED vars
    PROVE  OInv'
<1>1. /\ UNCHANGED <<session, opened, stage, ticket>>
      /\ cleanup'.queue = cleanup.queue /\ DOMAIN cleanup' = DOMAIN cleanup
  <2>1. CASE Closes
    BY <2>1 DEF Closes, PublicationCloses, OInv, Holdings
  <2>2. CASE repeatClose \/ UNCHANGED vars
    BY <2>2 DEF repeatClose, vars, sessionVars
  <2> QED BY <2>1, <2>2
<1> QED BY <1>1 DEF OInv, Holdings, Places, EveryPublicationIsOwned,
                    ClosingLeavesNothing

LEMMA OwnedStep == OInv /\ [Next]_vars => OInv'
<1> SUFFICES ASSUME OInv, [Next]_vars PROVE OInv'
  OBVIOUS
<1>1. CASE Closes \/ repeatClose \/ UNCHANGED vars
  BY <1>1, OwnedOtherwise
<1>2. ASSUME NEW c \in Calls, Asked(c) PROVE OInv'
  BY <1>2, OwnedWhenAsked
<1>3. ASSUME NEW c \in Calls, Continues(c) PROVE OInv'
  BY <1>3, OwnedWhenAsked, OwnedOutsideSession, OwnedWhenReplaced,
     OwnedWhenFinished, OwnedWhenClaimed, OwnedWhenOpened
     DEF Continues, SessionStep
<1> QED BY <1>1, <1>2, <1>3 DEF Next

-----------------------------------------------------------------------------
\* No publication is lost or closed twice: each one the opener hands out is
\* the active one or in the queue of cleanups, for any number of overlapping
\* calls of open, close, failRendering and cleanup.  And a session that is
\* closing holds no attempt and no publication: the result of the first close
\* may answer any later one.
THEOREM NothingLeaks == Spec => []PublicationsAreOwned
<1>1. OInv => PublicationsAreOwned
  BY DEF OInv, Holdings, PublicationsAreOwned
<1> QED BY <1>1, OwnedAtStart, OwnedStep, PTL DEF Spec

-----------------------------------------------------------------------------
(* The promise of LatestIntent *)

\* Stages of a call of open whose publication may still be shown.
Underway == {"reading", "closing", "finishing", "claiming", "cleaning",
             "opening", "discarding", "answered", "emptying"}

\* While the latest call is one of open, the shell says so.
ShellInv ==
    /\ stage \in [Calls -> Stages]
    /\ reader.status = "ready" <=> reader.publication # Nobody
    /\ readerIntent # Nobody => readerIntent \in Calls
    /\ reader.status \in {"opening", "ready"} => readerIntent # Nobody
    /\ \A c \in Calls : readerIntent = c =>
          /\ stage[c] # "unused"
          /\ stage[c] \in Underway => reader = Reading("opening")

LEMMA ShellAtStart == Init => ShellInv /\ Promised!Init
BY DEF Init, SessionInit, ShellInv, Promised!Init, Reading, Stages, Calls,
       Nobody

\* A call of the application hides what is shown.
LEMMA ShellWhenAsked ==
    ASSUME ShellInv, NEW c \in Calls, Asked(c)
    PROVE  /\ ShellInv'
           /\ Promised!Next
<1>1. PICK where \in {"reading", "leaving", "failing", "done"},
           status \in {"opening", "closing", "failure", "idle"} :
         /\ stage[c] = "unused" /\ Stand(c, where)
         /\ readerIntent' = c /\ reader' = Reading(status)
         /\ where = "reading" <=> status = "opening"
  BY DEF Asked, open, close, failRendering, cleanupReader, CloseSession, Fresh
<1>2. c # Nobody /\ readerIntent # c
  BY <1>1 DEF ShellInv, Calls, Nobody
<1>3. stage' \in [Calls -> Stages] /\ stage'[c] = where
  BY <1>1 DEF ShellInv, Stand, Stages
<1>4. reader'.status = status /\ reader'.publication = Nobody
  BY <1>1 DEF Reading
<1>5. ShellInv'
  BY <1>1, <1>2, <1>3, <1>4 DEF ShellInv, Underway
<1>6. ASSUME status = "opening" PROVE Promised!Next
  BY <1>1, <1>2, <1>4, <1>6 DEF Promised!Next, Promised!Ask
<1>7. ASSUME status # "opening" PROVE Promised!Next
  BY <1>1, <1>4, <1>7 DEF Promised!Next, Promised!Leave
<1> QED BY <1>5, <1>6, <1>7

\* A publication is presented, or a failure; a close has settled.
LEMMA ShellWhenPresented ==
    ASSUME ShellInv, NEW c \in Calls, present(c) \/ closeSettled(c)
    PROVE  /\ ShellInv'
           /\ Promised!Next \/ UNCHANGED <<reader, readerIntent>>
<1>1. Stand(c, "done") /\ readerIntent' = readerIntent
  BY DEF present, closeSettled, Return
<1>2. /\ stage' \in [Calls -> Stages] /\ stage'[c] = "done"
      /\ \A d \in Calls \ {c} : stage'[d] = stage[d]
  BY <1>1 DEF ShellInv, Stand, Stages
<1>3. CASE reader' = reader
  BY <1>1, <1>2, <1>3 DEF ShellInv, Underway
<1>4. CASE reader' # reader
  <2>1. readerIntent = c
    BY <1>4 DEF present, closeSettled
  <2>2. \/ /\ present(c) /\ reader' = [status |-> "ready", publication |-> c]
        \/ \E status \in {"failure", "close-failed", "idle", "empty"} :
              reader' = Reading(status)
    BY <1>4 DEF present, closeSettled, ClosedAs
  <2>3. c # Nobody
    BY DEF Calls, Nobody
  <2>4. ShellInv'
    BY <1>1, <1>2, <2>1, <2>2, <2>3 DEF ShellInv, Underway, Reading
  <2>5. ASSUME present(c), reader' = [status |-> "ready", publication |-> c]
        PROVE  Promised!Next
    <3>1. reader = Reading("opening")
      BY <2>1, <2>5 DEF present, ShellInv, Underway
    <3> QED BY <1>1, <2>1, <2>3, <2>5, <3>1
            DEF Reading, Promised!Next, Promised!Show
  <2>6. ASSUME \E status \in {"failure", "close-failed", "idle", "empty"} :
                  reader' = Reading(status)
        PROVE  Promised!Next
    BY <2>6 DEF Reading, Promised!Next, Promised!Leave
  <2> QED BY <2>2, <2>4, <2>5, <2>6
<1> QED BY <1>3, <1>4

\* Everything else leaves the shell alone.
LEMMA ShellOtherwise ==
    ASSUME ShellInv,
           \/ repeatClose \/ Closes \/ UNCHANGED vars
           \/ \E c \in Calls : \/ fileRead(c) \/ replacementClosed(c)
                               \/ rejectEmpty(c)
                               \/ SessionStep(c) /\ UNCHANGED <<flowVars, readerVars>>
    PROVE  ShellInv' /\ UNCHANGED <<reader, readerIntent>>
<1>1. UNCHANGED <<reader, readerIntent>>
  BY DEF repeatClose, Closes, vars, flowVars, readerVars, fileRead,
         replacementClosed, rejectEmpty
<1>2. CASE UNCHANGED stage
  BY <1>1, <1>2 DEF ShellInv
<1>3. ASSUME NEW c \in Calls,
             \/ fileRead(c) \/ replacementClosed(c) \/ rejectEmpty(c)
             \/ SessionStep(c)
      PROVE  ShellInv'
  <2>1. \E where \in Underway : Stand(c, where)
    <3>1. CASE fileRead(c) \/ replacementClosed(c) \/ rejectEmpty(c)
      BY <3>1 DEF fileRead, replacementClosed, rejectEmpty, Open, Claim,
                  Answer, CloseSession, Underway
    <3>2. CASE publicationOpened(c)
      BY <3>2, Zenon DEF publicationOpened, Answer, Underway
    <3>3. CASE \/ finishPreviousClose(c) \/ claim(c)
               \/ previousPublicationClosed(c) \/ discarded(c)
      BY <3>3 DEF finishPreviousClose, claim, previousPublicationClosed,
                  discarded, Claim, Answer, Underway
    <3> QED BY <1>3, <3>1, <3>2, <3>3 DEF SessionStep
  <2>2. stage[c] \in Underway
    BY <1>3 DEF fileRead, replacementClosed, rejectEmpty, SessionStep,
                finishPreviousClose, claim, previousPublicationClosed,
                publicationOpened, discarded, Underway
  <2>3. Underway \subseteq Stages /\ "unused" \notin Underway
    BY DEF Underway, Stages
  <2>4. /\ stage' \in [Calls -> Stages] /\ stage'[c] \in Underway
        /\ \A d \in Calls \ {c} : stage'[d] = stage[d]
    BY <2>1, <2>3 DEF ShellInv, Stand
  <2> QED BY <1>1, <2>2, <2>3, <2>4 DEF ShellInv
<1>4. CASE repeatClose \/ Closes \/ UNCHANGED vars
  BY <1>2, <1>4 DEF repeatClose, Closes, PublicationCloses, vars, sessionVars
<1> QED BY <1>1, <1>3, <1>4

LEMMA ShellStep ==
    ASSUME ShellInv, [Next]_vars
    PROVE  ShellInv' /\ (Promised!Next \/ UNCHANGED <<reader, readerIntent>>)
<1>1. ASSUME NEW c \in Calls, Asked(c)
      PROVE  ShellInv' /\ Promised!Next
  BY <1>1, ShellWhenAsked
<1>2. ASSUME NEW c \in Calls, present(c) \/ closeSettled(c)
      PROVE  ShellInv' /\ (Promised!Next \/ UNCHANGED <<reader, readerIntent>>)
  BY <1>2, ShellWhenPresented
<1>3. ASSUME \/ repeatClose \/ Closes \/ UNCHANGED vars
             \/ \E c \in Calls : \/ fileRead(c) \/ replacementClosed(c)
                                 \/ rejectEmpty(c)
                                 \/ /\ SessionStep(c)
                                    /\ UNCHANGED <<flowVars, readerVars>>
      PROVE  ShellInv' /\ UNCHANGED <<reader, readerIntent>>
  BY <1>3, ShellOtherwise
<1>4. ASSUME NEW c \in Calls, Continues(c)
      PROVE  ShellInv' /\ (Promised!Next \/ UNCHANGED <<reader, readerIntent>>)
  <2>1. CASE present(c) \/ closeSettled(c)
    BY <1>2, <2>1
  <2>2. CASE ~(present(c) \/ closeSettled(c))
    BY <1>3, <1>4, <2>2 DEF Continues
  <2> QED BY <2>1, <2>2
<1>5. CASE \E c \in Calls : Asked(c) \/ Continues(c)
  BY <1>1, <1>4, <1>5
<1>6. CASE repeatClose \/ Closes \/ UNCHANGED vars
  BY <1>3, <1>6
<1> QED BY <1>5, <1>6 DEF Next

\* The shell keeps the promise of LatestIntent, for any number of calls:
\* every new call hides what is shown at once, and what comes to be shown is
\* the publication of the latest call.
THEOREM LatestIntentHolds == Spec => ShowsLatestIntent
<1> DEFINE wanted == IF reader.status \in {"opening", "ready"} THEN readerIntent
                                                               ELSE Nobody
<1>1. ASSUME ShellInv, [Next]_vars
      PROVE  ShellInv' /\ [Promised!Next]_<<wanted, reader.publication>>
  BY <1>1, ShellStep
<1> QED BY <1>1, ShellAtStart, PTL DEF Spec, ShowsLatestIntent, Promised!Spec

-----------------------------------------------------------------------------
(* One book at a time *)

\* The flow works for the shell's latest call or for none, the session for the
\* flow's, and the attempt is of the session's call, at one of two stages.
Intents ==
    /\ flowIntent \in {readerIntent, Nobody}
    /\ session.intent \in {flowIntent, Nobody}
    /\ session.attempt \in {session.intent, Nobody}
    /\ \A c \in Calls : session.attempt = c => stage[c] \in {"cleaning", "opening"}

\* A publication that the flow is about to present is the session's.
Answered ==
    \A c \in Calls :
       stage[c] = "answered" /\ flowIntent = c /\ answer[c] \in {"book", "empty"}
          => session.active = c

\* The first n publications that were given up.
Upto(n) == {cleanup.queue[i] : i \in 1 .. n}

\* An attempt waits for the close of all that was shown before.
Cleaned ==
    /\ cleanup.settled \in 0 .. Len(cleanup.queue)
    /\ shown \subseteq opened
    /\ \A c \in Calls : session.attempt = c =>
          /\ stage[c] = "cleaning" => /\ ticket[c].after \in 0 .. Len(cleanup.queue)
                                      /\ shown \subseteq Upto(ticket[c].after)
          /\ stage[c] = "opening" => shown \subseteq Upto(cleanup.settled)

BInv ==
    /\ OInv /\ ShellInv /\ Intents /\ Answered /\ ReadyIsActive /\ Cleaned
    /\ DOMAIN answer = Calls

\* What is given up is given up for good.
Extends ==
    /\ cleanup'.settled = cleanup.settled
    /\ Len(cleanup'.queue) >= Len(cleanup.queue)
    /\ \A i \in 1 .. Len(cleanup.queue) : cleanup'.queue[i] = cleanup.queue[i]

\* The session has let go of everything.
Empty == /\ session'.intent = Nobody /\ session'.attempt = Nobody
         /\ session'.active = Nobody

LEMMA QueueExtends ==
    ASSUME Holdings, NEW p \in Somebody,
           cleanup'.queue = queuePublicationClose(p),
           cleanup'.settled = cleanup.settled
    PROVE  Extends
<1>1. CASE p = Nobody
  BY <1>1 DEF Holdings, Extends, queuePublicationClose
<1>2. CASE p # Nobody
  <2>1. p \in Calls /\ cleanup'.queue = Append(cleanup.queue, p)
    BY <1>2 DEF queuePublicationClose, Somebody
  <2> QED BY <2>1, AppendProperties DEF Holdings, Extends
<1> QED BY <1>1, <1>2

LEMMA CloseEmpties ==
    ASSUME Holdings, NEW c \in Calls, Close(c)
    PROVE  Empty /\ Extends
<1>1. CASE session.closing # NotClosing
  BY <1>1 DEF Close, Holdings, ClosingLeavesNothing, Empty, Extends
<1>2. CASE session.closing = NotClosing
  <2>1. Empty
    BY <1>2 DEF Close, Holdings, Empty
  <2>2. /\ cleanup'.queue = queuePublicationClose(session.active)
        /\ cleanup'.settled = cleanup.settled
    BY <1>2 DEF Close, Holdings
  <2> QED BY <2>1, <2>2, QueueExtends DEF Holdings
<1> QED BY <1>1, <1>2

LEMMA ClaimTakes ==
    ASSUME Holdings, NEW c \in Calls, Claim(c)
    PROVE  /\ session'.intent = c /\ session'.attempt = c
           /\ session'.active = Nobody
           /\ Stand(c, "cleaning")
           /\ ticket' = [ticket EXCEPT ![c] = Promise(Nobody, cleanup'.queue)]
           /\ Extends
<1>1. /\ session'.intent = c /\ session'.attempt = c /\ session'.active = Nobody
      /\ cleanup'.queue = queuePublicationClose(session.active)
      /\ cleanup'.settled = cleanup.settled
  BY DEF Claim, Holdings
<1>2. Stand(c, "cleaning")
  BY DEF Claim
<1>3. ticket' = [ticket EXCEPT ![c] = Promise(Nobody, cleanup'.queue)]
  BY <1>1 DEF Claim
<1>4. Extends
  BY <1>1, QueueExtends DEF Holdings
<1> QED BY <1>1, <1>2, <1>3, <1>4

LEMMA OpenTakes ==
    ASSUME Holdings, NEW c \in Calls, Open(c)
    PROVE  /\ session'.intent = c /\ session'.active = Nobody /\ Extends
           /\ \/ /\ session'.attempt = c /\ Stand(c, "cleaning")
                 /\ ticket' = [ticket EXCEPT ![c] = Promise(Nobody, cleanup'.queue)]
              \/ session'.attempt = Nobody /\ Stand(c, "finishing")
<1>1. CASE session.closing = NotClosing
  <2>1. Claim(c)
    BY <1>1 DEF Open
  <2> QED BY <2>1, ClaimTakes
<1>2. CASE session.closing # NotClosing
  <2>1. /\ session' = [session EXCEPT !.intent = c, !.attempt = Nobody]
        /\ Stand(c, "finishing") /\ cleanup' = cleanup
    BY <1>2 DEF Open
  <2>2. session.active = Nobody
    BY <1>2 DEF Holdings, ClosingLeavesNothing
  <2> QED BY <2>1, <2>2 DEF Holdings, Extends
<1> QED BY <1>1, <1>2

\* A call of the application hides what is shown and empties the session.
LEMMA AskedEmpties ==
    ASSUME OInv, NEW c \in Calls, Asked(c)
    PROVE  /\ Empty /\ Extends
           /\ readerIntent' = c /\ flowIntent' \in {c, Nobody}
           /\ reader'.status # "ready" /\ stage[c] = "unused"
           /\ UNCHANGED <<shown, answer, opened>>
           /\ \E where \in {"reading", "leaving", "failing", "done"} : Stand(c, where)
<1>1. Close(c)
  BY DEF Asked, open, close, failRendering, cleanupReader, CloseSession
<1>2. Empty /\ Extends
  BY <1>1, CloseEmpties DEF OInv
<1>3. /\ readerIntent' = c /\ flowIntent' \in {c, Nobody}
      /\ reader'.status # "ready" /\ stage[c] = "unused"
      /\ UNCHANGED <<shown, answer, opened>>
  BY DEF Asked, open, close, failRendering, cleanupReader, CloseSession, Fresh,
         Reading
<1>4. \E where \in {"reading", "leaving", "failing", "done"} : Stand(c, where)
  BY DEF Asked, open, close, failRendering, cleanupReader, CloseSession
<1> QED BY <1>2, <1>3, <1>4

\* So does the close of a publication without anything to read.
LEMMA RejectEmpties ==
    ASSUME OInv, NEW c \in Calls, rejectEmpty(c)
    PROVE  /\ Empty /\ Extends /\ flowIntent' = Nobody
           /\ stage[c] = "answered" /\ readerIntent = c /\ Stand(c, "emptying")
           /\ UNCHANGED <<shown, answer, opened, readerIntent, reader>>
<1>1. Close(c)
  BY DEF rejectEmpty, CloseSession
<1>2. Empty /\ Extends
  BY <1>1, CloseEmpties DEF OInv
<1> QED BY <1>2 DEF rejectEmpty, CloseSession, readerVars

\* The flow hands the bytes to the session, or answers.
LEMMA ReplacementTakes ==
    ASSUME OInv, NEW c \in Calls, replacementClosed(c)
    PROVE  /\ stage[c] = "closing" /\ UNCHANGED <<opened, flowVars, readerVars>>
           /\ \/ flowIntent = c /\ Open(c) /\ UNCHANGED answer
              \/ /\ \E found \in {"rejected", "cancelled"} : Answer(c, found)
                 /\ UNCHANGED <<session, cleanup, ticket>>
BY DEF replacementClosed

\* The latest call takes the session over.
Taken(c) ==
    /\ stage[c] \in {"closing", "claiming"} /\ flowIntent = c
    /\ session'.intent = c /\ session'.active = Nobody /\ Extends
    /\ \/ /\ session'.attempt = c /\ Stand(c, "cleaning")
          /\ ticket' = [ticket EXCEPT ![c] = Promise(Nobody, cleanup'.queue)]
       \/ session'.attempt = Nobody /\ Stand(c, "finishing")
    /\ UNCHANGED <<answer, opened, flowIntent, readerVars>>

\* A call that is not attempting to open goes on: it moves to another await, or
\* is answered without a publication.
Moved(c) ==
    /\ session.attempt # c
    /\ session'.intent = session.intent /\ session'.attempt = session.attempt
    /\ session'.active = session.active
    /\ Extends /\ opened \subseteq opened'
    /\ \A d \in Calls \ {c} : ticket'[d] = ticket[d]
    /\ \/ \E where \in {"closing", "claiming", "discarding"} :
             Stand(c, where) /\ UNCHANGED answer
       \/ \E found \in {"rejected", "cancelled"} : Answer(c, found)
    /\ UNCHANGED <<flowIntent, readerVars>>

\* The attempt's call goes on: what was given up is closed, or the opener
\* answers.
Attempts(c) ==
    /\ session.attempt = c
    /\ previousPublicationClosed(c) \/ publicationOpened(c)
    /\ UNCHANGED <<flowVars, readerVars>>

LEMMA StepKinds ==
    ASSUME BInv, NEW c \in Calls, Continues(c)
    PROVE  \/ Taken(c) \/ Moved(c) \/ Attempts(c)
           \/ present(c) \/ rejectEmpty(c) \/ closeSettled(c)
<1>0. /\ c # Nobody /\ Holdings /\ DOMAIN ticket = Calls
      /\ session.intent \in {flowIntent, Nobody}
      /\ session.attempt = c => stage[c] \in {"cleaning", "opening"}
      /\ UNCHANGED cleanup => Extends
  BY DEF BInv, OInv, Places, Intents, Calls, Nobody, Extends, Holdings
<1>1. CASE fileRead(c)
  BY <1>0, <1>1 DEF fileRead, Moved, Answer
<1>2. CASE replacementClosed(c)
  <2>1. CASE flowIntent = c /\ Open(c) /\ UNCHANGED answer
    <3>1. Taken(c)
      BY <1>0, <1>2, <2>1, OpenTakes DEF replacementClosed, Taken, flowVars
    <3> QED BY <3>1
  <2>2. CASE /\ \E found \in {"rejected", "cancelled"} : Answer(c, found)
             /\ UNCHANGED <<session, cleanup, ticket>>
    <3>1. stage[c] = "closing" /\ UNCHANGED <<opened, flowVars, readerVars>>
      BY <1>2 DEF replacementClosed
    <3>2. Moved(c)
      BY <1>0, <2>2, <3>1 DEF Moved, flowVars
    <3> QED BY <3>2
  <2> QED BY <1>2, <2>1, <2>2, ReplacementTakes DEF BInv
<1>3. ASSUME finishPreviousClose(c), UNCHANGED <<flowVars, readerVars>>
      PROVE  Moved(c)
  <2>1. /\ session'.intent = session.intent /\ session'.attempt = session.attempt
        /\ session'.active = session.active
    BY <1>0, <1>3 DEF finishPreviousClose, Holdings
  <2>2. \/ Stand(c, "claiming") /\ UNCHANGED answer
        \/ \E found \in {"rejected", "cancelled"} : Answer(c, found)
    BY <1>3 DEF finishPreviousClose
  <2>3. stage[c] = "finishing" /\ UNCHANGED <<cleanup, ticket, opened>>
    BY <1>3 DEF finishPreviousClose
  <2> QED BY <1>0, <1>3, <2>1, <2>2, <2>3 DEF Moved, flowVars
<1>4. ASSUME claim(c), UNCHANGED <<flowVars, readerVars>>
      PROVE  Taken(c) \/ Moved(c)
  <2>1. CASE session.intent = c
    <3>1. Claim(c) /\ UNCHANGED <<answer, opened>> /\ stage[c] = "claiming"
      BY <1>4, <2>1 DEF claim
    <3>2. flowIntent = c
      BY <1>0, <2>1
    <3>3. Taken(c)
      BY <1>0, <1>4, <3>1, <3>2, ClaimTakes DEF Taken, flowVars
    <3> QED BY <3>3
  <2>2. CASE session.intent # c
    <3>1. /\ Answer(c, "cancelled") /\ UNCHANGED <<session, cleanup, ticket, opened>>
          /\ stage[c] = "claiming"
      BY <1>4, <2>2 DEF claim
    <3>2. Moved(c)
      BY <1>0, <1>4, <3>1 DEF Moved, flowVars
    <3> QED BY <3>2
  <2> QED BY <2>1, <2>2
<1>5. ASSUME previousPublicationClosed(c), UNCHANGED <<flowVars, readerVars>>
      PROVE  Attempts(c) \/ Moved(c)
  <2>1. CASE session.attempt = c
    BY <1>5, <2>1 DEF Attempts
  <2>2. CASE session.attempt # c
    <3>1. Answer(c, "cancelled") /\ UNCHANGED <<session, cleanup, ticket, opened>>
      BY <1>5, <2>2 DEF previousPublicationClosed
    <3>2. Moved(c)
      BY <1>0, <1>5, <2>2, <3>1 DEF Moved, flowVars
    <3> QED BY <3>2
  <2> QED BY <2>1, <2>2
<1>6. ASSUME publicationOpened(c), UNCHANGED <<flowVars, readerVars>>
      PROVE  Attempts(c) \/ Moved(c)
  <2>1. CASE session.attempt = c
    BY <1>6, <2>1 DEF Attempts
  <2>2. CASE session.attempt # c
    <3>1. opened \subseteq opened' /\ UNCHANGED session
      BY <1>6, <2>2 DEF publicationOpened
    <3>2. \/ /\ cleanup' = [cleanup EXCEPT !.queue = queuePublicationClose(c)]
             /\ ticket' = [ticket EXCEPT ![c] = Promise(Nobody, queuePublicationClose(c))]
             /\ Stand(c, "discarding") /\ UNCHANGED answer
          \/ Answer(c, "cancelled") /\ UNCHANGED <<cleanup, ticket>>
      BY <1>6, <2>2 DEF publicationOpened
    <3>3. Extends
      <4>1. CASE cleanup' = [cleanup EXCEPT !.queue = queuePublicationClose(c)]
        <5>1. /\ cleanup'.queue = queuePublicationClose(c)
              /\ cleanup'.settled = cleanup.settled
          BY <1>0, <4>1 DEF Holdings
        <5> QED BY <1>0, <5>1, QueueExtends DEF Somebody
      <4> QED BY <1>0, <3>2, <4>1
    <3>4. Moved(c)
      BY <1>0, <1>6, <2>2, <3>1, <3>2, <3>3 DEF Moved, flowVars
    <3> QED BY <3>4
  <2> QED BY <2>1, <2>2
<1>7. ASSUME discarded(c), UNCHANGED <<flowVars, readerVars>>
      PROVE  Moved(c)
  <2>1. /\ stage[c] = "discarding" /\ Answer(c, "cancelled")
        /\ UNCHANGED <<session, cleanup, ticket, opened>>
    BY <1>7 DEF discarded
  <2> QED BY <1>0, <1>7, <2>1 DEF Moved, flowVars
<1> QED BY <1>1, <1>2, <1>3, <1>4, <1>5, <1>6, <1>7 DEF Continues, SessionStep

\* What becomes of an attempt.
LEMMA AttemptGoesOn ==
    ASSUME BInv, NEW c \in Calls, Attempts(c)
    PROVE  /\ session'.intent = session.intent
           /\ opened \subseteq opened'
           /\ UNCHANGED <<cleanup, ticket, flowIntent, readerVars>>
           /\ \/ /\ stage[c] = "cleaning" /\ Stand(c, "opening")
                 /\ Settled(ticket[c]) /\ UNCHANGED <<session, answer>>
              \/ /\ session'.attempt = Nobody
                 /\ \E found \in {"book", "empty", "rejected", "cancelled"} :
                       /\ Answer(c, found)
                       /\ found \in {"book", "empty"} => session'.active = c
<1>1. DOMAIN session = {"intent", "attempt", "active", "closing"}
  BY DEF BInv, OInv, Holdings
<1>2. CASE previousPublicationClosed(c)
  <2>1. \/ Stand(c, "opening") /\ UNCHANGED <<session, answer>>
        \/ /\ Answer(c, "rejected")
           /\ session' = [session EXCEPT !.attempt = Nobody]
    BY <1>2 DEF Attempts, previousPublicationClosed
  <2>2. /\ stage[c] = "cleaning" /\ Settled(ticket[c])
        /\ UNCHANGED <<cleanup, ticket, opened>>
    BY <1>2 DEF previousPublicationClosed
  <2>3. UNCHANGED <<flowIntent, readerVars>>
    BY DEF Attempts, flowVars
  <2> QED BY <1>1, <2>1, <2>2, <2>3
<1>3. CASE publicationOpened(c)
  <2>1. PICK found \in {"book", "empty", "rejected", "cancelled"} :
          /\ opened \subseteq opened'
          /\ Answer(c, found)
          /\ session' = [session EXCEPT !.attempt = Nobody,
                            !.active = IF found \in {"book", "empty"} THEN c ELSE @]
          /\ UNCHANGED <<cleanup, ticket>>
    BY <1>3 DEF Attempts, publicationOpened
  <2>2. UNCHANGED <<flowIntent, readerVars>>
    BY DEF Attempts, flowVars
  <2> QED BY <1>1, <2>1, <2>2
<1> QED BY <1>2, <1>3 DEF Attempts

\* Who works for whom.
LEMMA IntentsStep ==
    ASSUME BInv, NEW c \in Calls, Asked(c) \/ Continues(c)
    PROVE  Intents'
<1>0. /\ c # Nobody /\ stage \in [Calls -> Stages] /\ Intents
      /\ \A d \in Calls : d # Nobody
  BY DEF BInv, OInv, Places, Calls, Nobody
<1>1. CASE Asked(c)
  BY <1>0, <1>1, AskedEmpties DEF BInv, Empty, Intents
<1>2. CASE rejectEmpty(c)
  BY <1>0, <1>2, RejectEmpties DEF BInv, Empty, Intents
<1>3. CASE Taken(c)
  <2>1. readerIntent' = readerIntent
    BY <1>3 DEF Taken, readerVars
  <2> QED BY <1>0, <1>3, <2>1 DEF Taken, Intents, Stand
<1>4. CASE Moved(c)
  BY <1>0, <1>4 DEF Moved, Intents, Stand, Answer, readerVars
<1>5. CASE Attempts(c)
  <2>1. session.attempt = c
    BY <1>5 DEF Attempts
  <2> QED BY <1>0, <1>5, <2>1, AttemptGoesOn DEF Intents, Stand, readerVars
<1>6. CASE present(c) \/ closeSettled(c)
  BY <1>0, <1>6 DEF present, closeSettled, Return, Stand, Intents
<1> QED BY <1>1, <1>2, <1>3, <1>4, <1>5, <1>6, StepKinds

\* What the flow is about to present is the session's.
LEMMA AnsweredStep ==
    ASSUME BInv, NEW c \in Calls, Asked(c) \/ Continues(c)
    PROVE  Answered' /\ DOMAIN answer' = Calls
<1>0. /\ c # Nobody /\ stage \in [Calls -> Stages] /\ Intents /\ Answered
      /\ \A d \in Calls : d # Nobody
      /\ DOMAIN answer = Calls
  BY DEF BInv, OInv, Places, Calls, Nobody
<1>1. CASE Asked(c)
  BY <1>0, <1>1, AskedEmpties DEF BInv, Answered, Stand
<1>2. CASE rejectEmpty(c)
  BY <1>0, <1>2, RejectEmpties DEF BInv, Answered
<1>3. CASE Taken(c)
  BY <1>0, <1>3 DEF Taken, Answered, Stand
<1>4. CASE Moved(c)
  BY <1>0, <1>4 DEF Moved, Answered, Stand, Answer
<1>5. CASE Attempts(c)
  <2>1. session.attempt = c /\ flowIntent = c
    BY <1>0, <1>5 DEF Attempts, Intents
  <2>2. CASE Stand(c, "opening") /\ UNCHANGED <<session, answer>>
    BY <1>0, <1>5, <2>2, AttemptGoesOn DEF Answered, Stand
  <2>3. ASSUME NEW found \in {"book", "empty", "rejected", "cancelled"},
               Answer(c, found), found \in {"book", "empty"} => session'.active = c,
               flowIntent' = flowIntent
        PROVE  Answered' /\ DOMAIN answer' = Calls
    BY <1>0, <2>1, <2>3 DEF Answered, Stand, Answer
  <2> QED BY <1>5, <2>2, <2>3, <1>0, AttemptGoesOn
<1>6. CASE present(c) \/ closeSettled(c)
  BY <1>0, <1>6 DEF present, closeSettled, Return, Stand, Answered
<1> QED BY <1>1, <1>2, <1>3, <1>4, <1>5, <1>6, StepKinds

\* What is shown is the session's.
LEMMA ReadyStep ==
    ASSUME BInv, NEW c \in Calls, Asked(c) \/ Continues(c)
    PROVE  ReadyIsActive'
<1>0. /\ c # Nobody /\ Intents /\ Answered /\ ReadyIsActive /\ ShellInv
  BY DEF BInv, Calls, Nobody
<1>a. stage[c] \in Underway /\ readerIntent = c => reader.status # "ready"
  BY <1>0 DEF ShellInv, Reading
<1>1. CASE Asked(c)
  BY <1>1, AskedEmpties DEF BInv, ReadyIsActive
<1>2. CASE rejectEmpty(c)
  BY <1>a, <1>2, RejectEmpties DEF BInv, ReadyIsActive, Underway
<1>3. CASE Taken(c)
  BY <1>0, <1>a, <1>3 DEF Taken, Intents, ReadyIsActive, Underway, readerVars
<1>4. CASE Moved(c)
  BY <1>0, <1>4 DEF Moved, ReadyIsActive, readerVars
<1>5. CASE Attempts(c)
  <2>1. readerIntent = c /\ stage[c] \in {"cleaning", "opening"}
    BY <1>0, <1>5 DEF Attempts, Intents
  <2> QED BY <1>a, <1>5, <2>1, AttemptGoesOn DEF ReadyIsActive, Underway, readerVars
<1>6. CASE present(c)
  <2>1. stage[c] = "answered" /\ session' = session
    BY <1>6 DEF present
  <2>2. CASE reader' = [status |-> "ready", publication |-> c] /\ FlowAnswer(c) = "book"
    <3>1. flowIntent = c /\ answer[c] = "book"
      BY <2>2 DEF FlowAnswer
    <3> QED BY <1>0, <2>1, <2>2, <3>1 DEF Answered, ReadyIsActive
  <2>3. CASE reader' = reader \/ reader' = Reading("failure")
    BY <1>0, <2>1, <2>3 DEF ReadyIsActive, Reading
  <2> QED BY <1>6, <2>2, <2>3 DEF present
<1>7. CASE closeSettled(c)
  <2>1. reader' = reader \/ reader'.status # "ready"
    BY <1>7 DEF closeSettled, ClosedAs, Reading
  <2> QED BY <1>0, <1>7, <2>1 DEF closeSettled, ReadyIsActive
<1> QED BY <1>1, <1>2, <1>3, <1>4, <1>5, <1>6, <1>7, StepKinds

\* What was given up stays given up.
LEMMA GivenUpStays ==
    ASSUME Extends, cleanup.queue \in Seq(Calls), NEW n \in 0 .. Len(cleanup.queue)
    PROVE  {cleanup.queue[i] : i \in 1 .. n} \subseteq {cleanup'.queue[i] : i \in 1 .. n}
BY DEF Extends

\* A publication that is shown was opened, and an attempt comes after it.
LEMMA CleanedStep ==
    ASSUME BInv, OInv', NEW c \in Calls, Asked(c) \/ Continues(c)
    PROVE  Cleaned'
<1> DEFINE Ready(d) ==
       /\ stage[d] = "cleaning" => /\ ticket[d].after \in 0 .. Len(cleanup.queue)
                                   /\ shown \subseteq Upto(ticket[d].after)
       /\ stage[d] = "opening" => shown \subseteq Upto(cleanup.settled)
<1>0. /\ c # Nobody /\ stage \in [Calls -> Stages] /\ DOMAIN ticket = Calls
      /\ cleanup.queue \in Seq(Calls) /\ Len(cleanup.queue) \in Nat
      /\ Intents /\ Answered
      /\ cleanup.settled \in 0 .. Len(cleanup.queue) /\ shown \subseteq opened
      /\ \A d \in Calls : session.attempt = d => Ready(d)
      /\ \A d \in Calls : d # Nobody
  BY DEF BInv, OInv, Holdings, Places, Calls, Nobody, Cleaned
<1>a. /\ cleanup'.queue \in Seq(Calls) /\ Len(cleanup'.queue) \in Nat
      /\ opened' = (ToSet(cleanup'.queue) \cup {session'.active}) \ {Nobody}
  BY DEF OInv, Holdings, EveryPublicationIsOwned
<1>b. ASSUME Extends
      PROVE  cleanup'.settled \in 0 .. Len(cleanup'.queue)
  BY <1>0, <1>a, <1>b DEF Extends
\* An attempt that others leave alone stays as it is.
<1>c. ASSUME NEW d \in Calls, session.attempt = d, Extends, shown' = shown,
             stage'[d] = stage[d], ticket'[d] = ticket[d]
      PROVE  Ready(d)'
  <2>1. ASSUME stage[d] = "cleaning"
        PROVE  /\ ticket[d].after \in 0 .. Len(cleanup'.queue)
               /\ shown' \subseteq {cleanup'.queue[i] : i \in 1 .. ticket[d].after}
    <3>1. /\ ticket[d].after \in 0 .. Len(cleanup.queue)
          /\ shown \subseteq {cleanup.queue[i] : i \in 1 .. ticket[d].after}
      BY <1>0, <1>c, <2>1 DEF Upto
    <3>2. Len(cleanup'.queue) >= Len(cleanup.queue)
      BY <1>c DEF Extends
    <3>3. {cleanup.queue[i] : i \in 1 .. ticket[d].after}
             \subseteq {cleanup'.queue[i] : i \in 1 .. ticket[d].after}
      BY <1>0, <1>c, <3>1, GivenUpStays
    <3>4. ticket[d].after \in 0 .. Len(cleanup'.queue)
      BY <1>0, <1>a, <3>1, <3>2
    <3> QED BY <1>c, <3>1, <3>3, <3>4
  <2>2. ASSUME stage[d] = "opening"
        PROVE  shown' \subseteq {cleanup'.queue[i] : i \in 1 .. cleanup'.settled}
    <3>1. shown \subseteq {cleanup.queue[i] : i \in 1 .. cleanup.settled}
      BY <1>0, <1>c, <2>2 DEF Upto
    <3>2. {cleanup.queue[i] : i \in 1 .. cleanup.settled}
             \subseteq {cleanup'.queue[i] : i \in 1 .. cleanup.settled}
      BY <1>0, <1>c, GivenUpStays
    <3>3. cleanup'.settled = cleanup.settled
      BY <1>c DEF Extends
    <3> QED BY <1>c, <3>1, <3>2, <3>3
  <2> QED BY <1>c, <2>1, <2>2 DEF Upto
<1>1. CASE Asked(c) \/ rejectEmpty(c)
  <2>1. Empty /\ Extends /\ shown' = shown /\ opened' = opened
    BY <1>1, AskedEmpties, RejectEmpties DEF BInv
  <2> QED BY <1>0, <1>b, <2>1 DEF Empty, Cleaned
<1>2. CASE Taken(c)
  <2>1. shown' = shown /\ opened' = opened /\ session'.active = Nobody /\ Extends
    BY <1>2 DEF Taken, readerVars
  <2>2. ASSUME NEW d \in Calls, session'.attempt = d
        PROVE  Ready(d)'
    <3>1. d = c /\ Stand(c, "cleaning")
          /\ ticket' = [ticket EXCEPT ![c] = Promise(Nobody, cleanup'.queue)]
      BY <1>0, <1>2, <2>2 DEF Taken
    <3>2. stage'[d] = "cleaning" /\ ticket'[d].after = Len(cleanup'.queue)
      BY <1>0, <3>1 DEF Stand, Promise
    <3>3. ToSet(cleanup'.queue) = {cleanup'.queue[i] : i \in 1 .. Len(cleanup'.queue)}
      BY <1>a DEF ToSet
    <3>4. shown' \subseteq {cleanup'.queue[i] : i \in 1 .. ticket'[d].after}
      BY <1>0, <1>a, <2>1, <3>2, <3>3
    <3>5. ticket'[d].after \in 0 .. Len(cleanup'.queue)
      BY <1>a, <3>2
    <3> QED BY <3>2, <3>4, <3>5 DEF Upto
  <2> QED BY <1>0, <1>b, <2>1, <2>2 DEF Cleaned
<1>3. CASE Moved(c)
  <2>1. /\ shown' = shown /\ opened \subseteq opened' /\ Extends
        /\ session'.attempt = session.attempt /\ session.attempt # c
        /\ \A d \in Calls \ {c} : ticket'[d] = ticket[d] /\ stage'[d] = stage[d]
    BY <1>0, <1>3 DEF Moved, readerVars, Stand, Answer
  <2>2. \A d \in Calls : session'.attempt = d => Ready(d)'
    BY <1>c, <2>1
  <2> QED BY <1>0, <1>b, <2>1, <2>2 DEF Cleaned
<1>4. CASE Attempts(c)
  <2>1. /\ shown' = shown /\ opened \subseteq opened' /\ cleanup' = cleanup
        /\ ticket' = ticket
    BY <1>4, AttemptGoesOn DEF readerVars
  <2>2. ASSUME NEW d \in Calls, session'.attempt = d
        PROVE  Ready(d)'
    <3>1. /\ d = c /\ stage[c] = "cleaning" /\ stage'[c] = "opening"
          /\ session.attempt = c /\ Settled(ticket[c])
      BY <1>0, <1>4, <2>2, AttemptGoesOn DEF Attempts, Stand
    <3>2. /\ ticket[c].after \in 0 .. Len(cleanup.queue)
          /\ shown \subseteq {cleanup.queue[i] : i \in 1 .. ticket[c].after}
          /\ ticket[c].after <= cleanup.settled
      BY <1>0, <3>1 DEF Upto, Settled
    <3>3. {cleanup.queue[i] : i \in 1 .. ticket[c].after}
             \subseteq {cleanup.queue[i] : i \in 1 .. cleanup.settled}
      BY <1>0, <3>2
    <3> QED BY <2>1, <3>1, <3>2, <3>3 DEF Upto
  <2> QED BY <1>0, <2>1, <2>2 DEF Cleaned
<1>5. CASE present(c) \/ closeSettled(c)
  <2>1. /\ stage[c] \notin {"cleaning", "opening"} /\ session' = session
        /\ cleanup' = cleanup /\ opened' = opened /\ Stand(c, "done")
        /\ ticket' = [ticket EXCEPT ![c] = NotClosing]
    BY <1>5 DEF present, closeSettled, Return
  <2>2. session.attempt # c
    BY <1>0, <2>1 DEF Intents
  <2>3. CASE shown' = shown
    <3>1. \A d \in Calls : session'.attempt = d => Ready(d)'
      BY <1>0, <1>c, <2>1, <2>2, <2>3 DEF Stand, Extends
    <3> QED BY <1>0, <2>1, <2>3, <3>1 DEF Cleaned
  <2>4. CASE shown' # shown
    <3>1. present(c) /\ FlowAnswer(c) = "book" /\ shown' = shown \cup {c}
      BY <1>5, <2>4 DEF present, closeSettled
    <3>2. flowIntent = c /\ answer[c] = "book" /\ stage[c] = "answered"
      BY <3>1 DEF FlowAnswer, present
    <3>3. session.active = c
      BY <1>0, <3>2 DEF Answered
    <3>4. c \in opened
      BY <1>0, <1>a, <2>1, <3>3
    <3>5. session.attempt = Nobody
      BY <1>0, <2>2, <3>2 DEF Intents
    <3> QED BY <1>0, <2>1, <3>1, <3>4, <3>5 DEF Cleaned
  <2> QED BY <2>3, <2>4
<1> QED BY <1>1, <1>2, <1>3, <1>4, <1>5, StepKinds

\* Steps that belong to no call keep everything, and what is closed stays so.
LEMMA BooksOtherwise ==
    ASSUME BInv, Closes \/ repeatClose \/ UNCHANGED vars
    PROVE  Intents' /\ Answered' /\ DOMAIN answer' = Calls /\ ReadyIsActive' /\ Cleaned'
<1>1. /\ UNCHANGED <<session, stage, ticket, answer, opened, flowIntent, reader,
                     readerIntent, shown>>
      /\ cleanup'.queue = cleanup.queue
      /\ cleanup'.settled \in cleanup.settled .. Len(cleanup.queue)
  <2>1. CASE Closes
    <3>1. /\ DOMAIN cleanup = {"queue", "settled", "firstFailure"}
          /\ Len(cleanup.queue) \in Nat /\ cleanup.settled \in Nat
      BY DEF BInv, OInv, Holdings, Cleaned
    <3>2. /\ UNCHANGED <<session, stage, ticket, answer, opened, flowIntent, reader,
                         readerIntent, shown>>
          /\ cleanup.settled < Len(cleanup.queue)
      BY <2>1 DEF Closes, PublicationCloses, flowVars, readerVars
    <3>3. PICK failure : cleanup' = [cleanup EXCEPT !.settled = cleanup.settled + 1,
                                                    !.firstFailure = failure]
      BY <2>1, Zenon DEF Closes, PublicationCloses
    <3>4. /\ cleanup'.queue = cleanup.queue
          /\ cleanup'.settled = cleanup.settled + 1
      BY <3>1, <3>3
    <3> QED BY <3>1, <3>2, <3>4
  <2>2. CASE repeatClose \/ UNCHANGED vars
    BY <2>2 DEF repeatClose, vars, sessionVars, flowVars, readerVars, BInv, Cleaned
  <2> QED BY <2>1, <2>2
<1>2. Intents' /\ Answered' /\ DOMAIN answer' = Calls /\ ReadyIsActive'
  BY <1>1 DEF BInv, Intents, Answered, ReadyIsActive
<1>3. cleanup.settled \in Nat /\ Len(cleanup.queue) \in Nat
  BY DEF BInv, OInv, Holdings, Cleaned
<1>4. {cleanup.queue[i] : i \in 1 .. cleanup.settled}
         \subseteq {cleanup.queue[i] : i \in 1 .. cleanup'.settled}
  BY <1>1, <1>3
<1>5. Cleaned'
  BY <1>1, <1>3, <1>4 DEF BInv, Cleaned, Upto
<1> QED BY <1>2, <1>5

LEMMA BooksAtStart == Init => BInv
<1> SUFFICES ASSUME Init PROVE BInv
  OBVIOUS
<1>1. \A c \in Calls : c # Nobody
  BY DEF Calls, Nobody
<1>2. Intents /\ Answered /\ DOMAIN answer = Calls /\ ReadyIsActive
  BY <1>1 DEF Init, SessionInit, Intents, Answered, ReadyIsActive, Reading
<1>3. Cleaned
  BY <1>1 DEF Init, SessionInit, Cleaned
<1> QED BY <1>2, <1>3, OwnedAtStart, ShellAtStart DEF BInv

LEMMA BooksStep == BInv /\ [Next]_vars => BInv'
<1> SUFFICES ASSUME BInv, [Next]_vars PROVE BInv'
  OBVIOUS
<1>1. OInv' /\ ShellInv'
  BY OwnedStep, ShellStep DEF BInv
<1>2. CASE Closes \/ repeatClose \/ UNCHANGED vars
  BY <1>1, <1>2, BooksOtherwise DEF BInv
<1>3. ASSUME NEW c \in Calls, Asked(c) \/ Continues(c) PROVE BInv'
  BY <1>1, <1>3, IntentsStep, AnsweredStep, ReadyStep, CleanedStep DEF BInv
<1> QED BY <1>2, <1>3 DEF Next

\* What the shell shows is the publication the session holds, and an EPUB is
\* opened only when all that was shown before it has been closed, whichever
\* calls overtake each other between their awaits.
THEOREM OneBook == Spec => []OneBookAtATime
<1>1. ASSUME BInv PROVE CleanBeforeOpen
  <2>1. SUFFICES ASSUME NEW c \in Calls, stage[c] = "opening", session.attempt = c
                 PROVE  /\ session.active = Nobody
                        /\ shown \subseteq ToSet(SubSeq(cleanup.queue, 1,
                                                        cleanup.settled))
    BY DEF CleanBeforeOpen
  <2>2. session.active = Nobody
    BY <1>1, <2>1 DEF BInv, OInv, Holdings, Calls, Nobody
  <2>3. /\ cleanup.queue \in Seq(Calls) /\ Len(cleanup.queue) \in Nat
        /\ cleanup.settled \in 0 .. Len(cleanup.queue)
        /\ shown \subseteq {cleanup.queue[i] : i \in 1 .. cleanup.settled}
    BY <1>1, <2>1 DEF BInv, OInv, Holdings, Cleaned, Upto
  <2> DEFINE s == SubSeq(cleanup.queue, 1, cleanup.settled)
  <2>4. /\ DOMAIN s = 1 .. cleanup.settled
        /\ \A i \in 1 .. cleanup.settled : s[i] = cleanup.queue[i]
    BY <2>3
  <2>5. ToSet(s) = {cleanup.queue[i] : i \in 1 .. cleanup.settled}
    <3> HIDE DEF s
    <3> QED BY <2>4 DEF ToSet
  <2> QED BY <2>2, <2>3, <2>5
<1>2. BInv => OneBookAtATime
  BY <1>1 DEF BInv, OneBookAtATime
<1> QED BY <1>2, BooksAtStart, BooksStep, PTL DEF Spec

\* Every publication the opener hands out is shown or being closed, and there is
\* none beside the one that is shown, for any number of overlapping calls.
THEOREM NoneForgotten == Spec => []NoBookIsForgotten
<1>1. PublicationsAreOwned /\ OneBookAtATime => NoBookIsForgotten
  BY DEF NoBookIsForgotten
<1> QED BY <1>1, NothingLeaks, OneBook, PTL

-----------------------------------------------------------------------------
(* Types *)

CleanupTyped(k) ==
    /\ k.queue \in Seq(Calls)
    /\ k.settled \in 0 .. Len(k.queue) /\ k.firstFailure \in 0 .. k.settled

\* What the session and its calls hold.
SessionTyped ==
    /\ session \in [intent : Somebody, attempt : Somebody, active : Somebody,
                    closing : Promises]
    /\ CleanupTyped(cleanup)
    /\ stage \in [Calls -> Stages] /\ ticket \in [Calls -> Promises]
    /\ answer \in [Calls -> {"none", "book", "empty", "rejected", "cancelled"}]

\* What the flow and the shell hold.
ShellTyped ==
    /\ readFailed \subseteq Calls /\ shown \subseteq Calls
    /\ {flowIntent, readerIntent, closeTracked} \subseteq Somebody
    /\ reader \in [status : Statuses, publication : Somebody]
    /\ reader.status = "ready" <=> reader.publication # Nobody
    /\ lastCall \in {"none", "open", "close"}

\* A publication is given up once, so that the queue is never longer than the
\* calls are many.
LEMMA QueueFits ==
    ASSUME NEW q \in Seq(Calls), IsInjective(q)
    PROVE  Len(q) \in 0 .. MaxCalls
<1>1. Len(q) \in Nat /\ q \in [1 .. Len(q) -> Calls] /\ MaxCalls \in Nat
  BY MaxCallsAssumption
<1>2. CASE Len(q) > MaxCalls
  <2>1. /\ IsFiniteSet(1 .. Len(q)) /\ Cardinality(1 .. Len(q)) = Len(q)
        /\ IsFiniteSet(Calls) /\ Cardinality(Calls) = MaxCalls
    BY <1>1, <1>2, FS_Interval, MaxCallsAssumption, SMTT(60) DEF Calls
  <2>2. Cardinality(Calls) < Cardinality(1 .. Len(q))
    BY <1>1, <1>2, <2>1
  <2>3. \E x, y \in 1 .. Len(q) : x # y /\ q[x] = q[y]
    BY <1>1, <2>1, <2>2, FS_PigeonHole
  <2> QED BY <1>1, <2>3 DEF IsInjective
<1> QED BY <1>1, <1>2

\* A publication given up has its place in the queue, which is awaited.
LEMMA GivenUpTyped ==
    ASSUME OInv, SessionTyped, NEW p \in Somebody,
           p \notin ToSet(cleanup.queue), NEW c \in Somebody
    PROVE  LET q == queuePublicationClose(p) IN
           /\ Promise(c, q) \in Promises
           /\ CleanupTyped([cleanup EXCEPT !.queue = q])
<1> DEFINE q == queuePublicationClose(p)
<1>1. q \in Seq(Calls) /\ IsInjective(q)
  BY GivenUp DEF OInv, Holdings, EveryPublicationIsOwned
<1>2. Len(q) \in 0 .. MaxCalls
  BY <1>1, QueueFits
<1>3. Len(q) \in Nat /\ Len(cleanup.queue) \in Nat
        /\ Len(cleanup.queue) <= Len(q)
  BY <1>1 DEF queuePublicationClose, SessionTyped, CleanupTyped
<1> HIDE DEF q
<1>4. Promise(c, q) \in Promises
  BY <1>2 DEF Promise, Promises
<1>5. DOMAIN cleanup = {"queue", "settled", "firstFailure"}
  BY DEF OInv, Holdings
<1>6. CleanupTyped([cleanup EXCEPT !.queue = q])
  BY <1>1, <1>3, <1>5 DEF SessionTyped, CleanupTyped
<1> QED BY <1>4, <1>6 DEF q

\* Nobody is somebody, and the session that is not closing has a promise.
LEMMA NobodyTyped ==
    Nobody \in Somebody /\ NotClosing \in Promises /\ Calls \subseteq Somebody
BY MaxCallsAssumption DEF Somebody, NotClosing, Promise, Promises

\* Closing the session keeps its types.
LEMMA CloseTyped ==
    ASSUME OInv, SessionTyped, NEW c \in Calls, Close(c)
    PROVE  /\ session' \in [intent : Somebody, attempt : Somebody,
                            active : Somebody, closing : Promises]
           /\ CleanupTyped(cleanup') /\ session'.closing \in Promises
<1> DEFINE q == queuePublicationClose(session.active)
<1>1. CASE session.closing # NotClosing
  BY <1>1, NobodyTyped DEF Close, SessionTyped
<1>2. CASE session.closing = NotClosing
  <2>1. session.active \in Somebody /\ session.active \notin ToSet(cleanup.queue)
    BY DEF OInv, Holdings, EveryPublicationIsOwned
  <2>2. Promise(c, q) \in Promises /\ CleanupTyped([cleanup EXCEPT !.queue = q])
    BY <2>1, GivenUpTyped, NobodyTyped
  <2> QED BY <1>2, <2>2, NobodyTyped DEF Close, SessionTyped
<1> QED BY <1>1, <1>2

\* Taking the session over keeps its types.
LEMMA ClaimTyped ==
    ASSUME OInv, SessionTyped, NEW c \in Calls, Claim(c)
    PROVE  /\ session' \in [intent : Somebody, attempt : Somebody,
                            active : Somebody, closing : Promises]
           /\ CleanupTyped(cleanup') /\ ticket' \in [Calls -> Promises]
           /\ stage' \in [Calls -> Stages]
<1> DEFINE q == queuePublicationClose(session.active)
<1>1. session.active \in Somebody /\ session.active \notin ToSet(cleanup.queue)
  BY DEF OInv, Holdings, EveryPublicationIsOwned
<1>2. Promise(Nobody, q) \in Promises /\ CleanupTyped([cleanup EXCEPT !.queue = q])
  BY <1>1, GivenUpTyped, NobodyTyped
<1> HIDE DEF q
<1> QED BY <1>2, NobodyTyped DEF Claim, SessionTyped, Stand, Stages, q

\* What the calls do keeps the types of the session.
LEMMA SessionKeepsTypes ==
    ASSUME OInv, SessionTyped, ShellTyped, NEW c \in Calls, Asked(c) \/ Continues(c)
    PROVE  SessionTyped'
<1> USE NobodyTyped
<1>1. ASSUME NEW where \in Stages, CloseSession(c, where) PROVE SessionTyped'
  BY <1>1, CloseTyped DEF CloseSession, Stand, SessionTyped
<1>2. CASE open(c)
  BY <1>1, <1>2 DEF open, Stages
<1>3. CASE close(c)
  BY <1>1, <1>3 DEF close, Stages
<1>4. CASE failRendering(c)
  BY <1>1, <1>4 DEF failRendering, Stages
<1>5. CASE cleanupReader(c)
  BY <1>5, CloseTyped DEF cleanupReader, Stand, Stages, SessionTyped
<1>6. CASE fileRead(c)
  BY <1>6 DEF fileRead, Answer, Stand, Stages, SessionTyped
<1>7. CASE replacementClosed(c)
  <2>1. CASE flowIntent = c /\ AllClosed(ticket[c]) /\ c \notin readFailed
    <3>1. Open(c) /\ UNCHANGED answer
      BY <1>7, <2>1 DEF replacementClosed
    <3>2. CASE session.closing = NotClosing
      BY <3>1, <3>2, ClaimTyped DEF Open, SessionTyped
    <3>3. CASE session.closing # NotClosing
      <4>1. /\ session' = [session EXCEPT !.intent = c, !.attempt = Nobody]
            /\ ticket' = [ticket EXCEPT ![c] = session.closing]
            /\ stage' = [stage EXCEPT ![c] = "finishing"]
            /\ UNCHANGED <<cleanup, answer>>
        BY <3>1, <3>3 DEF Open, Stand
      <4>2. session.closing \in Promises /\ c \in Somebody /\ "finishing" \in Stages
        BY DEF SessionTyped, Stages
      <4>3. session' \in [intent : Somebody, attempt : Somebody,
                          active : Somebody, closing : Promises]
        BY <4>1, <4>2 DEF SessionTyped
      <4> QED BY <4>1, <4>2, <4>3 DEF SessionTyped, CleanupTyped
    <3> QED BY <3>2, <3>3
  <2>2. CASE ~(flowIntent = c /\ AllClosed(ticket[c]) /\ c \notin readFailed)
    BY <1>7, <2>2 DEF replacementClosed, Answer, Stand, Stages, SessionTyped
  <2> QED BY <2>1, <2>2
<1>8. CASE present(c)
  BY <1>8 DEF present, Return, Stand, Stages, SessionTyped
<1>9. CASE rejectEmpty(c)
  BY <1>1, <1>9 DEF rejectEmpty, Stages
<1>10. CASE closeSettled(c)
  BY <1>10 DEF closeSettled, Return, Stand, Stages, SessionTyped
<1>11. CASE finishPreviousClose(c)
  BY <1>11 DEF finishPreviousClose, Answer, Stand, Stages, SessionTyped
<1>12. CASE claim(c)
  <2>1. CASE session.intent = c
    BY <1>12, <2>1, ClaimTyped DEF claim, SessionTyped
  <2>2. CASE session.intent # c
    BY <1>12, <2>2 DEF claim, Answer, Stand, Stages, SessionTyped
  <2> QED BY <2>1, <2>2
<1>13. CASE previousPublicationClosed(c)
  BY <1>13 DEF previousPublicationClosed, Answer, Stand, Stages, SessionTyped
<1>14. CASE publicationOpened(c)
  <2> DEFINE q == queuePublicationClose(c)
  <2>1. Promise(Nobody, q) \in Promises
          /\ CleanupTyped([cleanup EXCEPT !.queue = q])
    <3>1. c \notin opened
      BY <1>14 DEF publicationOpened, OInv, Places, Waiting
    <3>2. c \notin ToSet(cleanup.queue) /\ c \in Somebody
      BY <3>1 DEF OInv, Holdings, EveryPublicationIsOwned, Calls, Nobody
    <3> QED BY <3>2, GivenUpTyped
  <2>2. PICK found \in {"book", "empty", "rejected", "cancelled"} :
          \/ /\ Answer(c, found)
             /\ session' = [session EXCEPT !.attempt = Nobody,
                    !.active = IF found \in {"book", "empty"} THEN c ELSE @]
             /\ UNCHANGED <<cleanup, ticket>>
          \/ /\ cleanup' = [cleanup EXCEPT !.queue = q]
             /\ ticket' = [ticket EXCEPT ![c] = Promise(Nobody, q)]
             /\ Stand(c, "discarding")
             /\ UNCHANGED <<session, answer>>
          \/ /\ Answer(c, "cancelled")
             /\ UNCHANGED <<session, cleanup, ticket>>
    BY <1>14 DEF publicationOpened
  <2> HIDE DEF q
  <2>3. \/ /\ Answer(c, found)
           /\ session' = [session EXCEPT !.attempt = Nobody,
                  !.active = IF found \in {"book", "empty"} THEN c ELSE @]
           /\ UNCHANGED <<cleanup, ticket>>
        \/ /\ Answer(c, "cancelled")
           /\ UNCHANGED <<session, cleanup, ticket>>
        \/ /\ cleanup' = [cleanup EXCEPT !.queue = q]
           /\ ticket' = [ticket EXCEPT ![c] = Promise(Nobody, q)]
           /\ Stand(c, "discarding")
           /\ UNCHANGED <<session, answer>>
    BY <2>2
  <2>4. ASSUME Answer(c, found),
               session' = [session EXCEPT !.attempt = Nobody,
                  !.active = IF found \in {"book", "empty"} THEN c ELSE @],
               UNCHANGED <<cleanup, ticket>>
        PROVE  SessionTyped'
    <3>1. stage' \in [Calls -> Stages]
      BY <2>4, SMTT(30) DEF Answer, Stand, Stages, SessionTyped
    <3>2. answer' \in [Calls -> {"none", "book", "empty", "rejected", "cancelled"}]
      BY <2>4, SMTT(30) DEF Answer, SessionTyped
    <3>3. session' \in [intent : Somebody, attempt : Somebody, active : Somebody,
                        closing : Promises]
      <4>1. {c, Nobody} \subseteq Somebody BY DEF Somebody
      <4>2. PICK a \in Somebody :
               session' = [session EXCEPT !.attempt = Nobody, !.active = a]
        <5>1. session.active \in Somebody BY DEF SessionTyped
        <5>2. CASE found \in {"book", "empty"} BY <5>2, <4>1, <2>4
        <5>3. CASE found \notin {"book", "empty"} BY <5>1, <5>3, <2>4
        <5> QED BY <5>2, <5>3
      <4> QED BY <4>1, <4>2 DEF SessionTyped
    <3> QED BY <2>4, <3>1, <3>2, <3>3 DEF SessionTyped, CleanupTyped
  <2>5. ASSUME Answer(c, "cancelled"), UNCHANGED <<session, cleanup, ticket>>
        PROVE  SessionTyped'
    BY <2>5 DEF Answer, Stand, Stages, SessionTyped, CleanupTyped
  <2>6. ASSUME cleanup' = [cleanup EXCEPT !.queue = q],
               ticket' = [ticket EXCEPT ![c] = Promise(Nobody, q)],
               Stand(c, "discarding"), UNCHANGED <<session, answer>>
        PROVE  SessionTyped'
    <3>1. stage' \in [Calls -> Stages]
      BY <2>6, SMTT(30) DEF Stand, Stages, SessionTyped
    <3>2. ticket' \in [Calls -> Promises]
      BY <2>6, <2>1, SMTT(30) DEF SessionTyped
    <3>3. CleanupTyped(cleanup') BY <2>6, <2>1
    <3> QED BY <2>6, <3>1, <3>2, <3>3 DEF SessionTyped
  <2> QED BY <2>3, <2>4, <2>5, <2>6
<1>15. CASE discarded(c)
  BY <1>15 DEF discarded, Answer, Stand, Stages, SessionTyped
<1> QED BY <1>2, <1>3, <1>4, <1>5, <1>6, <1>7, <1>8, <1>9, <1>10, <1>11, <1>12,
           <1>13, <1>14, <1>15 DEF Asked, Continues, SessionStep

\* What the calls do keeps the types of the flow and the shell.
LEMMA ShellKeepsTypes ==
    ASSUME ShellTyped, NEW c \in Calls, Asked(c) \/ Continues(c)
    PROVE  ShellTyped'
<1> USE NobodyTyped DEF ShellTyped, Reading, Statuses, readerVars, flowVars
<1>0. c # Nobody
  BY DEF Calls, Nobody
<1>1. CASE open(c) \/ close(c) \/ failRendering(c) \/ cleanupReader(c)
  BY <1>1 DEF open, close, failRendering, cleanupReader
<1>2. CASE fileRead(c) \/ replacementClosed(c) \/ rejectEmpty(c)
  BY <1>2 DEF fileRead, replacementClosed, rejectEmpty
<1>3. CASE present(c)
  BY <1>0, <1>3 DEF present, Return
<1>4. CASE closeSettled(c)
  BY <1>4 DEF closeSettled, Return, ClosedAs
<1>5. CASE SessionStep(c) /\ UNCHANGED <<flowVars, readerVars>>
  BY <1>5
<1> QED BY <1>1, <1>2, <1>3, <1>4, <1>5 DEF Asked, Continues

\* Every variable of the session, the flow and the shell keeps its type for any
\* number of overlapping calls, and a publication is exposed exactly while the
\* shell says that it is ready.
THEOREM LifecycleTyped == Spec => []TypeOK
<1> DEFINE TInv == OInv /\ SessionTyped /\ ShellTyped
<1>1. Init => TInv
  <2>1. Init => SessionTyped
    BY NobodyTyped, EmptySeq
       DEF Init, SessionInit, SessionTyped, CleanupTyped, Stages
  <2>2. Init => ShellTyped
    BY NobodyTyped DEF Init, ShellTyped, Reading, Statuses
  <2> QED BY <2>1, <2>2, OwnedAtStart
<1>2. TInv /\ [Next]_vars => TInv'
  <2> SUFFICES ASSUME TInv, [Next]_vars PROVE TInv'
    OBVIOUS
  <2>1. OInv'
    BY OwnedStep
  <2>2. ASSUME NEW c \in Calls, Asked(c) \/ Continues(c)
        PROVE  SessionTyped' /\ ShellTyped'
    BY <2>2, SessionKeepsTypes, ShellKeepsTypes
  <2>3. CASE repeatClose
    BY <2>1, <2>3 DEF repeatClose, sessionVars, flowVars, SessionTyped, ShellTyped,
               CleanupTyped
  <2>4. CASE Closes
    <3>1. CleanupTyped(cleanup')
      <4>1. DOMAIN cleanup = {"queue", "settled", "firstFailure"}
        BY DEF OInv, Holdings
      <4>2. cleanup.settled \in Nat /\ Len(cleanup.queue) \in Nat
        BY DEF SessionTyped, CleanupTyped
      <4> QED BY <2>4, <4>1, <4>2
              DEF Closes, PublicationCloses, SessionTyped, CleanupTyped
    <3> QED BY <2>1, <2>4, <3>1
            DEF Closes, PublicationCloses, flowVars, readerVars, SessionTyped,
                ShellTyped, CleanupTyped
  <2>5. CASE UNCHANGED vars
    BY <2>1, <2>5 DEF vars, sessionVars, flowVars, readerVars, SessionTyped, ShellTyped,
               CleanupTyped
  <2> QED BY <2>1, <2>2, <2>3, <2>4, <2>5 DEF Next
<1>3. TInv => TypeOK
  <2>1. OInv => opened \subseteq Calls
    BY DEF OInv, Holdings, EveryPublicationIsOwned, Somebody, ToSet
  <2> QED BY <2>1 DEF SessionTyped, ShellTyped, CleanupTyped, TypeOK
<1> QED BY <1>1, <1>2, <1>3, PTL DEF Spec
=============================================================================
