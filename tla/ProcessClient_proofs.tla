------------------------- MODULE ProcessClient_proofs -------------------------
(***************************************************************************)
(* Proofs about the client of the speech service, its supervisor and the   *)
(* service, for any number of threads, starts, syntheses and faults:       *)
(* nothing runs unseen, interruptions are obeyed, work asked of one        *)
(* service is never done on the next, and as long as nothing goes wrong    *)
(* every frame of the service is the one its reader awaits.                *)
(*                                                                         *)
(* A conversation is what happens between two starts, and R its number:    *)
(* the request that was last made, which is also its child.  A new start   *)
(* is asked for only when no acknowledgement is owed, and none is owed     *)
(* only once the conversation is over: its start is past, no process       *)
(* strays and no session is published.  So everything that is known, in    *)
(* whatever thread, names R or nothing, and an acknowledgement or a        *)
(* receipt of R says that R is over, which nothing but the next start      *)
(* undoes.                                                                 *)
(*                                                                         *)
(* Within a conversation a thread that talks is at a line of its script,   *)
(* and the line, the state of the service and the two pipes match (Sound), *)
(* whatever was interrupted meanwhile.                                     *)
(***************************************************************************)
EXTENDS ProcessClient, SequenceTheorems, TLAPS

-----------------------------------------------------------------------------
(* The invariant *)

\* The conversation under way.

R == asked.starts

\* What a thread can know is of this conversation.
Record ==
    [command : Commands \cup {Nothing}, child : {NoChild, R}, request : {NoRequest, R},
     synthesis : 0 .. asked.syntheses, at : Points, line : Nat, session : {NoChild, R},
     reply : Outcomes]

WorkTyped == work \in [Threads -> Record]

\* A lifecycle record has these fields, whatever they hold.
Shaped(l) == l = [state |-> l.state, active |-> l.active, contained |-> l.contained,
                  rejected |-> l.rejected]

\* There is no session but that of the last start, and no stray of an earlier one.
SupervisorTyped ==
    /\ admission \in Threads \cup {Nobody} /\ operation \in Threads \cup {Nobody}
    /\ slot \in {NoChild, R} /\ started \in 0 .. R /\ strays \subseteq {R}
    /\ Shaped(lifecycle)
    /\ lifecycle.active \in 0 .. asked.syntheses
    /\ lifecycle.contained \in 0 .. R /\ lifecycle.rejected \in 0 .. R
    /\ revoked \subseteq 1 .. asked.syntheses
    /\ faults \in 0 .. MaxFaults

ClientStates == {"stopped", "starting", "unloaded", "ready", "generating", "failed",
                 "stopping", "cancelling"}

StopPoints == {Nothing, "interrupting", "joining", "acknowledging", "closing"}

\* The client knows of no other service either.
ClientTyped ==
    /\ client \in [state : ClientStates, service : {NoChild, R}, request : {NoRequest, R},
                   active : 0 .. asked.syntheses, sink : 0 .. asked.syntheses]
    /\ fresh \subseteq Threads
    /\ stop \in [at : StopPoints, heard : BOOLEAN, child : {NoChild, R}]
    /\ asked \in [starts : 0 .. MaxStarts, syntheses : 0 .. MaxSyntheses]

StartPoints == {"admitting", "configuring", "spawning", "rejected"}

Session == {"claiming", "talking", "deciding", "failed", "failing", "stopping", "leaving",
            "retiring"}

\* Which command can be at which point, with which session and reply.
Stands(command, at, line, session, reply) ==
    /\ at # "idle" /\ command # Nothing
    /\ at \in StartPoints => command = "start"
    /\ at = "opening" => command \in {"prepare", "synthesize"}
    /\ at \in {"claiming", "deciding"} => command = "synthesize"
    /\ at \in {"looking", "reopening", "stopping", "leaving", "retiring", "interrupting"}
          => command = "shutdown"
    /\ at = "cancelling" => command = "cancel"
    /\ at \in {"admitted", "forcing", "removing"} => command = "remove"
    /\ at \in {"claiming", "talking"} => /\ command \in DOMAIN Script
                                        /\ line \in 1 .. Len(Script[command])
    /\ at \in Session => session # NoChild
    /\ reply = "ok" => at = "replied"
    /\ command = "start" /\ reply = "ok" => session # NoChild

Stationed(w) == w = Idle \/ Stands(w.command, w.at, w.line, w.session, w.reply)

\* A command says what it is about.
Named(w) ==
    /\ w.command = "start" => w.request # NoRequest
    /\ w.command \in {"prepare", "synthesize"} => w.child # NoChild
    /\ w.command = "shutdown" => w.child # NoChild \/ w.request # NoRequest

Stations == \A t \in Threads : Stationed(work[t]) /\ Named(work[t])

Admitted == {"configuring", "spawning", "admitted", "forcing", "removing"}

\* The admission is held where it is needed, one process is terminated at a time,
\* and one start is under way.
Locks ==
    /\ \A t \in Threads : work[t].at \in Admitted => admission = t
    /\ \A t, u \in Threads :
          work[t].at \in Terminating /\ work[u].at \in Terminating => t = u
    /\ \A t \in Threads : work[t].at \in Terminating \ {"forcing"} => slot # NoChild
    /\ \A t, u \in Threads :
          work[t].command = "start" /\ work[u].command = "start" => t = u

EarlyPoints == {"entering", "admitting", "configuring", "spawning"}

\* A start that may yet bring a process about.
IsEarly(w) == w.command = "start" /\ w.at \in EarlyPoints

Early == \E t \in Threads : IsEarly(work[t])

\* The start is past, and no process escaped; what is published can only end.
Published == ~Early /\ strays = {}

\* Nothing of the conversation runs, or ever will.
Over == Published /\ slot = NoChild

\* A process runs only behind the slot, and a thread has a session only after the
\* start; where a process was seen to be gone, none runs.
Children ==
    /\ alive => slot # NoChild
    /\ slot # NoChild => started = R /\ Published
    /\ \A t \in Threads : work[t].session # NoChild => Published
    /\ \A t \in Threads : IsEarly(work[t]) \/ work[t].at = "rejected" => strays = {}
    /\ \A t \in Threads : work[t].at \in {"retiring", "removing"} => ~alive

\* A receipt, an acknowledgement, what a stop heard and a debt that was paid all
\* say that the conversation is over.
Endings ==
    /\ R # 0 /\ R \in {lifecycle.contained, lifecycle.rejected} => Over
    /\ \A t \in Threads : work[t].reply = "ok" /\ work[t].command \in {"cancel", "shutdown"}
          => Over
    /\ stop.heard => Over
    /\ client.request = NoRequest => Over

UnclaimedPoints == {"entering", "opening", "claiming"}

\* A synthesis that is not active yet, or was answered with sound, was never taken
\* back, and no two threads are about the same one.
Syntheses ==
    /\ \A t, u \in Threads :
          /\ work[t].command = "synthesize" /\ work[u].command = "synthesize"
          /\ work[t].synthesis = work[u].synthesis
          => t = u
    /\ \A t \in Threads :
          /\ work[t].command = "synthesize"
          /\ work[t].at \in UnclaimedPoints \/ work[t].reply = "ok"
          => work[t].synthesis \notin revoked \cup {lifecycle.active}
    /\ \A t \in Threads : work[t].command = "synthesize" => work[t].synthesis # NoSynthesis
    /\ lifecycle.active # NoSynthesis => lifecycle.active \notin revoked

\* The client awaits the reply of this command.
Awaited(w) ==
    CASE w.command = "start" -> client.state = "starting"
      [] w.command = "prepare" -> client.state = "unloaded"
      [] w.command = "synthesize" -> client.state = "generating"
      [] w.command = "cancel" -> client.state = "cancelling"
      [] OTHER -> FALSE

\* The client awaits one reply at most, none while it stops, and knows of its
\* service where it uses it, which it cannot while a start is under way.
Conversation ==
    /\ \A t, u \in fresh : t = u
    /\ \A t \in fresh : Awaited(work[t])
    /\ stop # NoStop => client.state = "stopping"
    /\ client.active # NoSynthesis => client.state = "generating"
    /\ client.state \in {"unloaded", "ready", "generating", "cancelling"}
          => client.service # NoChild
    /\ client.service # NoChild => ~Pending("start")
    /\ Pending("start") => client.request # NoRequest
    /\ stop.at \in {"acknowledging", "closing"} => ~Pending("start")

Inv == WorkTyped /\ SupervisorTyped /\ ClientTyped /\ Stations /\ Locks /\ Children
         /\ Endings /\ Syntheses /\ Conversation

-----------------------------------------------------------------------------
(* Talking *)

Failures == {"timeout", "unavailable", "cancelled", "internalFailure",
             "protocolRejected"}

\* What a thread that talks to the service does, whatever it sends or reads.
Talks(t) ==
    /\ work[t].at = "talking"
    /\ advance(t) \/ \E failure \in Failures : abandon(t, failure)
    /\ \E state : lifecycle' = [lifecycle EXCEPT !.state = state]
    /\ faults' \in 0 .. MaxFaults
    /\ UNCHANGED <<alive, slot, started, strays, revoked>>

\* A fault is counted within its bound.
LEMMA Faulty == ASSUME faults \in 0 .. MaxFaults, Fault PROVE faults' \in 0 .. MaxFaults
BY MaxFaultsAssumption DEF Fault

LEMMA Verdicts ==
    ASSUME NEW frame, NEW line
    PROVE  verdict(frame, line) \in {"internalFailure", "ok", "protocolRejected"}
BY DEF verdict

\* Reading and writing are alike in what they do to the threads and the session.
LEMMA Talk ==
    ASSUME SupervisorTyped, NEW t \in Threads, Talking(t)
    PROVE  Talks(t)
<1>0. /\ lifecycle = [lifecycle EXCEPT !.state = lifecycle.state]
      /\ faults \in 0 .. MaxFaults
  BY DEF SupervisorTyped, Shaped
<1>1. CASE write_control(t)
  BY <1>0, <1>1, Faulty DEF write_control, Talks, Failures
<1>2. CASE receive_control(t)
  <2> DEFINE frame == Head(stdout)
             current == Line(t).does = "take" \/ slot = work[t].session
             found == IF current THEN verdict(frame, Line(t)) ELSE "cancelled"
  <2>2. found \in {"internalFailure", "ok", "protocolRejected", "cancelled"}
    BY Verdicts
  <2>3. /\ IF found = "ok" THEN advance(t) ELSE abandon(t, found)
        /\ \/ lifecycle' = [lifecycle EXCEPT !.state = frame.state]
           \/ lifecycle' = lifecycle
        /\ work[t].at = "talking"
        /\ UNCHANGED <<alive, faults, slot, started, strays, revoked>>
    BY <1>2 DEF receive_control
  <2> HIDE DEF frame, current, found
  <2>5. advance(t) \/ \E failure \in Failures : abandon(t, failure)
    BY <2>2, <2>3 DEF Failures
  <2>6. \E state : lifecycle' = [lifecycle EXCEPT !.state = state]
    BY <1>0, <2>3
  <2> QED BY <1>0, <2>3, <2>5, <2>6 DEF Talks
<1>3. CASE receiveFails(t)
  BY <1>0, <1>3, Faulty DEF receiveFails, Talks, Failures
<1> QED BY <1>1, <1>2, <1>3 DEF Talking

\* The scripts are not empty, and end where they are said to.
LEMMA Scripts ==
    /\ DOMAIN Script = {"start", "prepare", "synthesize", "shutdown"}
    /\ \A c \in DOMAIN Script : Len(Script[c]) \in Nat \ {0}
BY DEF Script

-----------------------------------------------------------------------------
(* The record of a thread *)

\* A thread comes to a point of its command, and no other moves.
Moves(t, at, line, session, reply) ==
    /\ work' \in [Threads -> Record]
    /\ \A u \in Threads : u # t => work'[u] = work[u]
    /\ work'[t].command = work[t].command /\ work'[t].child = work[t].child
    /\ work'[t].request = work[t].request
    /\ work'[t].synthesis = work[t].synthesis
    /\ work'[t].at = at /\ work'[t].line = line /\ work'[t].session = session
    /\ work'[t].reply = reply

\* Every way the supervisor has of changing a record is a move.
LEMMA Moved ==
    ASSUME WorkTyped, NEW t \in Threads, NEW at \in Points, NEW line \in Nat,
           NEW session \in {NoChild, R}, NEW reply \in Outcomes
    PROVE  /\ work' = [work EXCEPT ![t].at = at]
                 => Moves(t, at, work[t].line, work[t].session, work[t].reply)
           /\ work' = [work EXCEPT ![t].at = at, ![t].reply = reply]
                 => Moves(t, at, work[t].line, work[t].session, reply)
           /\ work' = [work EXCEPT ![t].at = at, ![t].reply = reply,
                                   ![t].session = session]
                 => Moves(t, at, work[t].line, session, reply)
           /\ work' = [work EXCEPT ![t].at = at, ![t].line = line,
                                   ![t].session = session]
                 => Moves(t, at, line, session, work[t].reply)
           /\ work' = [work EXCEPT ![t].session = session, ![t].line = line,
                                   ![t].at = at]
                 => Moves(t, at, line, session, work[t].reply)
           /\ work' = [work EXCEPT ![t].at = at, ![t].session = session]
                 => Moves(t, at, work[t].line, session, work[t].reply)
           /\ work' = [work EXCEPT ![t].at = at, ![t].line = line]
                 => Moves(t, at, line, work[t].session, work[t].reply)
           /\ work' = [work EXCEPT ![t].line = line]
                 => Moves(t, work[t].at, line, work[t].session, work[t].reply)
<1>1. ASSUME work' = [work EXCEPT ![t].at = at]
     PROVE  Moves(t, at, work[t].line, work[t].session, work[t].reply)
  BY <1>1 DEF Moves, Record, WorkTyped
<1>2. ASSUME work' = [work EXCEPT ![t].at = at, ![t].reply = reply]
     PROVE  Moves(t, at, work[t].line, work[t].session, reply)
  BY <1>2 DEF Moves, Record, WorkTyped
<1>3. ASSUME work' = [work EXCEPT ![t].at = at, ![t].reply = reply, ![t].session = session]
     PROVE  Moves(t, at, work[t].line, session, reply)
  BY <1>3, ZenonT(60) DEF Moves, Record, WorkTyped
<1>4. ASSUME work' = [work EXCEPT ![t].at = at, ![t].line = line, ![t].session = session]
     PROVE  Moves(t, at, line, session, work[t].reply)
  BY <1>4, ZenonT(60) DEF Moves, Record, WorkTyped
<1>5. ASSUME work' = [work EXCEPT ![t].session = session, ![t].line = line, ![t].at = at]
     PROVE  Moves(t, at, line, session, work[t].reply)
  BY <1>5, ZenonT(60) DEF Moves, Record, WorkTyped
<1>6. ASSUME work' = [work EXCEPT ![t].at = at, ![t].session = session]
     PROVE  Moves(t, at, work[t].line, session, work[t].reply)
  BY <1>6, ZenonT(60) DEF Moves, Record, WorkTyped
<1>7. ASSUME work' = [work EXCEPT ![t].at = at, ![t].line = line]
     PROVE  Moves(t, at, line, work[t].session, work[t].reply)
  BY <1>7 DEF Moves, Record, WorkTyped
<1>8. ASSUME work' = [work EXCEPT ![t].line = line]
     PROVE  Moves(t, work[t].at, line, work[t].session, work[t].reply)
  BY <1>8 DEF Moves, Record, WorkTyped
<1> QED BY <1>1, <1>2, <1>3, <1>4, <1>5, <1>6, <1>7, <1>8

\* The points and replies by name.
LEMMA Literals ==
    /\ {"idle", "entering", "admitting", "configuring", "spawning", "rejected",
        "opening", "claiming", "talking", "deciding", "failed", "failing",
        "cancelling", "looking", "interrupting", "reopening", "stopping",
        "leaving", "retiring", "admitted", "forcing", "removing", "replied"}
          \subseteq Points
    /\ {Nothing, "ok", "busy", "invalidState", "invalidInput", "cancelled",
        "timeout", "unavailable", "internalFailure", "protocolRejected"}
          \subseteq Outcomes
BY DEF Points, Outcomes

LEMMA Goes ==
    ASSUME WorkTyped, NEW t \in Threads, NEW at \in Points, Goto(t, at)
    PROVE  Moves(t, at, work[t].line, work[t].session, work[t].reply)
<1>1. work[t].line \in Nat /\ work[t].session \in {NoChild, R} /\ work[t].reply \in Outcomes
  BY DEF WorkTyped, Record
<1> QED BY <1>1, Moved DEF Goto

LEMMA RepliesAbout ==
    ASSUME WorkTyped, NEW t \in Threads, NEW reply \in Outcomes, NEW child \in {NoChild, R},
           ReplyAbout(t, reply, child)
    PROVE  Moves(t, "replied", work[t].line, child, reply) /\ Release(t)
<1>1. work[t].line \in Nat
  BY DEF WorkTyped, Record
<1> QED BY <1>1, Moved, Literals DEF ReplyAbout

LEMMA Replies ==
    ASSUME WorkTyped, NEW t \in Threads, NEW reply \in Outcomes, Reply(t, reply)
    PROVE  Moves(t, "replied", work[t].line, NoChild, reply) /\ Release(t)
BY RepliesAbout DEF Reply

LEMMA Rejects ==
    ASSUME WorkTyped, NEW t \in Threads, NEW failure \in Outcomes, rejectAttempt(t, failure)
    PROVE  Moves(t, "rejected", work[t].line, work[t].session, failure) /\ Release(t)
<1>1. work[t].line \in Nat /\ work[t].session \in {NoChild, R}
  BY DEF WorkTyped, Record
<1> QED BY <1>1, Moved, Literals DEF rejectAttempt

\* A thread that is somewhere stands there.
LEMMA StandsThere ==
    ASSUME Stations, NEW t \in Threads, work[t].at # "idle"
    PROVE  Stands(work[t].command, work[t].at, work[t].line, work[t].session,
                  work[t].reply)
BY DEF Stations, Stationed, Idle

\* The locks are left alone.
KeepsLocks == admission' = admission /\ operation' = operation

\* Where a thread that talks is in its script.
LEMMA TalksWhere ==
    ASSUME WorkTyped, Stations, NEW t \in Threads, work[t].at = "talking"
    PROVE  /\ work[t].line \in Nat /\ work[t].session \in {NoChild, R}
           /\ work[t].reply \in Outcomes /\ work[t].session # NoChild
           /\ work[t].command \in {"start", "prepare", "synthesize", "shutdown"}
           /\ work[t].command \in DOMAIN Script
           /\ work[t].line \in 1 .. Len(Script[work[t].command])
           /\ Len(Script[work[t].command]) \in Nat
<1>1. work[t].line \in Nat /\ work[t].session \in {NoChild, R} /\ work[t].reply \in Outcomes
  BY DEF WorkTyped, Record
<1> QED BY <1>1, Scripts, StandsThere DEF Stands, Session

\* Where a line that was carried out leads.
Advanced(t) ==
    \/ /\ work[t].line < Len(Script[work[t].command])
       /\ Moves(t, "talking", work[t].line + 1, work[t].session, work[t].reply)
       /\ work[t].line + 1 \in 1 .. Len(Script[work[t].command])
       /\ KeepsLocks
    \/ /\ work[t].line = Len(Script[work[t].command])
       /\ \/ /\ Moves(t, "deciding", work[t].line, work[t].session, work[t].reply)
             /\ work[t].command = "synthesize" /\ KeepsLocks
          \/ /\ Moves(t, "leaving", work[t].line, work[t].session, work[t].reply)
             /\ work[t].command = "shutdown" /\ KeepsLocks
          \/ /\ Moves(t, "replied", work[t].line, work[t].session, "ok")
             /\ work[t].command \in {"start", "prepare"} /\ Release(t)

LEMMA Advances ==
    ASSUME WorkTyped, Stations, NEW t \in Threads, work[t].at = "talking", advance(t)
    PROVE  Advanced(t)
<1>0. /\ work[t].line \in Nat /\ work[t].session \in {NoChild, R}
      /\ work[t].reply \in Outcomes
      /\ work[t].command \in {"start", "prepare", "synthesize", "shutdown"}
      /\ work[t].line \in 1 .. Len(Script[work[t].command])
      /\ Len(Script[work[t].command]) \in Nat
  BY TalksWhere
<1>1. CASE work[t].line < Len(Script[work[t].command])
  <2> DEFINE next == work[t].line + 1
  <2>1. next \in Nat /\ next \in 1 .. Len(Script[work[t].command])
    BY <1>0, <1>1
  <2>2. work' = [work EXCEPT ![t].line = next] /\ KeepsLocks
    BY <1>1 DEF advance, KeepsLocks
  <2> HIDE DEF next
  <2>3. Moves(t, work[t].at, next, work[t].session, work[t].reply)
    BY <1>0, <2>1, <2>2, Moved, Literals
  <2> QED BY <1>1, <2>1, <2>2, <2>3 DEF next, Advanced
<1>2. CASE ~(work[t].line < Len(Script[work[t].command]))
  <2>1. \/ /\ work[t].command = "synthesize" /\ Goto(t, "deciding")
           /\ KeepsLocks
        \/ /\ work[t].command = "shutdown" /\ Goto(t, "leaving") /\ KeepsLocks
        \/ /\ work[t].command \in {"start", "prepare"}
           /\ ReplyAbout(t, "ok", work[t].session)
    BY <1>0, <1>2 DEF advance, KeepsLocks
  <2>2. work[t].line = Len(Script[work[t].command])
    BY <1>0, <1>2
  <2>3. CASE work[t].command = "synthesize" /\ Goto(t, "deciding") /\ KeepsLocks
    BY <2>2, <2>3, Goes, Literals DEF Advanced
  <2>4. CASE work[t].command = "shutdown" /\ Goto(t, "leaving") /\ KeepsLocks
    BY <2>2, <2>4, Goes, Literals DEF Advanced
  <2>5. CASE /\ work[t].command \in {"start", "prepare"}
             /\ ReplyAbout(t, "ok", work[t].session)
    BY <1>0, <2>2, <2>5, RepliesAbout, Literals DEF Advanced
  <2> QED BY <2>1, <2>3, <2>4, <2>5
<1> QED BY <1>1, <1>2

\* Where a line that failed leads.
Abandoned(t, failure) ==
    /\ \/ Moves(t, "failed", work[t].line, work[t].session, failure)
       \/ /\ Moves(t, "deciding", work[t].line, work[t].session, failure)
          /\ work[t].command = "synthesize"
    /\ KeepsLocks

LEMMA Abandons ==
    ASSUME WorkTyped, NEW t \in Threads, NEW failure \in Failures, abandon(t, failure)
    PROVE  Abandoned(t, failure)
<1>1. /\ work[t].line \in Nat /\ work[t].session \in {NoChild, R}
      /\ work[t].reply \in Outcomes /\ failure \in Outcomes
  BY DEF WorkTyped, Record, Failures, Outcomes
<1>2. CASE work[t].command = "synthesize"
  BY <1>1, <1>2, Moved, Literals DEF abandon, KeepsLocks, Abandoned
<1>3. CASE work[t].command # "synthesize"
  BY <1>1, <1>3, Moved, Literals DEF abandon, KeepsLocks, Abandoned
<1> QED BY <1>2, <1>3

\* Where talking leads.
LEMMA TalkMoves ==
    ASSUME WorkTyped, Stations, NEW t \in Threads, Talks(t)
    PROVE  Advanced(t) \/ \E failure \in Failures : Abandoned(t, failure)
BY Advances, Abandons DEF Talks

-----------------------------------------------------------------------------
(* What the supervisor does to the stations of its threads *)

\* The other threads stay where they are.
LEMMA OthersStay ==
    ASSUME Stations, UNCHANGED asked, NEW t \in Threads,
           NEW at, NEW line, NEW session, NEW reply, Moves(t, at, line, session, reply),
           Stands(work[t].command, at, line, session, reply)
    PROVE  Stations'
<1>1. Stationed(work'[t])
  BY DEF Moves, Stationed
<1>2. Named(work'[t])
  BY DEF Moves, Stations, Named
<1>3. \A u \in Threads : Stationed(work'[u]) /\ Named(work'[u])
  BY <1>1, <1>2 DEF Stations, Moves
<1> QED BY <1>3 DEF Stations, Named


-----------------------------------------------------------------------------
(* Steps at which no child begins or ends *)

\* The thread comes to hold no lock but those its point calls for.
SteadyLocks(t, at) ==
    /\ admission' \in Threads \cup {Nobody} /\ operation' \in Threads \cup {Nobody}
    /\ at \in Admitted => admission' = t
    /\ \A u \in Threads : u # t /\ admission = u => admission' = u
    /\ at \in Terminating => SlotFree
    /\ at \in Terminating \ {"forcing"} => slot # NoChild

\* The record keeps its receipts, and the active synthesis is at most forgotten.
SteadyRecord ==
    /\ Shaped(lifecycle')
    /\ lifecycle'.contained = lifecycle.contained
    /\ lifecycle'.rejected = lifecycle.rejected
    /\ lifecycle'.active \in {lifecycle.active, NoSynthesis}
    /\ revoked' # revoked => revoked' = Revoked /\ lifecycle'.active = NoSynthesis

\* Where the thread comes to says no more than is so.
SteadyPoint(t, at, session, reply) ==
    /\ work[t].command = "start" /\ at \in EarlyPoints \cup {"rejected"}
          => work[t].at \in EarlyPoints
    /\ session # NoChild => work[t].session # NoChild \/ slot # NoChild \/ Over
    /\ at = "retiring" => ~alive
    /\ at # "removing"
    /\ reply = "ok" /\ work[t].command \in {"cancel", "shutdown"} => Over
    /\ work[t].command = "synthesize" =>
          /\ at \in UnclaimedPoints => work[t].at \in UnclaimedPoints
          /\ reply = "ok" => /\ lifecycle.active = work[t].synthesis
                             /\ lifecycle'.active = NoSynthesis
                             /\ revoked' = revoked

Steady(t, at, line, session, reply) ==
    /\ Moves(t, at, line, session, reply)
    /\ Stands(work[t].command, at, line, session, reply)
    /\ SteadyLocks(t, at) /\ SteadyRecord /\ SteadyPoint(t, at, session, reply)
    /\ faults' \in 0 .. MaxFaults
    /\ UNCHANGED <<alive, slot, started, strays>>

LEMMA SteadyTyped ==
    ASSUME Inv, UNCHANGED clientVars, NEW t \in Threads, NEW at, NEW line, NEW session,
           NEW reply, Steady(t, at, line, session, reply)
    PROVE  WorkTyped' /\ SupervisorTyped' /\ ClientTyped'
<1>1. WorkTyped'
  BY DEF Steady, Moves, WorkTyped, Record, R, clientVars
<1>2. SupervisorTyped'
  <2>1. UNCHANGED asked /\ lifecycle.active \in 0 .. asked.syntheses
        /\ asked.syntheses \in Nat
    BY DEF Inv, SupervisorTyped, ClientTyped, clientVars
  <2>2. revoked' \subseteq 1 .. asked.syntheses
    <3>1. {lifecycle.active} \ {NoSynthesis} \subseteq 1 .. asked.syntheses
      BY <2>1 DEF NoSynthesis
    <3>2. revoked \subseteq 1 .. asked.syntheses
      BY DEF Inv, SupervisorTyped
    <3>3. revoked' = revoked \/ revoked' = revoked \cup ({lifecycle.active} \ {NoSynthesis})
      BY DEF Steady, SteadyRecord, Revoked
    <3> QED BY <3>1, <3>2, <3>3
  <2>3. lifecycle'.active \in 0 .. asked.syntheses
    BY <2>1 DEF Steady, SteadyRecord, NoSynthesis
  <2>4. Shaped(lifecycle)'
    BY DEF Steady, SteadyRecord
  <2> QED BY <2>1, <2>2, <2>3, <2>4
          DEF Inv, SupervisorTyped, Steady, SteadyLocks, SteadyRecord, R
<1>3. ClientTyped'
  BY DEF Inv, ClientTyped, clientVars, R
<1> QED BY <1>1, <1>2, <1>3

LEMMA SteadyLocked ==
    ASSUME Inv, UNCHANGED clientVars, NEW t \in Threads, NEW at, NEW line, NEW session,
           NEW reply, Steady(t, at, line, session, reply)
    PROVE  Locks'
BY DEF Inv, Locks, Steady, SteadyLocks, Moves, SlotFree, Nobody

LEMMA SteadyChildren ==
    ASSUME Inv, UNCHANGED clientVars, NEW t \in Threads, NEW at, NEW line, NEW session,
           NEW reply, Steady(t, at, line, session, reply)
    PROVE  /\ Children' /\ (Over => Over') /\ (Published => Published')
<1>1. Published => Published'
  BY DEF Published, Early, IsEarly, Steady, SteadyPoint, Moves
<1>2. Over => Over'
  BY <1>1 DEF Over, Steady
<1>3. Children'
  <2>1. UNCHANGED <<R, alive, slot, started, strays>>
    BY DEF Steady, R, clientVars
  <2>2. ASSUME NEW u \in Threads, work'[u].session # NoChild PROVE Published
    <3>1. CASE u # t
      BY <2>2, <3>1 DEF Inv, Children, Steady, Moves
    <3>2. CASE u = t
      BY <2>2, <3>2 DEF Inv, Children, Over, Steady, SteadyPoint, Moves
    <3> QED BY <3>1, <3>2
  <2>3. ASSUME NEW u \in Threads, IsEarly(work[u])' \/ work'[u].at = "rejected"
        PROVE  strays = {}
    BY <2>3, StandsThere DEF Inv, Children, Steady, SteadyPoint, Moves, IsEarly, Stands,
       StartPoints
  <2>4. ASSUME NEW u \in Threads, work'[u].at \in {"retiring", "removing"} PROVE ~alive
    BY <2>4 DEF Inv, Children, Steady, SteadyPoint, Moves
  <2> QED BY <1>1, <2>1, <2>2, <2>3, <2>4 DEF Inv, Children
<1> QED BY <1>1, <1>2, <1>3

\* What is over stays over, so what says so stays true.
LEMMA SteadyEndings ==
    ASSUME Inv, UNCHANGED clientVars, NEW t \in Threads, NEW at, NEW line, NEW session,
           NEW reply, Steady(t, at, line, session, reply)
    PROVE  Endings'
<1>1. Over => Over'
  BY SteadyChildren
<1> QED BY <1>1 DEF Inv, Endings, Steady, SteadyPoint, SteadyRecord, Moves, R, clientVars

LEMMA SteadySyntheses ==
    ASSUME Inv, UNCHANGED clientVars, NEW t \in Threads, NEW at, NEW line, NEW session,
           NEW reply, Steady(t, at, line, session, reply)
    PROVE  Syntheses'
BY DEF Inv, Syntheses, Steady, SteadyPoint, SteadyRecord, Moves, Revoked

LEMMA SteadyConversation ==
    ASSUME Inv, UNCHANGED clientVars, NEW t \in Threads, NEW at, NEW line, NEW session,
           NEW reply, Moves(t, at, line, session, reply)
    PROVE  Conversation'
<1>1. \A u \in Threads : work'[u].command = work[u].command
  BY DEF Moves
<1>2. Pending("start")' <=> Pending("start")
  BY <1>1 DEF Pending
<1> QED BY <1>1, <1>2 DEF Inv, Conversation, Awaited, clientVars, ClientTyped

\* A steady step keeps everything.
LEMMA SteadyKeeps ==
    ASSUME Inv, UNCHANGED clientVars, NEW t \in Threads, NEW at, NEW line, NEW session,
           NEW reply, Steady(t, at, line, session, reply)
    PROVE  Inv'
<1>1. Stations'
  BY OthersStay DEF Inv, Steady, clientVars
<1> QED BY <1>1, SteadyTyped, SteadyLocked, SteadyChildren, SteadyEndings,
           SteadySyntheses, SteadyConversation DEF Inv, Steady

-----------------------------------------------------------------------------
(* Starting *)

\* What a thread at some point of its command may rely on.
LEMMA AtPoint ==
    ASSUME Inv, NEW t \in Threads, work[t].at # "idle"
    PROVE  /\ Stands(work[t].command, work[t].at, work[t].line, work[t].session,
                     work[t].reply)
           /\ work[t].line \in Nat /\ work[t].session \in {NoChild, R}
           /\ work[t].reply \in Outcomes
           /\ work[t].command = "start" => work[t].request = R /\ R # 0
           /\ work[t].at \in Admitted => admission = t
           /\ admission \in Threads \cup {Nobody} /\ operation \in Threads \cup {Nobody}
           /\ Shaped(lifecycle) /\ faults \in 0 .. MaxFaults
           /\ slot \in {NoChild, R}
  BY StandsThere DEF Inv, Stations, Named, Locks, WorkTyped, Record, SupervisorTyped,
     NoRequest

\* The locks a step leaves alone, or gives back.
LEMMA LocksGiven ==
    ASSUME Inv, NEW t \in Threads, Release(t) \/ KeepsLocks
    PROVE  /\ admission' \in Threads \cup {Nobody} /\ operation' \in Threads \cup {Nobody}
           /\ \A u \in Threads : u # t /\ admission = u => admission' = u
BY DEF Inv, SupervisorTyped, Release, KeepsLocks, Nobody, Threads

LEMMA StartSteps ==
    ASSUME Inv, UNCHANGED clientVars, NEW t \in Threads,
           start_selected(t) \/ admitStart(t) \/ configure_profile_locked(t)
    PROVE  Inv'
<1> USE AtPoint, LocksGiven
    DEF Steady, SteadyLocks, SteadyRecord, SteadyPoint, Stands, StartPoints, Session,
        Admitted, Terminating, EarlyPoints, UnclaimedPoints
<1>1. CASE start_selected(t)
  <2>1. \/ Moves(t, "replied", work[t].line, NoChild, "invalidState") /\ Release(t)
        \/ Moves(t, "admitting", work[t].line, work[t].session, work[t].reply) /\ KeepsLocks
    BY <1>1, Goes, Replies, Literals DEF Inv, start_selected, KeepsLocks
  <2>2. /\ work[t].at = "entering" /\ work[t].command = "start"
        /\ UNCHANGED <<alive, faults, slot, lifecycle, started, strays, revoked>>
    BY <1>1 DEF start_selected, serviceVars
  <2>3. \/ Steady(t, "replied", work[t].line, NoChild, "invalidState")
        \/ Steady(t, "admitting", work[t].line, work[t].session, work[t].reply)
    BY <2>1, <2>2
  <2> QED BY <2>3, SteadyKeeps
<1>2. CASE admitStart(t)
  <2>1. \/ Moves(t, "rejected", work[t].line, work[t].session, "busy") /\ Release(t)
        \/ /\ Moves(t, "configuring", work[t].line, work[t].session, work[t].reply)
           /\ admission = Nobody /\ admission' = t /\ operation' = t
    BY <1>2, Goes, Rejects, Literals DEF Inv, admitStart
  <2>2. /\ work[t].at = "admitting"
        /\ UNCHANGED <<alive, faults, slot, lifecycle, started, strays, revoked>>
    BY <1>2 DEF admitStart, serviceVars
  <2>3. \/ Steady(t, "rejected", work[t].line, work[t].session, "busy")
        \/ Steady(t, "configuring", work[t].line, work[t].session, work[t].reply)
    BY <2>1, <2>2 DEF Nobody, Threads
  <2> QED BY <2>3, SteadyKeeps
<1>3. CASE configure_profile_locked(t)
  <2>1. \/ \E failure \in {"invalidState", "unavailable"} :
              Moves(t, "rejected", work[t].line, work[t].session, failure) /\ Release(t)
        \/ /\ Moves(t, "spawning", work[t].line, work[t].session, work[t].reply)
           /\ KeepsLocks
    BY <1>3, Goes, Rejects, Literals DEF Inv, configure_profile_locked, KeepsLocks
  <2>2. /\ work[t].at = "configuring" /\ faults' \in 0 .. MaxFaults
        /\ UNCHANGED <<alive, slot, lifecycle, started, strays, revoked>>
    BY <1>3, Faulty DEF configure_profile_locked
  <2>3. \/ \E failure \in {"invalidState", "unavailable"} :
              Steady(t, "rejected", work[t].line, work[t].session, failure)
        \/ Steady(t, "spawning", work[t].line, work[t].session, work[t].reply)
    BY <2>1, <2>2 DEF KeepsLocks
  <2> QED BY <2>3, SteadyKeeps
<1> QED BY <1>1, <1>2, <1>3

\* Talking to the service neither begins nor ends a child.
LEMMA TalkSteps ==
    ASSUME Inv, UNCHANGED clientVars, NEW t \in Threads, Talking(t)
    PROVE  Inv'
<1> USE AtPoint, LocksGiven
    DEF Steady, SteadyLocks, SteadyRecord, SteadyPoint, Stands, StartPoints, Session,
        Admitted, Terminating, EarlyPoints, UnclaimedPoints
<1>1. Talks(t)
  BY Talk DEF Inv
<1>2. /\ work[t].at = "talking" /\ faults' \in 0 .. MaxFaults
      /\ Shaped(lifecycle') /\ lifecycle'.contained = lifecycle.contained
      /\ lifecycle'.rejected = lifecycle.rejected
      /\ lifecycle'.active = lifecycle.active
      /\ UNCHANGED <<alive, slot, started, strays, revoked>>
  BY <1>1 DEF Talks, Shaped
<1>3. ASSUME NEW at, NEW line, NEW session, NEW reply, Moves(t, at, line, session, reply),
             Release(t) \/ KeepsLocks, at \in {"talking", "deciding", "leaving", "failed",
                "replied"}, session = work[t].session,
             Stands(work[t].command, at, line, session, reply),
             reply = "ok" => work[t].command \in {"start", "prepare"}
      PROVE  Steady(t, at, line, session, reply)
  BY <1>2, <1>3
<1>4. \E at, line, session, reply : Steady(t, at, line, session, reply)
  BY <1>1, <1>2, <1>3, TalkMoves DEF Inv, Failures, Advanced, Abandoned
<1> QED BY <1>4, SteadyKeeps

-----------------------------------------------------------------------------
(* Loading, synthesis, and failing *)

LEMMA OperateSteps ==
    ASSUME Inv, UNCHANGED clientVars, NEW t \in Threads,
           acquire_operation(t) \/ active_session(t) \/ decide(t) \/ fail_session(t)
    PROVE  Inv'
<1> USE AtPoint, LocksGiven
    DEF Steady, SteadyLocks, SteadyRecord, SteadyPoint, Stands, StartPoints, Session,
        Admitted, Terminating, EarlyPoints, UnclaimedPoints
<1>1. CASE acquire_operation(t)
  <2>1. \/ Moves(t, "replied", work[t].line, NoChild, "busy") /\ Release(t)
        \/ /\ Moves(t, "opening", work[t].line, work[t].session, work[t].reply)
           /\ operation' = t /\ admission' = admission
    BY <1>1, Goes, Replies, Literals DEF Inv, acquire_operation
  <2>2. /\ work[t].at = "entering" /\ work[t].command \in {"prepare", "synthesize"}
        /\ UNCHANGED <<alive, faults, slot, lifecycle, started, strays, revoked>>
    BY <1>1 DEF acquire_operation, serviceVars
  <2>3. \/ Steady(t, "replied", work[t].line, NoChild, "busy")
        \/ Steady(t, "opening", work[t].line, work[t].session, work[t].reply)
    BY <2>1, <2>2
  <2> QED BY <2>3, SteadyKeeps
<1>2. CASE active_session(t)
  <2>1. work[t].at = "opening" /\ work[t].command \in {"prepare", "synthesize"}
    BY <1>2 DEF active_session
  <2>0. 1 \in Nat /\ slot \in {NoChild, R} /\ work[t].reply \in Outcomes
        /\ "claiming" \in Points /\ "talking" \in Points
    BY <2>1, Literals
  <2>2. 1 \in 1 .. Len(Script[work[t].command]) /\ work[t].command \in DOMAIN Script
    BY <2>1, Scripts
  <2>3. \/ Moves(t, "replied", work[t].line, NoChild, "invalidState") /\ Release(t)
        \/ /\ \/ work[t].command = "synthesize" /\ Moves(t, "claiming", 1, slot, work[t].reply)
              \/ work[t].command = "prepare" /\ Moves(t, "talking", 1, slot, work[t].reply)
           /\ slot # NoChild /\ KeepsLocks
    <3>1. CASE slot = NoChild
      BY <1>2, <3>1, Replies, Literals DEF Inv, active_session
    <3>2. CASE slot # NoChild /\ work[t].command = "synthesize"
      <4>1. work' = [work EXCEPT ![t].session = slot, ![t].line = 1, ![t].at = "claiming"]
        BY <1>2, <3>2 DEF active_session
      <4>2. Moves(t, "claiming", 1, slot, work[t].reply)
        BY <2>0, <4>1, Moved DEF Inv
      <4> QED BY <1>2, <3>2, <4>2 DEF active_session, KeepsLocks
    <3>3. CASE slot # NoChild /\ work[t].command = "prepare"
      <4>1. work' = [work EXCEPT ![t].session = slot, ![t].line = 1, ![t].at = "talking"]
        BY <1>2, <3>3 DEF active_session
      <4>2. Moves(t, "talking", 1, slot, work[t].reply)
        BY <2>0, <4>1, Moved DEF Inv
      <4> QED BY <1>2, <3>3, <4>2 DEF active_session, KeepsLocks
    <3> QED BY <2>1, <3>1, <3>2, <3>3
  <2>4. UNCHANGED <<alive, faults, slot, lifecycle, started, strays, revoked>>
    BY <1>2 DEF active_session, serviceVars
  <2>5. \/ Steady(t, "replied", work[t].line, NoChild, "invalidState")
        \/ Steady(t, "claiming", 1, slot, work[t].reply)
        \/ Steady(t, "talking", 1, slot, work[t].reply)
    BY <2>1, <2>2, <2>3, <2>4
  <2> QED BY <2>5, SteadyKeeps
<1>3. CASE decide(t)
  <2>1. /\ \/ /\ Moves(t, "replied", work[t].line, NoChild, "cancelled") /\ Release(t)
              /\ lifecycle'.active \in {lifecycle.active, NoSynthesis}
           \/ /\ Moves(t, "replied", work[t].line, NoChild, "ok") /\ Release(t)
              /\ lifecycle.active = work[t].synthesis /\ lifecycle'.active = NoSynthesis
           \/ /\ Moves(t, "failed", work[t].line, work[t].session, work[t].reply)
              /\ KeepsLocks /\ lifecycle'.active \in {lifecycle.active, NoSynthesis}
        /\ Shaped(lifecycle') /\ lifecycle'.contained = lifecycle.contained
        /\ lifecycle'.rejected = lifecycle.rejected
    <3>1. CASE lifecycle.active # work[t].synthesis
      BY <1>3, <3>1, Replies, Literals DEF Inv, decide
    <3>2. CASE lifecycle.active = work[t].synthesis
      <4>1. lifecycle' = [lifecycle EXCEPT !.active = NoSynthesis]
        BY <1>3, <3>2 DEF decide
      <4>2. /\ Shaped(lifecycle') /\ lifecycle'.contained = lifecycle.contained
            /\ lifecycle'.rejected = lifecycle.rejected
            /\ lifecycle'.active = NoSynthesis
        BY <1>3, <4>1 DEF Shaped, decide
      <4>3. CASE work[t].reply = Nothing
        <5>1. Reply(t, "ok")
          BY <1>3, <3>2, <4>3 DEF decide, Nothing
        <5> QED BY <3>2, <4>2, <5>1, Replies, Literals DEF Inv
      <4>4. CASE work[t].reply = "cancelled"
        <5>1. Reply(t, "cancelled")
          BY <1>3, <3>2, <4>4 DEF decide, Nothing
        <5> QED BY <3>2, <4>2, <5>1, Replies, Literals DEF Inv
      <4>5. CASE work[t].reply # Nothing /\ work[t].reply # "cancelled"
        <5>1. Goto(t, "failed") /\ KeepsLocks
          BY <1>3, <3>2, <4>5 DEF decide, KeepsLocks
        <5> QED BY <3>2, <4>2, <5>1, Goes, Literals DEF Inv
      <4> QED BY <4>3, <4>4, <4>5
    <3> QED BY <3>1, <3>2
  <2>2. /\ work[t].at = "deciding"
        /\ UNCHANGED <<alive, faults, slot, started, strays, revoked>>
    BY <1>3 DEF decide, serviceVars
  <2>3. \/ Steady(t, "replied", work[t].line, NoChild, "cancelled")
        \/ Steady(t, "replied", work[t].line, NoChild, "ok")
        \/ Steady(t, "failed", work[t].line, work[t].session, work[t].reply)
    BY <2>1, <2>2
  <2> QED BY <2>3, SteadyKeeps
<1>4. CASE fail_session(t)
  <2>1. work[t].at = "failed" /\ SlotFree
        /\ UNCHANGED <<alive, faults, slot, started, strays, revoked>>
    BY <1>4 DEF fail_session
  <2>2. \/ /\ Moves(t, "replied", work[t].line, NoChild, "cancelled") /\ Release(t)
           /\ lifecycle' = lifecycle
        \/ /\ Moves(t, "failing", work[t].line, work[t].session, work[t].reply)
           /\ KeepsLocks /\ slot = work[t].session
           /\ lifecycle' = [lifecycle EXCEPT !.active = NoSynthesis, !.state = "failed"]
    BY <1>4, Goes, Replies, Literals DEF Inv, fail_session, KeepsLocks
  <2>3. /\ Shaped(lifecycle') /\ lifecycle'.contained = lifecycle.contained
        /\ lifecycle'.rejected = lifecycle.rejected
        /\ lifecycle'.active \in {lifecycle.active, NoSynthesis}
    BY <2>1, <2>2 DEF Shaped
  <2>4. \/ Steady(t, "replied", work[t].line, NoChild, "cancelled")
        \/ Steady(t, "failing", work[t].line, work[t].session, work[t].reply)
    BY <2>1, <2>2, <2>3
  <2> QED BY <2>4, SteadyKeeps
<1> QED BY <1>1, <1>2, <1>3, <1>4

-----------------------------------------------------------------------------
(* Cancelling and shutting down *)

\* A cancel takes back the active synthesis before its child is terminated.
LEMMA CancelStep ==
    ASSUME Inv, UNCHANGED clientVars, NEW t \in Threads, cancel(t)
    PROVE  Inv'
<1> USE AtPoint, LocksGiven
    DEF Steady, SteadyLocks, SteadyRecord, SteadyPoint, Stands, StartPoints, Session,
        Admitted, Terminating, EarlyPoints, UnclaimedPoints
<1>1. /\ work[t].at = "entering" /\ work[t].command = "cancel" /\ SlotFree
      /\ UNCHANGED <<alive, faults, slot, started, strays>>
  BY DEF cancel
<1>2. CASE slot = NoChild \/ lifecycle.active # work[t].synthesis
  <2>1. \E reply \in {"invalidState", "invalidInput"} : Reply(t, reply)
    BY <1>2 DEF cancel
  <2>2. \E reply \in {"invalidState", "invalidInput"} :
           Moves(t, "replied", work[t].line, NoChild, reply) /\ Release(t)
    BY <2>1, Replies, Literals DEF Inv
  <2>3. UNCHANGED <<lifecycle, revoked>>
    BY <1>2 DEF cancel
  <2>4. \E reply \in {"invalidState", "invalidInput"} :
           Steady(t, "replied", work[t].line, NoChild, reply)
    BY <1>1, <2>2, <2>3
  <2> QED BY <2>4, SteadyKeeps
<1>3. CASE ~(slot = NoChild \/ lifecycle.active # work[t].synthesis)
  <2>1. /\ Goto(t, "cancelling") /\ KeepsLocks /\ revoked' = Revoked
        /\ lifecycle' = [lifecycle EXCEPT !.active = NoSynthesis, !.state = "cancelling"]
    BY <1>3 DEF cancel, KeepsLocks
  <2>2. /\ Shaped(lifecycle') /\ lifecycle'.contained = lifecycle.contained
        /\ lifecycle'.rejected = lifecycle.rejected /\ lifecycle'.active = NoSynthesis
    BY <1>1, <2>1 DEF Shaped
  <2>3. Moves(t, "cancelling", work[t].line, work[t].session, work[t].reply)
    BY <2>1, Goes, Literals DEF Inv
  <2>4. Steady(t, "cancelling", work[t].line, work[t].session, work[t].reply)
    BY <1>1, <1>3, <2>1, <2>2, <2>3
  <2> QED BY <2>4, SteadyKeeps
<1> QED BY <1>2, <1>3

\* A child the command names is the one of the last start.
LEMMA MeansTheLast ==
    ASSUME Inv, NEW t \in Threads, work[t].command = "shutdown", NEW child,
           Means(t, child), child # NoChild
    PROVE  child = R /\ R # 0
BY DEF Inv, Stations, Named, Means, WorkTyped, Record, NoChild, NoRequest

LEMMA ShutdownSteps ==
    ASSUME Inv, UNCHANGED clientVars, NEW t \in Threads,
           shutdown_owned(t) \/ lookAtSlot(t) \/ reopen(t) \/ markStopping(t)
              \/ wait_for_exit(t)
    PROVE  Inv'
<1> USE AtPoint, LocksGiven
    DEF Steady, SteadyLocks, SteadyRecord, SteadyPoint, Stands, StartPoints, Session,
        Admitted, Terminating, EarlyPoints, UnclaimedPoints
<1>1. CASE shutdown_owned(t)
  <2>1. /\ work[t].at = "entering" /\ work[t].command = "shutdown"
        /\ UNCHANGED <<alive, faults, slot, lifecycle, started, strays, revoked>>
    BY <1>1 DEF shutdown_owned, serviceVars
  <2>2. CASE work[t].child = NoChild /\ work[t].request # NoRequest
               /\ lifecycle.rejected = work[t].request
    <3>1. Over
      BY <2>1, <2>2 DEF Inv, Stations, Named, WorkTyped, Record, Endings, NoChild, NoRequest
    <3>2. Moves(t, "replied", work[t].line, NoChild, "ok") /\ Release(t)
      BY <1>1, <2>2, Replies, Literals DEF Inv, shutdown_owned
    <3>3. Steady(t, "replied", work[t].line, NoChild, "ok")
      BY <2>1, <3>1, <3>2
    <3> QED BY <3>3, SteadyKeeps
  <2>3. CASE ~(work[t].child = NoChild /\ work[t].request # NoRequest
                 /\ lifecycle.rejected = work[t].request)
    <3>1. /\ Moves(t, "looking", work[t].line, work[t].session, work[t].reply)
          /\ operation' \in {t, operation} /\ admission' = admission
      BY <1>1, <2>3, Goes, Literals DEF Inv, shutdown_owned
    <3>2. Steady(t, "looking", work[t].line, work[t].session, work[t].reply)
      BY <2>1, <3>1
    <3> QED BY <3>2, SteadyKeeps
  <2> QED BY <2>2, <2>3
<1>2. CASE lookAtSlot(t)
  <2>1. /\ work[t].at = "looking" /\ work[t].command = "shutdown" /\ SlotFree
        /\ UNCHANGED <<alive, faults, slot, started, strays>>
    BY <1>2 DEF lookAtSlot
  <2>2. CASE slot = NoChild
    <3>1. acknowledge(t) /\ UNCHANGED revoked
      BY <1>2, <2>2 DEF lookAtSlot
    <3>2. CASE lifecycle.contained # NoChild /\ Means(t, lifecycle.contained)
      <4>1. /\ ReplyAbout(t, "ok", lifecycle.contained)
            /\ lifecycle' = [lifecycle EXCEPT !.state = "stopped"]
        BY <3>1, <3>2 DEF acknowledge
      <4>2. lifecycle.contained = R /\ R # 0
        BY <2>1, <3>2, MeansTheLast
      <4>3. Over
        BY <4>2 DEF Inv, Endings
      <4>4. Moves(t, "replied", work[t].line, R, "ok") /\ Release(t)
        BY <4>1, <4>2, RepliesAbout, Literals DEF Inv
      <4>5. /\ Shaped(lifecycle') /\ lifecycle'.contained = lifecycle.contained
            /\ lifecycle'.rejected = lifecycle.rejected
            /\ lifecycle'.active = lifecycle.active
        BY <2>1, <4>1 DEF Shaped
      <4>6. Steady(t, "replied", work[t].line, R, "ok")
        BY <2>1, <3>1, <4>3, <4>4, <4>5
      <4> QED BY <4>6, SteadyKeeps
    <3>3. CASE ~(lifecycle.contained # NoChild /\ Means(t, lifecycle.contained))
      <4>1. /\ \E reply \in {"invalidState", "cancelled"} : Reply(t, reply)
            /\ UNCHANGED lifecycle
        BY <3>1, <3>3 DEF acknowledge
      <4>2. \E reply \in {"invalidState", "cancelled"} :
               Moves(t, "replied", work[t].line, NoChild, reply) /\ Release(t)
        BY <4>1, Replies, Literals DEF Inv
      <4>3. \E reply \in {"invalidState", "cancelled"} :
               Steady(t, "replied", work[t].line, NoChild, reply)
        BY <2>1, <3>1, <4>1, <4>2
      <4> QED BY <4>3, SteadyKeeps
    <3> QED BY <3>2, <3>3
  <2>3. CASE slot # NoChild /\ operation # t
    <3>1. interrupt(t)
      BY <1>2, <2>3 DEF lookAtSlot
    <3>2. CASE Means(t, slot)
      <4>1. /\ Goto(t, "interrupting") /\ KeepsLocks /\ revoked' = Revoked
            /\ lifecycle' = [lifecycle EXCEPT !.active = NoSynthesis, !.state = "stopping"]
        BY <3>1, <3>2 DEF interrupt, KeepsLocks
      <4>2. Moves(t, "interrupting", work[t].line, work[t].session, work[t].reply)
        BY <4>1, Goes, Literals DEF Inv
      <4>3. /\ Shaped(lifecycle') /\ lifecycle'.contained = lifecycle.contained
            /\ lifecycle'.rejected = lifecycle.rejected /\ lifecycle'.active = NoSynthesis
        BY <2>1, <4>1 DEF Shaped
      <4>4. Steady(t, "interrupting", work[t].line, work[t].session, work[t].reply)
        BY <2>1, <2>3, <4>1, <4>2, <4>3
      <4> QED BY <4>4, SteadyKeeps
    <3>3. CASE ~Means(t, slot)
      <4>1. Reply(t, "cancelled") /\ UNCHANGED <<lifecycle, revoked>>
        BY <3>1, <3>3 DEF interrupt
      <4>2. Moves(t, "replied", work[t].line, NoChild, "cancelled") /\ Release(t)
        BY <4>1, Replies, Literals DEF Inv
      <4>3. Steady(t, "replied", work[t].line, NoChild, "cancelled")
        BY <2>1, <4>1, <4>2
      <4> QED BY <4>3, SteadyKeeps
    <3> QED BY <3>2, <3>3
  <2>4. CASE slot # NoChild /\ operation = t
    <3>1. /\ Moves(t, "reopening", work[t].line, work[t].session, work[t].reply)
          /\ KeepsLocks /\ UNCHANGED <<lifecycle, revoked>>
      BY <1>2, <2>4, Goes, Literals DEF Inv, lookAtSlot, KeepsLocks
    <3>2. Steady(t, "reopening", work[t].line, work[t].session, work[t].reply)
      BY <2>1, <3>1
    <3> QED BY <3>2, SteadyKeeps
  <2> QED BY <2>2, <2>3, <2>4
<1>3. CASE reopen(t)
  <2>1. /\ work[t].at = "reopening"
        /\ UNCHANGED <<alive, faults, slot, lifecycle, started, strays, revoked>>
    BY <1>3 DEF reopen, serviceVars
  <2>2. \/ \E reply \in {"invalidState", "cancelled"} :
              Moves(t, "replied", work[t].line, NoChild, reply) /\ Release(t)
        \/ /\ Moves(t, "stopping", work[t].line, slot, work[t].reply)
           /\ slot # NoChild /\ KeepsLocks
    <3>1. CASE slot = NoChild \/ ~Means(t, slot)
      <4>1. \E reply \in {"invalidState", "cancelled"} : Reply(t, reply)
        BY <1>3, <3>1 DEF reopen
      <4> QED BY <4>1, Replies, Literals DEF Inv
    <3>2. CASE slot # NoChild /\ Means(t, slot)
      <4>1. /\ work' = [work EXCEPT ![t].at = "stopping", ![t].session = slot]
            /\ KeepsLocks
        BY <1>3, <3>2 DEF reopen, KeepsLocks
      <4>2. /\ slot \in {NoChild, R} /\ work[t].line \in Nat
            /\ work[t].reply \in Outcomes /\ "stopping" \in Points
        BY <2>1, Literals
      <4>3. Moves(t, "stopping", work[t].line, slot, work[t].reply)
        BY <4>1, <4>2, Moved DEF Inv
      <4> QED BY <3>2, <4>1, <4>3
    <3> QED BY <3>1, <3>2
  <2>3. \/ \E reply \in {"invalidState", "cancelled"} :
              Steady(t, "replied", work[t].line, NoChild, reply)
        \/ Steady(t, "stopping", work[t].line, slot, work[t].reply)
    BY <2>1, <2>2
  <2> QED BY <2>3, SteadyKeeps
<1>4. CASE markStopping(t)
  <2>0. 1 \in Nat
    OBVIOUS
  <2>1. /\ work[t].at = "stopping" /\ KeepsLocks /\ revoked' = Revoked
        /\ UNCHANGED <<alive, faults, slot, started, strays>>
        /\ lifecycle' = [lifecycle EXCEPT !.active = NoSynthesis, !.state = "stopping"]
        /\ work' = [work EXCEPT ![t].at = "talking", ![t].line = 1]
    BY <1>4 DEF markStopping, serviceVars, KeepsLocks
  <2>2. work[t].command = "shutdown"
    BY <2>1
  <2>3. 1 \in 1 .. Len(Script[work[t].command]) /\ work[t].command \in DOMAIN Script
    BY <2>2, Scripts
  <2>4. Moves(t, "talking", 1, work[t].session, work[t].reply)
    BY <2>0, <2>1, Moved, Literals DEF Inv
  <2>5. /\ Shaped(lifecycle') /\ lifecycle'.contained = lifecycle.contained
        /\ lifecycle'.rejected = lifecycle.rejected /\ lifecycle'.active = NoSynthesis
    BY <2>1 DEF Shaped
  <2>6. Steady(t, "talking", 1, work[t].session, work[t].reply)
    BY <2>1, <2>2, <2>3, <2>4, <2>5
  <2> QED BY <2>6, SteadyKeeps
<1>5. CASE wait_for_exit(t)
  <2>1. /\ work[t].at = "leaving" /\ KeepsLocks
        /\ UNCHANGED <<alive, slot, lifecycle, started, strays, revoked>>
        /\ faults' \in 0 .. MaxFaults
    BY <1>5, Faulty DEF wait_for_exit, KeepsLocks
  <2>2. \/ ~alive /\ Moves(t, "retiring", work[t].line, work[t].session, work[t].reply)
        \/ Moves(t, "failed", work[t].line, work[t].session, "timeout")
    <3>1. CASE ~alive /\ Goto(t, "retiring")
      BY <3>1, Goes, Literals DEF Inv
    <3>2. CASE work' = [work EXCEPT ![t].at = "failed", ![t].reply = "timeout"]
      BY <2>1, <3>2, Moved, Literals DEF Inv
    <3> QED BY <1>5, <3>1, <3>2 DEF wait_for_exit
  <2>3. \/ Steady(t, "retiring", work[t].line, work[t].session, work[t].reply)
        \/ Steady(t, "failed", work[t].line, work[t].session, "timeout")
    BY <2>1, <2>2
  <2> QED BY <2>3, SteadyKeeps
<1> QED BY <1>1, <1>2, <1>3, <1>4, <1>5

-----------------------------------------------------------------------------
(* The removal of the optional runtime *)

LEMMA RemovalSteps ==
    ASSUME Inv, UNCHANGED clientVars, NEW t \in Threads,
           stop_for_optional_removal(t) \/ force_stop(t) \/ removed(t)
    PROVE  Inv'
<1> USE AtPoint, LocksGiven
    DEF Steady, SteadyLocks, SteadyRecord, SteadyPoint, Stands, StartPoints, Session,
        Admitted, Terminating, EarlyPoints, UnclaimedPoints
<1>1. CASE stop_for_optional_removal(t)
  <2>1. \/ Moves(t, "replied", work[t].line, NoChild, "busy") /\ Release(t)
        \/ /\ Moves(t, "admitted", work[t].line, work[t].session, work[t].reply)
           /\ admission = Nobody /\ admission' = t /\ operation' = operation
    BY <1>1, Goes, Replies, Literals DEF Inv, stop_for_optional_removal
  <2>2. /\ work[t].at = "entering" /\ work[t].command = "remove"
        /\ UNCHANGED <<alive, faults, slot, lifecycle, started, strays, revoked>>
    BY <1>1 DEF stop_for_optional_removal, serviceVars
  <2>3. \/ Steady(t, "replied", work[t].line, NoChild, "busy")
        \/ Steady(t, "admitted", work[t].line, work[t].session, work[t].reply)
    BY <2>1, <2>2 DEF Nobody, Threads
  <2> QED BY <2>3, SteadyKeeps
<1>2. CASE force_stop(t)
  <2>1. /\ work[t].at = "admitted" /\ SlotFree /\ KeepsLocks
        /\ UNCHANGED <<alive, faults, slot, lifecycle, started, strays, revoked>>
        /\ Moves(t, "forcing", work[t].line, work[t].session, work[t].reply)
    BY <1>2, Goes, Literals DEF Inv, force_stop, KeepsLocks
  <2>2. Steady(t, "forcing", work[t].line, work[t].session, work[t].reply)
    BY <2>1 DEF KeepsLocks
  <2> QED BY <2>2, SteadyKeeps
<1>3. CASE removed(t)
  <2>1. /\ work[t].at = "removing"
        /\ UNCHANGED <<alive, faults, slot, lifecycle, started, strays, revoked>>
        /\ Moves(t, "replied", work[t].line, NoChild, "ok") /\ Release(t)
    BY <1>3, Replies, Literals DEF Inv, removed, serviceVars
  <2>2. Steady(t, "replied", work[t].line, NoChild, "ok")
    BY <2>1
  <2> QED BY <2>2, SteadyKeeps
<1> QED BY <1>1, <1>2, <1>3

-----------------------------------------------------------------------------
(* The end of a child *)

\* The published child, if there is one, is gone; the thread that saw it go
\* may leave a receipt, or forget all of them.
Ends(t, at, session, reply) ==
    /\ Moves(t, at, work[t].line, session, reply)
    /\ Stands(work[t].command, at, work[t].line, session, reply)
    /\ \/ work[t].at \in Terminating
       \/ SlotFree /\ work[t].at = "retiring"
    /\ \/ at = "replied"
       \/ at = "removing" /\ admission' = t
    /\ admission' \in Threads \cup {Nobody} /\ operation' \in Threads \cup {Nobody}
    /\ \A u \in Threads : u # t /\ admission = u => admission' = u
    /\ ~alive' /\ slot' = NoChild
    /\ UNCHANGED <<started, strays>> /\ faults' \in 0 .. MaxFaults
    /\ Shaped(lifecycle')
    /\ lifecycle'.contained \in {lifecycle.contained, slot, NoChild}
    /\ lifecycle'.rejected \in {lifecycle.rejected, NoRequest}
    /\ lifecycle'.active \in {lifecycle.active, NoSynthesis}
    /\ revoked' # revoked => revoked' = Revoked /\ lifecycle'.active = NoSynthesis
    /\ session # NoChild => session \in {work[t].session, slot}
    /\ reply = "ok" => \/ /\ slot # NoChild \/ work[t].session # NoChild
                          /\ work[t].command # "synthesize"
                       \/ work[t].command = "remove"

\* A child that ends had been published.
LEMMA EndPublished ==
    ASSUME Inv, UNCHANGED clientVars, NEW t \in Threads, NEW at, NEW session, NEW reply,
           Ends(t, at, session, reply)
    PROVE  /\ Published => Published' /\ Over'
           /\ slot # NoChild \/ work[t].session # NoChild => Published
<1>1. Published => Published'
  BY DEF Published, Early, IsEarly, EarlyPoints, Ends, Moves
<1>2. slot # NoChild \/ work[t].session # NoChild => Published
  BY DEF Inv, Children
<1> QED BY <1>1, <1>2 DEF Over, Ends

LEMMA EndTyped ==
    ASSUME Inv, UNCHANGED clientVars, NEW t \in Threads, NEW at, NEW session, NEW reply,
           Ends(t, at, session, reply)
    PROVE  WorkTyped' /\ SupervisorTyped' /\ ClientTyped'
<1>1. WorkTyped'
  BY DEF Ends, Moves, WorkTyped, Record, R, clientVars
<1>2. SupervisorTyped'
  <2>1. /\ UNCHANGED <<R, asked>> /\ R \in Nat /\ lifecycle.active \in 0 .. asked.syntheses
        /\ asked.syntheses \in Nat
    BY DEF Inv, SupervisorTyped, ClientTyped, clientVars, R
  <2>2. revoked' \subseteq 1 .. asked.syntheses
    <3>1. {lifecycle.active} \ {NoSynthesis} \subseteq 1 .. asked.syntheses
      BY <2>1 DEF NoSynthesis
    <3>2. revoked \subseteq 1 .. asked.syntheses
      BY DEF Inv, SupervisorTyped
    <3>3. revoked' = revoked \/ revoked' = revoked \cup ({lifecycle.active} \ {NoSynthesis})
      BY DEF Ends, Revoked
    <3> QED BY <3>1, <3>2, <3>3
  <2>3. lifecycle'.active \in 0 .. asked.syntheses
    BY <2>1 DEF Ends, NoSynthesis
  <2>4. Shaped(lifecycle)'
    BY DEF Ends
  <2>5. lifecycle'.contained \in 0 .. R /\ lifecycle'.rejected \in 0 .. R
    BY <2>1 DEF Inv, SupervisorTyped, Ends, NoChild, NoRequest
  <2> QED BY <2>1, <2>2, <2>3, <2>4, <2>5 DEF Inv, SupervisorTyped, Ends
<1>3. ClientTyped'
  BY DEF Inv, ClientTyped, clientVars, R
<1> QED BY <1>1, <1>2, <1>3

LEMMA EndLocked ==
    ASSUME Inv, UNCHANGED clientVars, NEW t \in Threads, NEW at, NEW session, NEW reply,
           Ends(t, at, session, reply)
    PROVE  Locks'
<1>1. \A u \in Threads : work'[u].at \notin Terminating
  BY DEF Inv, Locks, Ends, Moves, SlotFree, Terminating
<1>2. \A u \in Threads : work'[u].at \in Admitted => admission' = u
  BY DEF Inv, Locks, Ends, Moves, Admitted
<1>3. \A u \in Threads : work'[u].command = work[u].command
  BY DEF Ends, Moves
<1> QED BY <1>1, <1>2, <1>3 DEF Inv, Locks

\* The end of a child keeps everything: the conversation is over from here on.
LEMMA EndKeeps ==
    ASSUME Inv, UNCHANGED clientVars, NEW t \in Threads, NEW at, NEW session, NEW reply,
           Ends(t, at, session, reply)
    PROVE  Inv'
<1>0. UNCHANGED <<R, asked, client, stop, fresh>>
  BY DEF R, clientVars
<1>1. Stations'
  BY OthersStay DEF Ends, clientVars, Inv
<1>2. Children'
  <2>1. \A u \in Threads : work'[u].session # NoChild => Published
    BY DEF Inv, Children, Ends, Moves
  <2>2. \A u \in Threads : IsEarly(work[u])' \/ work'[u].at = "rejected" => strays = {}
    BY DEF Inv, Children, Ends, Moves, IsEarly, EarlyPoints
  <2> QED BY <1>0, <2>1, <2>2, EndPublished DEF Children, Ends
<1>3. Endings'
  <2>1. \A u \in Threads : work'[u].reply = "ok" /\ work'[u].command \in {"cancel", "shutdown"}
           => Over'
    BY EndPublished DEF Inv, Endings, Over, Ends, Moves
  <2>2. R # 0 /\ R \in {lifecycle'.contained, lifecycle'.rejected} => Over'
    <3>1. \/ slot # NoChild \/ R \in {lifecycle.contained, lifecycle.rejected} \/ R = 0
          \/ ~(R \in {lifecycle'.contained, lifecycle'.rejected})
      BY DEF Ends, NoChild, NoRequest
    <3>2. R # 0 /\ R \in {lifecycle.contained, lifecycle.rejected} => Published
      BY DEF Inv, Endings, Over
    <3> QED BY <3>1, <3>2, EndPublished
  <2>3. Over => Over'
    BY EndPublished DEF Over
  <2> QED BY <1>0, <2>1, <2>2, <2>3 DEF Inv, Endings
<1>4. Syntheses'
  BY DEF Inv, Syntheses, Ends, Moves, Revoked, UnclaimedPoints, Stands
<1>5. Conversation'
  BY SteadyConversation DEF Ends
<1> QED BY <1>1, <1>2, <1>3, <1>4, <1>5, EndTyped, EndLocked DEF Inv


\* All five ways for a session to end, seen or not.
LEMMA ChildEnds ==
    ASSUME Inv, UNCHANGED clientVars, NEW t \in Threads,
           failedSessionEnds(t) \/ cancelled(t) \/ interrupted(t) \/ retire(t) \/ forced(t)
    PROVE  Inv'
<1> USE AtPoint, LocksGiven DEF Stands, StartPoints, Session, Admitted, Terminating
<1>1. CASE failedSessionEnds(t)
  <2>1. work[t].at = "failing" /\ UNCHANGED <<started, strays, revoked>>
    BY <1>1 DEF failedSessionEnds
  <2>2. work[t].reply \in Outcomes /\ work[t].reply # "ok"
    BY <2>1
  <2>3. CASE /\ ProcessGone /\ lifecycle' = [lifecycle EXCEPT !.contained = slot]
             /\ slot' = NoChild /\ Reply(t, work[t].reply)
    <3>1. Moves(t, "replied", work[t].line, NoChild, work[t].reply) /\ Release(t)
      BY <2>2, <2>3, Replies DEF Inv
    <3>2. /\ Shaped(lifecycle') /\ lifecycle'.contained = slot
          /\ lifecycle'.rejected = lifecycle.rejected
          /\ lifecycle'.active = lifecycle.active
      BY <2>1, <2>3 DEF Shaped
    <3>3. ~alive' /\ faults' = faults
      BY <2>3 DEF ProcessGone
    <3>4. Ends(t, "replied", NoChild, work[t].reply)
      BY <2>1, <2>2, <2>3, <3>1, <3>2, <3>3 DEF Ends
    <3> QED BY <3>4, EndKeeps
  <2>4. CASE TerminationUnverified /\ Reply(t, "timeout") /\ UNCHANGED <<lifecycle, slot>>
    <3>1. Moves(t, "replied", work[t].line, NoChild, "timeout") /\ Release(t)
      BY <2>4, Replies, Literals DEF Inv
    <3>2. Steady(t, "replied", work[t].line, NoChild, "timeout")
      BY <2>1, <2>4, <3>1, Faulty DEF TerminationUnverified, Steady, SteadyLocks,
         SteadyRecord, SteadyPoint, EarlyPoints, UnclaimedPoints
    <3> QED BY <3>2, SteadyKeeps
  <2> QED BY <1>1, <2>3, <2>4 DEF failedSessionEnds
<1>2. ASSUME NEW at \in {"cancelling", "interrupting"}, terminated(t, at) PROVE Inv'
  <2>1. /\ work[t].at = at /\ UNCHANGED <<started, strays, revoked>>
        /\ work[t].command \in {"cancel", "shutdown"} /\ slot # NoChild
    BY <1>2 DEF terminated, Inv, Locks
  <2>2. CASE /\ ProcessGone /\ lifecycle' = record_termination
             /\ slot' = NoChild /\ ReplyAbout(t, "ok", slot)
    <3>1. Moves(t, "replied", work[t].line, slot, "ok") /\ Release(t)
      BY <2>1, <2>2, RepliesAbout, Literals DEF Inv
    <3>2. /\ Shaped(lifecycle') /\ lifecycle'.contained = slot
          /\ lifecycle'.rejected = lifecycle.rejected
          /\ lifecycle'.active = NoSynthesis
      BY <2>1, <2>2 DEF Shaped, record_termination
    <3>3. ~alive' /\ faults' = faults
      BY <2>2 DEF ProcessGone
    <3>4. Ends(t, "replied", slot, "ok")
      BY <2>1, <2>2, <3>1, <3>2, <3>3 DEF Ends
    <3> QED BY <3>4, EndKeeps
  <2>3. CASE TerminationUnverified /\ Reply(t, "timeout") /\ UNCHANGED <<lifecycle, slot>>
    <3>1. Moves(t, "replied", work[t].line, NoChild, "timeout") /\ Release(t)
      BY <2>3, Replies, Literals DEF Inv
    <3>2. Steady(t, "replied", work[t].line, NoChild, "timeout")
      BY <2>1, <2>3, <3>1, Faulty DEF TerminationUnverified, Steady, SteadyLocks,
         SteadyRecord, SteadyPoint, EarlyPoints, UnclaimedPoints
    <3> QED BY <3>2, SteadyKeeps
  <2> QED BY <1>2, <2>2, <2>3 DEF terminated
<1>3. CASE retire(t)
  <2>1. /\ work[t].at = "retiring" /\ work[t].command = "shutdown" /\ SlotFree
        /\ UNCHANGED <<alive, faults, started, strays, revoked>>
        /\ work[t].session = R /\ R # NoChild /\ ~alive
    BY <1>3 DEF retire, serviceVars, Inv, Children
  <2>2. Moves(t, "replied", work[t].line, work[t].session, "ok") /\ Release(t)
    BY <1>3, <2>1, RepliesAbout, Literals DEF Inv, retire
  <2>3. CASE slot = work[t].session
    <3>1. lifecycle' = record_termination /\ slot' = NoChild
      BY <1>3, <2>3 DEF retire
    <3>2. /\ Shaped(lifecycle') /\ lifecycle'.contained = slot
          /\ lifecycle'.rejected = lifecycle.rejected
          /\ lifecycle'.active = NoSynthesis
      BY <2>1, <3>1 DEF Shaped, record_termination
    <3>3. Ends(t, "replied", work[t].session, "ok")
      BY <2>1, <2>2, <3>1, <3>2 DEF Ends
    <3> QED BY <3>3, EndKeeps
  <2>4. CASE slot # work[t].session
    <3>1. UNCHANGED <<lifecycle, slot>> /\ slot = NoChild
      BY <1>3, <2>1, <2>4 DEF retire
    <3>2. Over
      BY <2>1, <3>1 DEF Inv, Children, Over
    <3>3. Steady(t, "replied", work[t].line, work[t].session, "ok")
      BY <2>1, <2>2, <3>1, <3>2 DEF Steady, SteadyLocks, SteadyRecord, SteadyPoint,
         EarlyPoints, UnclaimedPoints
    <3> QED BY <3>3, SteadyKeeps
  <2> QED BY <2>3, <2>4
<1>4. CASE forced(t)
  <2>1. /\ work[t].at = "forcing" /\ work[t].command = "remove" /\ admission = t
        /\ UNCHANGED <<started, strays>>
    BY <1>4 DEF forced
  <2>2. CASE /\ IF slot = NoChild THEN UNCHANGED serviceVars ELSE ProcessGone
             /\ slot' = NoChild
             /\ lifecycle' = [state |-> "stopped", active |-> NoSynthesis,
                              contained |-> NoChild, rejected |-> NoRequest]
             /\ revoked' = Revoked /\ Goto(t, "removing")
             /\ UNCHANGED <<admission, operation>>
    <3>1. Moves(t, "removing", work[t].line, work[t].session, work[t].reply)
      BY <2>2, Goes, Literals DEF Inv
    <3>2. ~alive' /\ faults' = faults
      BY <2>2 DEF Inv, Children, ProcessGone, serviceVars
    <3>3. /\ Shaped(lifecycle') /\ lifecycle'.contained = NoChild
          /\ lifecycle'.rejected = NoRequest /\ lifecycle'.active = NoSynthesis
      BY <2>2 DEF Shaped
    <3>4. Ends(t, "removing", work[t].session, work[t].reply)
      BY <2>1, <2>2, <3>1, <3>2, <3>3 DEF Ends
    <3> QED BY <3>4, EndKeeps
  <2>3. CASE TerminationUnverified /\ Reply(t, "timeout") /\ UNCHANGED <<slot, lifecycle, revoked>>
    <3>1. Moves(t, "replied", work[t].line, NoChild, "timeout") /\ Release(t)
      BY <2>3, Replies, Literals DEF Inv
    <3>2. Steady(t, "replied", work[t].line, NoChild, "timeout")
      BY <2>1, <2>3, <3>1, Faulty DEF TerminationUnverified, Steady, SteadyLocks,
         SteadyRecord, SteadyPoint, EarlyPoints, UnclaimedPoints
    <3> QED BY <3>2, SteadyKeeps
  <2> QED BY <1>4, <2>2, <2>3 DEF forced
<1> QED BY <1>1, <1>2, <1>3, <1>4 DEF cancelled, interrupted

-----------------------------------------------------------------------------
(* A synthesis becomes the active one *)

\* A synthesis that becomes active was never taken back, and no other thread is about it.
LEMMA ClaimStep ==
    ASSUME Inv, UNCHANGED clientVars, NEW t \in Threads, claim(t)
    PROVE  Inv'
<1> USE AtPoint, LocksGiven
<1>0. /\ work[t].at = "claiming" /\ work[t].command = "synthesize"
      /\ UNCHANGED <<alive, faults, slot, started, strays, revoked>>
      /\ lifecycle.state # "ready" \/ lifecycle.active # NoSynthesis
            => Reply(t, "invalidState") /\ UNCHANGED lifecycle
  BY DEF claim, serviceVars, Stands
<1>1. CASE lifecycle.state # "ready" \/ lifecycle.active # NoSynthesis
  <2>1. /\ Moves(t, "replied", work[t].line, NoChild, "invalidState") /\ Release(t)
        /\ UNCHANGED lifecycle
    BY <1>0, <1>1, Replies, Literals DEF Inv
  <2>2. Steady(t, "replied", work[t].line, NoChild, "invalidState")
    BY <1>0, <2>1 DEF Steady, SteadyLocks, SteadyRecord, SteadyPoint, Stands, StartPoints,
       Session, Admitted, Terminating, EarlyPoints, UnclaimedPoints
  <2> QED BY <2>2, SteadyKeeps
<1>2. CASE ~(lifecycle.state # "ready" \/ lifecycle.active # NoSynthesis)
  <2>1. /\ Goto(t, "talking") /\ KeepsLocks
        /\ lifecycle' = [lifecycle EXCEPT !.active = work[t].synthesis]
    BY <1>2 DEF claim, KeepsLocks
  <2>2. Moves(t, "talking", work[t].line, work[t].session, work[t].reply)
    BY <2>1, Goes, Literals DEF Inv
  <2>3. Stands(work[t].command, "talking", work[t].line, work[t].session, work[t].reply)
    BY <1>0 DEF Stands, StartPoints, Session
  <2>4. /\ Shaped(lifecycle') /\ lifecycle'.contained = lifecycle.contained
        /\ lifecycle'.rejected = lifecycle.rejected
        /\ lifecycle'.active = work[t].synthesis
    BY <1>0, <2>1 DEF Shaped
  <2>5. UNCHANGED <<R, asked, client, stop, fresh>>
    BY DEF R, clientVars
  <2>6. Stations'
    BY <2>2, <2>3, OthersStay DEF Inv, clientVars
  <2>7. WorkTyped' /\ SupervisorTyped' /\ ClientTyped'
    <3>1. work[t].synthesis \in 0 .. asked.syntheses
      BY DEF Inv, WorkTyped, Record
    <3>2. Shaped(lifecycle)'
      BY <2>4
    <3> QED BY <1>0, <2>1, <2>2, <2>4, <2>5, <3>1, <3>2
            DEF Inv, WorkTyped, Record, Moves, SupervisorTyped, ClientTyped, KeepsLocks
  <2>8. Locks'
    BY <1>0, <2>1, <2>2 DEF Inv, Locks, Moves, KeepsLocks, Admitted, Terminating
  <2>9. (Published => Published') /\ (Over => Over')
    BY <1>0, <2>2 DEF Published, Over, Early, IsEarly, EarlyPoints, Moves
  <2>10. Children'
    BY <1>0, <2>2, <2>5, <2>9 DEF Inv, Children, Moves, IsEarly, EarlyPoints
  <2>11. Endings'
    BY <1>0, <2>2, <2>4, <2>5, <2>9 DEF Inv, Endings, Moves
  <2>12. Syntheses'
    <3>1. work[t].synthesis \notin revoked
      BY <1>0 DEF Inv, Syntheses, UnclaimedPoints
    <3>2. ASSUME NEW u \in Threads, work'[u].command = "synthesize",
                 work'[u].at \in UnclaimedPoints \/ work'[u].reply = "ok"
          PROVE  work'[u].synthesis \notin revoked' \cup {lifecycle'.active}
      <4>1. u # t
        BY <1>0, <2>2, <3>2 DEF Moves, UnclaimedPoints, Stands
      <4>2. work'[u] = work[u] /\ work[u].synthesis # work[t].synthesis
        BY <1>0, <2>2, <3>2, <4>1 DEF Inv, Syntheses, Moves
      <4> QED BY <1>0, <2>4, <3>2, <4>2 DEF Inv, Syntheses
    <3> QED BY <1>0, <2>2, <2>4, <3>1, <3>2 DEF Inv, Syntheses, Moves
  <2>13. Conversation'
    BY <2>2, SteadyConversation
  <2> QED BY <2>6, <2>7, <2>8, <2>10, <2>11, <2>12, <2>13 DEF Inv
<1> QED BY <1>1, <1>2

-----------------------------------------------------------------------------
(* A start comes to its end *)

\* While a start is on its way to a child there is none, and no other start.
LEMMA NotYet ==
    ASSUME Inv, NEW t \in Threads, work[t].at = "spawning"
    PROVE  /\ work[t].command = "start" /\ work[t].request = R /\ R # 0
           /\ ~Published /\ ~Over /\ strays = {} /\ slot = NoChild /\ ~alive
           /\ admission = t
           /\ \A u \in Threads : work[u].command = "start" => u = t
           /\ \A u \in Threads : work[u].at \in Admitted => u = t
           /\ \A u \in Threads : work[u].session = NoChild
           /\ R \notin {lifecycle.contained, lifecycle.rejected}
           /\ client.request # NoRequest /\ ~stop.heard
           /\ \A u \in Threads :
                 ~(work[u].reply = "ok" /\ work[u].command \in {"cancel", "shutdown"})
<1>1. work[t].command = "start" /\ work[t].request = R /\ R # 0 /\ admission = t
  BY AtPoint DEF Stands, StartPoints, Admitted
<1>2. ~Published /\ ~Over
  BY <1>1 DEF Published, Early, IsEarly, EarlyPoints, Over
<1>3. strays = {} /\ slot = NoChild /\ ~alive
  BY <1>1, <1>2 DEF Inv, Children, IsEarly, EarlyPoints
<1>4. /\ \A u \in Threads : work[u].command = "start" => u = t
      /\ \A u \in Threads : work[u].at \in Admitted => u = t
  BY <1>1 DEF Inv, Locks
<1>5. \A u \in Threads : work[u].session = NoChild
  BY <1>2 DEF Inv, Children
<1>6. /\ R \notin {lifecycle.contained, lifecycle.rejected}
      /\ client.request # NoRequest /\ ~stop.heard
      /\ \A u \in Threads :
            ~(work[u].reply = "ok" /\ work[u].command \in {"cancel", "shutdown"})
  BY <1>1, <1>2 DEF Inv, Endings
<1> QED BY <1>1, <1>2, <1>3, <1>4, <1>5, <1>6

\* Nobody relies on a process being gone while a start may bring one about.
LEMMA NobodyLeaves ==
    ASSUME Inv, NEW t \in Threads, work[t].at = "spawning"
    PROVE  \A u \in Threads : work[u].at \notin {"retiring", "removing"}
BY NotYet, AtPoint DEF Stands, Session, Admitted

LEMMA PublishStep ==
    ASSUME Inv, UNCHANGED clientVars, NEW t \in Threads, work[t].at = "spawning",
           SlotFree, publish(t), UNCHANGED revoked
    PROVE  Inv'
<1> USE NotYet
<1>1. /\ alive' = TRUE /\ started' = R /\ slot' = R /\ admission' = Nobody
      /\ lifecycle' = [lifecycle EXCEPT !.state = "starting", !.contained = NoChild]
      /\ work' = [work EXCEPT ![t].at = "talking", ![t].line = 1, ![t].session = R]
      /\ UNCHANGED <<operation, strays, faults, R, asked, client, stop, fresh>>
  BY DEF publish, ServiceBorn, R, clientVars
<1>2. /\ 1 \in Nat /\ R \in {NoChild, R} /\ R \in Nat /\ work[t].reply \in Outcomes
      /\ "talking" \in Points /\ work[t].reply # "ok"
  BY AtPoint, Literals DEF Stands, Inv, ClientTyped, R
<1>3. Moves(t, "talking", 1, R, work[t].reply)
  BY <1>1, <1>2, Moved DEF Inv
<1>4. 1 \in 1 .. Len(Script[work[t].command]) /\ work[t].command \in DOMAIN Script
  BY Scripts
<1>5. Stands(work[t].command, "talking", 1, R, work[t].reply)
  BY <1>2, <1>4 DEF Stands, StartPoints, Session, NoChild, Nothing
<1>6. Stations'
  BY <1>1, <1>3, <1>5, OthersStay DEF Inv
<1>7. /\ Shaped(lifecycle') /\ lifecycle'.contained = NoChild
      /\ lifecycle'.rejected = lifecycle.rejected
      /\ lifecycle'.active = lifecycle.active
  BY <1>1 DEF Shaped, Inv, SupervisorTyped
<1>8. WorkTyped' /\ SupervisorTyped' /\ ClientTyped'
  <2>1. Shaped(lifecycle)'
    BY <1>7
  <2>2. lifecycle'.contained \in 0 .. R /\ started' \in 0 .. R
    BY <1>1, <1>2, <1>7 DEF NoChild
  <2> QED BY <1>1, <1>3, <1>7, <2>1, <2>2
          DEF Inv, WorkTyped, Record, Moves, SupervisorTyped, ClientTyped
<1>9. Locks'
  BY <1>1, <1>3 DEF Inv, Locks, Moves, Admitted, Terminating, SlotFree
<1>10. Published'
  BY <1>1, <1>3 DEF Published, Early, IsEarly, EarlyPoints, Moves
<1>11. Children'
  <2>1. \A u \in Threads : work'[u].at \notin {"retiring", "removing"}
    BY <1>3, NobodyLeaves DEF Moves
  <2> QED BY <1>1, <1>10, <2>1 DEF Children, NoChild
<1>12. Endings'
  BY <1>1, <1>2, <1>3, <1>7 DEF Endings, Moves, NoChild
<1>13. Syntheses'
  BY <1>1, <1>3, <1>7 DEF Inv, Syntheses, Moves
<1>14. Conversation'
  BY <1>3, SteadyConversation
<1> QED BY <1>6, <1>8, <1>9, <1>11, <1>12, <1>13, <1>14 DEF Inv

LEMMA StrayStep ==
    ASSUME Inv, UNCHANGED clientVars, NEW t \in Threads, work[t].at = "spawning",
           SlotFree, processStrays(t), UNCHANGED revoked
    PROVE  Inv'
<1> USE NotYet
<1>1. /\ faults' \in 0 .. MaxFaults /\ strays' = strays \cup {R}
      /\ UNCHANGED <<alive, slot, lifecycle, started, R, asked, client, stop, fresh>>
  BY Faulty DEF processStrays, R, clientVars, Inv, SupervisorTyped
<1>2. Moves(t, "replied", work[t].line, NoChild, "unavailable") /\ Release(t)
  BY Replies, Literals DEF Inv, processStrays
<1>3. Stands(work[t].command, "replied", work[t].line, NoChild, "unavailable")
  BY DEF Stands, StartPoints, Session, Nothing
<1>4. Stations'
  BY <1>1, <1>2, <1>3, OthersStay DEF Inv
<1>5. WorkTyped' /\ SupervisorTyped' /\ ClientTyped'
  <2>1. Shaped(lifecycle)'
    BY <1>1 DEF Inv, SupervisorTyped
  <2> QED BY <1>1, <1>2, <2>1, LocksGiven
          DEF Inv, WorkTyped, Record, Moves, SupervisorTyped, ClientTyped
<1>6. Locks'
  BY <1>1, <1>2, LocksGiven DEF Inv, Locks, Moves, Admitted, Terminating
<1>7. Children'
  <2>1. \A u \in Threads : work'[u].session = NoChild /\ ~IsEarly(work[u])'
           /\ work'[u].at \notin {"rejected", "retiring", "removing"}
    <3>1. ASSUME NEW u \in Threads, u # t
          PROVE  work[u].command # "start" /\ ~IsEarly(work[u]) /\ work[u].at # "rejected"
      BY <3>1, AtPoint DEF IsEarly, Stands, StartPoints
    <3> QED BY <1>2, <3>1, NobodyLeaves DEF Moves, IsEarly, EarlyPoints
  <2> QED BY <1>1, <2>1 DEF Children
<1>8. Endings'
  BY <1>1, <1>2 DEF Endings, Moves
<1>9. Syntheses'
  BY <1>1, <1>2 DEF Inv, Syntheses, Moves
<1>10. Conversation'
  BY <1>2, SteadyConversation
<1> QED BY <1>4, <1>5, <1>6, <1>7, <1>8, <1>9, <1>10 DEF Inv

LEMMA AttemptStep ==
    ASSUME Inv, UNCHANGED clientVars, NEW t \in Threads, start_selected_attempt(t)
    PROVE  Inv'
<1>1. work[t].at = "spawning" /\ SlotFree /\ UNCHANGED revoked
  BY DEF start_selected_attempt
<1>2. CASE publish(t)
  BY <1>1, <1>2, PublishStep
<1>3. CASE processStrays(t)
  BY <1>1, <1>3, StrayStep
<1>4. CASE /\ \E failure \in {"invalidState", "unavailable"} : rejectAttempt(t, failure)
           /\ faults' \in 0 .. MaxFaults
           /\ UNCHANGED <<alive, slot, lifecycle, started, strays>>
  <2>1. \E failure \in {"invalidState", "unavailable"} :
           Moves(t, "rejected", work[t].line, work[t].session, failure) /\ Release(t)
    BY <1>4, Rejects, Literals DEF Inv
  <2>2. \E failure \in {"invalidState", "unavailable"} :
           Steady(t, "rejected", work[t].line, work[t].session, failure)
    BY <1>1, <1>4, <2>1, AtPoint, LocksGiven
       DEF Steady, SteadyLocks, SteadyRecord, SteadyPoint, Stands, StartPoints, Session,
           Admitted, Terminating, EarlyPoints, UnclaimedPoints
  <2> QED BY <2>2, SteadyKeeps
<1>5. spawnFails(t) => \E failure \in {"invalidState", "unavailable"} :
                          rejectAttempt(t, failure)
  BY DEF spawnFails
<1>6. spawnFails(t) => /\ faults' \in 0 .. MaxFaults
                       /\ UNCHANGED <<alive, slot, lifecycle, started, strays>>
  BY Faulty DEF spawnFails, Inv, SupervisorTyped
<1>7. CASE rejectAttempt(t, "invalidState")
             /\ UNCHANGED <<serviceVars, slot, lifecycle, started, strays>>
  <2>1. faults' \in 0 .. MaxFaults /\ UNCHANGED <<alive, slot, lifecycle, started, strays>>
    BY <1>7 DEF serviceVars, Inv, SupervisorTyped
  <2>2. \E failure \in {"invalidState", "unavailable"} : rejectAttempt(t, failure)
    BY <1>7
  <2> QED BY <1>4, <2>1, <2>2
<1> QED BY <1>2, <1>3, <1>4, <1>5, <1>6, <1>7 DEF start_selected_attempt

\* A receipt for a rejected start is kept only where no session was published.
LEMMA RejectionStep ==
    ASSUME Inv, UNCHANGED clientVars, NEW t \in Threads, recordRejection(t)
    PROVE  Inv'
<1>0. /\ work[t].at = "rejected" /\ work[t].command = "start" /\ work[t].request = R
      /\ R # 0 /\ R \in Nat /\ work[t].reply \in Outcomes /\ work[t].reply # "ok" /\ SlotFree
      /\ UNCHANGED <<alive, faults, slot, started, strays, revoked, R, asked, client,
                     stop, fresh>>
  BY AtPoint DEF recordRejection, Stands, StartPoints, serviceVars, clientVars, R, Inv,
     ClientTyped
<1>1. Moves(t, "replied", work[t].line, NoChild, work[t].reply) /\ Release(t)
  BY <1>0, Replies DEF recordRejection, Inv
<1>2. CASE Owns(work[t].request) \/ retains_start(work[t].request)
  <2>1. lifecycle' = lifecycle
    BY <1>2 DEF recordRejection
  <2>2. Steady(t, "replied", work[t].line, NoChild, work[t].reply)
    BY <1>0, <1>1, <2>1, AtPoint, LocksGiven
       DEF Steady, SteadyLocks, SteadyRecord, SteadyPoint, Stands, StartPoints, Session,
           Admitted, Terminating, EarlyPoints, UnclaimedPoints
  <2> QED BY <2>2, SteadyKeeps
<1>3. CASE ~(Owns(work[t].request) \/ retains_start(work[t].request))
  <2>1. slot = NoChild /\ lifecycle' = [lifecycle EXCEPT !.rejected = R]
    BY <1>0, <1>3 DEF recordRejection, Owns, Inv, SupervisorTyped
  <2>2. /\ Shaped(lifecycle') /\ lifecycle'.contained = lifecycle.contained
        /\ lifecycle'.rejected = R /\ lifecycle'.active = lifecycle.active
    BY <2>1 DEF Shaped, Inv, SupervisorTyped
  <2>3. Stands(work[t].command, "replied", work[t].line, NoChild, work[t].reply)
    BY <1>0 DEF Stands, StartPoints, Session, Nothing
  <2>4. Stations'
    BY <1>0, <1>1, <2>3, OthersStay DEF Inv
  <2>5. WorkTyped' /\ SupervisorTyped' /\ ClientTyped'
    <3>1. Shaped(lifecycle)' /\ lifecycle'.rejected \in 0 .. R
      BY <1>0, <2>2
    <3> QED BY <1>0, <1>1, <2>2, <3>1, LocksGiven
            DEF Inv, WorkTyped, Record, Moves, SupervisorTyped, ClientTyped
  <2>6. Locks'
    BY <1>0, <1>1, LocksGiven DEF Inv, Locks, Moves, Admitted, Terminating
  <2>7. Published /\ Published' /\ Over /\ Over'
    BY <1>0, <1>1, <2>1 DEF Inv, Children, Locks, Published, Early, IsEarly, EarlyPoints,
       Over, Moves
  <2>8. Children'
    BY <1>0, <1>1, <2>7 DEF Inv, Children, Moves, IsEarly, EarlyPoints
  <2>9. Endings'
    BY <2>7 DEF Endings
  <2>10. Syntheses'
    BY <1>0, <1>1, <2>2 DEF Inv, Syntheses, Moves
  <2>11. Conversation'
    BY <1>1, SteadyConversation
  <2> QED BY <2>4, <2>5, <2>6, <2>8, <2>9, <2>10, <2>11 DEF Inv
<1> QED BY <1>2, <1>3

-----------------------------------------------------------------------------
(* The supervisor, and the service *)

LEMMA SupervisorSteps ==
    ASSUME Inv, UNCHANGED clientVars, NEW t \in Threads, Step(t)
    PROVE  Inv'
BY StartSteps, AttemptStep, RejectionStep, TalkSteps, OperateSteps, ClaimStep, ChildEnds,
   CancelStep, ShutdownSteps, RemovalSteps
   DEF Step, Starting, Operating, Failing, Cancelling, ShuttingDown, Forcing

\* The service may die; nothing else of what is claimed is about it.
LEMMA ServiceSteps ==
    ASSUME Inv, ServiceNext, UNCHANGED <<supervisorVars, clientVars>>
    PROVE  Inv'
<1>1. alive /\ faults' \in 0 .. MaxFaults
  BY Faulty DEF ServiceNext, ServiceStep, handle_control, refuse, Reads, settle_active,
     endOfInput, fail_engine, crash, Inv, SupervisorTyped
<1>2. UNCHANGED <<work, admission, operation, slot, lifecycle, started, strays, revoked,
                  client, fresh, stop, asked, R>>
  BY DEF supervisorVars, clientVars, R
<1>3. WorkTyped' /\ SupervisorTyped' /\ ClientTyped'
  BY <1>1, <1>2 DEF Inv, WorkTyped, Record, SupervisorTyped, ClientTyped, Shaped
<1>4. (Published' <=> Published) /\ (Over' <=> Over)
  BY <1>2 DEF Published, Over, Early
<1>5. Children'
  BY <1>1, <1>2, <1>4 DEF Inv, Children
<1>6. Endings' /\ Syntheses' /\ Locks' /\ Stations'
  BY <1>2, <1>4 DEF Inv, Endings, Syntheses, Locks, Stations, Stationed, Stands, Named, Idle
<1>7. Conversation'
  BY <1>2 DEF Inv, Conversation, Awaited, Pending
<1> QED BY <1>3, <1>5, <1>6, <1>7 DEF Inv

-----------------------------------------------------------------------------
(* What the client gives its threads to do *)

\* The supervisor and the service take no part in a step of the client.
Apart == UNCHANGED <<serviceVars, admission, operation, slot, lifecycle, started, strays,
                     revoked>>

\* A command that is given, or none.
Given(w) ==
    /\ w.command \in Commands \cup {Nothing} /\ w.child \in {NoChild, R}
    /\ w.request \in {NoRequest, R}
    /\ w.line = 0 /\ w.session = NoChild /\ w.reply = Nothing
    /\ \/ w = Idle
       \/ w.at = "entering" /\ w.command # Nothing
    /\ w.command = "synthesize" => w.synthesis = asked.syntheses + 1
    /\ w.command # "synthesize" => w.synthesis \in 0 .. asked.syntheses

\* The thread was free or had replied, and has this to do now.
Turns(t, w) ==
    /\ work[t] = Idle \/ work[t].at = "replied"
    /\ work' = [work EXCEPT ![t] = w]
    /\ w = [command |-> w.command, child |-> w.child, request |-> w.request,
            synthesis |-> w.synthesis, at |-> w.at, line |-> w.line,
            session |-> w.session, reply |-> w.reply]

\* The client asks for no start, and owes no acknowledgement only if all is over.
Replying(t, w) ==
    /\ work' = work \/ (Turns(t, w) /\ Given(w) /\ Named(w))
    /\ w.command # "start"
    /\ Apart
    /\ asked'.starts = asked.starts
    /\ asked'.syntheses = IF w.command = "synthesize" THEN asked.syntheses + 1
                          ELSE asked.syntheses
    /\ stop'.heard => Over
    /\ client'.request = NoRequest => Over

LEMMA AloneInThread ==
    ASSUME WorkTyped, NEW t \in Threads, NEW w, Turns(t, w)
    PROVE  work'[t] = w /\ \A u \in Threads : u # t => work'[u] = work[u]
BY DEF WorkTyped, Turns

\* Nothing but a start begins a conversation.
LEMMA NoNewStart ==
    ASSUME Inv, NEW t \in Threads, NEW w, Replying(t, w)
    PROVE  /\ Pending("start")' => Pending("start")
           /\ Published => Published'
           /\ Over => Over'
           /\ UNCHANGED R
<1>1. \A u \in Threads : work'[u].command = "start" => work'[u] = work[u]
  BY AloneInThread DEF Inv, Replying
<1>2. Pending("start")' => Pending("start")
  BY <1>1 DEF Pending
<1>3. Published => Published'
  BY <1>1 DEF Published, Early, IsEarly, Replying, Apart
<1> QED BY <1>2, <1>3 DEF Over, Replying, Apart, R

LEMMA ReplyingTyped ==
    ASSUME Inv, NEW t \in Threads, NEW w, Replying(t, w)
    PROVE  WorkTyped' /\ SupervisorTyped'
<1>1. /\ UNCHANGED R /\ asked.syntheses \in Nat /\ asked'.syntheses \in Nat
      /\ asked.syntheses <= asked'.syntheses
  BY NoNewStart DEF Inv, ClientTyped, Replying
<1>2. WorkTyped'
  <2>1. \A u \in Threads : work[u] \in Record'
    BY <1>1 DEF Inv, WorkTyped, Record
  <2>2. CASE work' = work
    BY <2>1, <2>2 DEF Inv, WorkTyped
  <2>3. CASE Turns(t, w) /\ Given(w)
    <3>1. w.at \in Points /\ Nothing \in Outcomes /\ w.synthesis \in 0 .. asked'.syntheses
      BY <1>1, <2>3, Literals DEF Given, Idle, Replying
    <3>2. w \in Record'
      BY <1>1, <2>3, <3>1 DEF Given, Turns, Record
    <3>3. work' = [work EXCEPT ![t] = w]
      BY <2>3 DEF Turns
    <3> QED BY <2>1, <3>2, <3>3 DEF Inv, WorkTyped
  <2> QED BY <2>2, <2>3 DEF Replying
<1>3. SupervisorTyped'
  BY <1>1 DEF Inv, SupervisorTyped, Replying, Apart, serviceVars, Shaped
<1> QED BY <1>2, <1>3

\* What remains to be shown of a client's step is about the client.
LEMMA ReplyingKeeps ==
    ASSUME Inv, NEW t \in Threads, NEW w, Replying(t, w), ClientTyped', Conversation'
    PROVE  Inv'
<1>1. /\ Apart /\ (Published => Published') /\ (Over => Over') /\ UNCHANGED R
      /\ UNCHANGED <<alive, slot, started, strays, admission, lifecycle, revoked>>
  BY NoNewStart DEF Replying, Apart, serviceVars
<1>2. \A u \in Threads :
         \/ work'[u] = work[u]
         \/ /\ u = t /\ work'[u] = w /\ Given(w) /\ Named(w) /\ w.command # "start"
            /\ w.at \in {"idle", "entering"} /\ Stationed(w)
  BY AloneInThread DEF Inv, Replying, Given, Stationed, Stands, StartPoints, Session, Idle,
     Nothing
<1>3. Stations'
  <2>1. \A u \in Threads : Stationed(work'[u]) /\ Named(work'[u])
    BY <1>2 DEF Inv, Stations
  <2> QED BY <2>1 DEF Stations, Named
<1>4. Locks'
  BY <1>1, <1>2 DEF Inv, Locks, Admitted, Terminating
<1>5. Children'
  BY <1>1, <1>2 DEF Inv, Children, IsEarly, Given
<1>6. Endings'
  BY <1>1, <1>2 DEF Inv, Endings, Given, Nothing, Replying
<1>7. Syntheses'
  <2>1. /\ \A u \in Threads : work[u].synthesis \in 0 .. asked.syntheses
        /\ revoked \subseteq 1 .. asked.syntheses
        /\ lifecycle.active \in 0 .. asked.syntheses /\ asked.syntheses \in Nat
    BY DEF Inv, WorkTyped, Record, SupervisorTyped, ClientTyped
  <2>2. \A u \in Threads :
           work'[u].command = "synthesize" =>
              \/ work'[u] = work[u]
              \/ u = t /\ work'[u].synthesis = asked.syntheses + 1
    BY <1>2 DEF Given
  <2> QED BY <1>1, <2>1, <2>2 DEF Inv, Syntheses, NoSynthesis
<1> QED BY <1>3, <1>4, <1>5, <1>6, <1>7, ReplyingTyped DEF Inv

\* The commands of the client, as records.
LEMMA Commanding ==
    ASSUME NEW t \in Threads, NEW w, Give(t, w),
           w = [command |-> w.command, child |-> w.child, request |-> w.request,
                synthesis |-> w.synthesis, at |-> w.at, line |-> w.line,
                session |-> w.session, reply |-> w.reply]
    PROVE  Turns(t, w) /\ Apart
BY DEF Give, Turns, Apart

LEMMA Taking ==
    ASSUME NEW t \in Threads, Take(t)
    PROVE  Turns(t, Idle) /\ Apart
BY DEF Take, Turns, Apart, Idle

LEMMA IdleGiven ==
    ASSUME Inv
    PROVE  Given(Idle) /\ Named(Idle) /\ Idle.command = Nothing /\ Nothing # "start"
           /\ Nothing # "synthesize"
<1>1. asked.syntheses \in Nat
  BY DEF Inv, ClientTyped
<1>2. /\ Idle.command = Nothing /\ Idle.child = NoChild /\ Idle.request = NoRequest
      /\ Idle.line = 0 /\ Idle.session = NoChild /\ Idle.reply = Nothing
      /\ Idle.synthesis = NoSynthesis
  BY DEF Idle
<1>3. Nothing # "start" /\ Nothing # "synthesize" /\ Nothing # "prepare"
      /\ Nothing # "shutdown"
  BY DEF Nothing
<1>4. NoSynthesis \in 0 .. asked.syntheses
  BY <1>1 DEF NoSynthesis
<1>5. Given(Idle)
  BY <1>2, <1>3, <1>4 DEF Given
<1>6. Named(Idle)
  BY <1>2, <1>3 DEF Named
<1> QED BY <1>2, <1>3, <1>5, <1>6

-----------------------------------------------------------------------------
(* Replies reach the client *)

LEMMA Answering ==
    ASSUME Inv, NEW t \in Threads, Take(t), UNCHANGED asked,
           stop'.heard => Over, client'.request = NoRequest => Over
    PROVE  /\ Replying(t, Idle)
           /\ work'[t] = Idle /\ \A u \in Threads : u # t => work'[u] = work[u]
           /\ Pending("start")' => Pending("start")
           /\ UNCHANGED R
<1>1. Replying(t, Idle)
  BY Taking, IdleGiven DEF Replying
<1>2. Turns(t, Idle)
  BY Taking
<1> QED BY <1>1, <1>2, AloneInThread, NoNewStart DEF Inv

\* What is known of the fresh thread, and of a stop.
LEMMA Freshness ==
    ASSUME Inv
    PROVE  /\ \A t \in fresh : fresh = {t} /\ t \in Threads /\ work[t] # Idle
           /\ \A t \in fresh :
                 \/ work[t].command = "start" /\ client.state = "starting"
                 \/ work[t].command = "prepare" /\ client.state = "unloaded"
                 \/ work[t].command = "synthesize" /\ client.state = "generating"
                 \/ work[t].command = "cancel" /\ client.state = "cancelling"
           /\ client.state \in {"stopped", "stopping", "failed", "ready"} => fresh = {}
           /\ stop # NoStop => fresh = {} /\ client.state = "stopping"
<1>1. \A t \in fresh : Awaited(work[t]) /\ fresh = {t} /\ t \in Threads
  BY DEF Inv, Conversation, ClientTyped
<1>2. ASSUME NEW t \in fresh
      PROVE  \/ work[t].command = "start" /\ client.state = "starting"
             \/ work[t].command = "prepare" /\ client.state = "unloaded"
             \/ work[t].command = "synthesize" /\ client.state = "generating"
             \/ work[t].command = "cancel" /\ client.state = "cancelling"
  BY <1>1 DEF Awaited
<1>3. stop # NoStop => client.state = "stopping"
  BY DEF Inv, Conversation
<1> QED BY <1>1, <1>2, <1>3 DEF Idle, Nothing

\* A start is answered.
LEMMA StartAnswered ==
    ASSUME Inv, NEW t \in Threads, startService(t)
    PROVE  Inv'
<1>0. /\ work[t].command = "start" /\ Take(t) /\ work[t].at = "replied"
      /\ UNCHANGED <<stop, asked>> /\ fresh' = fresh \ {t}
      /\ client' = [client EXCEPT
                       !.service = IF work[t].reply = "ok" THEN work[t].session ELSE @,
                       !.state = CASE t \notin fresh -> @
                                   [] t \in fresh /\ work[t].reply = "ok" -> "unloaded"
                                   [] OTHER -> "failed"]
  BY DEF startService, Answered, Take
<1>1. /\ client'.request = client.request /\ client'.active = client.active
      /\ client'.sink = client.sink
      /\ client' = [state |-> client'.state, service |-> client'.service,
                    request |-> client'.request, active |-> client'.active,
                    sink |-> client'.sink]
      /\ client'.service = IF work[t].reply = "ok" THEN work[t].session ELSE client.service
      /\ t \notin fresh => client'.state = client.state
      /\ t \in fresh /\ work[t].reply = "ok" => client'.state = "unloaded"
      /\ t \in fresh /\ work[t].reply # "ok" => client'.state = "failed"
  BY <1>0 DEF Inv, ClientTyped
<1>2. /\ Replying(t, Idle)
      /\ work'[t] = Idle /\ \A u \in Threads : u # t => work'[u] = work[u]
      /\ Pending("start")' => Pending("start")
      /\ UNCHANGED R
  BY <1>0, <1>1, Answering DEF Inv, Endings
<1>3. work[t].reply = "ok" => work[t].session # NoChild
  BY <1>0, AtPoint DEF Stands
<1>4. ClientTyped'
  <2>1. client'.service \in {NoChild, R} /\ client'.state \in ClientStates
    BY <1>0, <1>1, AtPoint DEF Inv, ClientTyped, ClientStates
  <2> QED BY <1>0, <1>1, <1>2, <2>1 DEF Inv, ClientTyped
<1>5. ~Pending("start")'
  <2>1. \A u \in Threads : work'[u].command # "start"
    BY <1>0, <1>2, IdleGiven DEF Inv, Locks
  <2> QED BY <2>1 DEF Pending
<1>6. client.service = NoChild /\ client.request # NoRequest
  BY <1>0 DEF Inv, Conversation, Pending
<1>7. Conversation'
  <2>1. CASE t \in fresh
    <3>1. fresh = {t} /\ client.state = "starting" /\ stop = NoStop
          /\ client.active = NoSynthesis
      BY <1>0, <2>1, Freshness DEF Inv, Conversation
    <3>2. /\ fresh' = {} /\ client'.active = NoSynthesis /\ stop' = NoStop
          /\ client'.state \in {"unloaded", "failed"}
          /\ client'.state = "unloaded" => client'.service # NoChild
      BY <1>0, <1>1, <1>3, <2>1, <3>1
    <3> QED BY <1>5, <3>2 DEF Conversation
  <2>2. CASE t \notin fresh
    <3>1. fresh' = fresh /\ client'.state = client.state
      BY <1>0, <1>1, <2>2
    <3>2. \A u \in fresh : work'[u] = work[u]
      BY <1>2, <2>2 DEF Inv, ClientTyped
    <3> QED BY <1>0, <1>1, <1>5, <1>6, <3>1, <3>2 DEF Inv, Conversation, Awaited
  <2> QED BY <2>1, <2>2
<1> QED BY <1>2, <1>4, <1>7, ReplyingKeeps

\* Of an answer: the service is the same, the state and the retained sound may
\* be others, and the thread is not fresh any more.
LEMMA AnswerKeeps ==
    ASSUME Inv, NEW t \in Threads, Take(t), work[t].command # "start",
           UNCHANGED <<stop, asked>>, fresh' = fresh \ {t},
           client' = [state |-> client'.state, service |-> client.service,
                      request |-> client.request, active |-> client'.active,
                      sink |-> client'.sink],
           client'.state \in ClientStates, client'.active \in 0 .. asked.syntheses,
           client'.sink \in 0 .. asked.syntheses,
           \/ client'.state = client.state /\ client'.active = client.active
           \/ /\ t \in fresh /\ client'.active = NoSynthesis
              /\ client.state \in {"unloaded", "generating"}
    PROVE  Inv'
<1>1. /\ Replying(t, Idle)
      /\ work'[t] = Idle /\ \A u \in Threads : u # t => work'[u] = work[u]
      /\ Pending("start")' => Pending("start")
      /\ UNCHANGED R
  BY Answering DEF Inv, Endings
<1>2. ClientTyped'
  BY <1>1 DEF Inv, ClientTyped
<1>3. Conversation'
  <2>1. CASE client'.state = client.state /\ client'.active = client.active
    <3>1. \A u \in fresh' : u \in fresh /\ work'[u] = work[u]
      BY <1>1 DEF Inv, ClientTyped
    <3> QED BY <1>1, <2>1, <3>1 DEF Inv, Conversation, Awaited
  <2>2. CASE /\ t \in fresh /\ client'.active = NoSynthesis
             /\ client.state \in {"unloaded", "generating"}
    <3>1. fresh' = {} /\ stop' = NoStop /\ client.service # NoChild /\ ~Pending("start")
      BY <2>2, Freshness DEF Inv, Conversation
    <3>2. client'.service # NoChild /\ ~Pending("start")'
      BY <1>1, <3>1
    <3> QED BY <2>2, <3>1, <3>2 DEF Conversation
  <2> QED BY <2>1, <2>2
<1> QED BY <1>1, <1>2, <1>3, ReplyingKeeps

LEMMA WorkAnswered ==
    ASSUME Inv, NEW t \in Threads, prepared(t) \/ synthesized(t)
    PROVE  Inv'
<1>0. /\ client = [state |-> client.state, service |-> client.service,
                   request |-> client.request, active |-> client.active,
                   sink |-> client.sink]
      /\ client.state \in ClientStates
      /\ client.active \in 0 .. asked.syntheses /\ client.sink \in 0 .. asked.syntheses
      /\ NoSynthesis \in 0 .. asked.syntheses
  BY DEF Inv, ClientTyped, NoSynthesis
<1>1. CASE prepared(t)
  <2>1. /\ work[t].command = "prepare" /\ Take(t) /\ UNCHANGED <<stop, asked>>
        /\ fresh' = fresh \ {t}
        /\ client' = [client EXCEPT !.state =
                         IF t \in fresh /\ work[t].reply = "ok" THEN "ready" ELSE @]
    BY <1>1 DEF prepared, Answered
  <2>2. /\ client' = [state |-> client'.state, service |-> client.service,
                      request |-> client.request, active |-> client'.active,
                      sink |-> client'.sink]
        /\ client'.active = client.active /\ client'.sink = client.sink
        /\ client'.state = IF t \in fresh /\ work[t].reply = "ok" THEN "ready"
                           ELSE client.state
    BY <1>0, <2>1
  <2>3. t \in fresh => client.state = "unloaded" /\ client.active = NoSynthesis
    BY <2>1, Freshness DEF Inv, Conversation
  <2> QED BY <1>0, <2>1, <2>2, <2>3, AnswerKeeps DEF ClientStates
<1>2. CASE synthesized(t)
  <2>1. /\ work[t].command = "synthesize" /\ Take(t) /\ UNCHANGED <<stop, asked>>
        /\ fresh' = fresh \ {t}
        /\ \/ client' = client
           \/ /\ t \in fresh
              /\ client' = [client EXCEPT !.sink = client.active, !.active = NoSynthesis,
                                          !.state = "ready"]
           \/ /\ t \in fresh
              /\ client' = [client EXCEPT !.active = NoSynthesis, !.state = "failed"]
    BY <1>2 DEF synthesized, Answered
  <2>2. t \in fresh => client.state = "generating"
    BY <2>1, Freshness
  <2>3. CASE client' = client
    BY <1>0, <2>1, <2>3, AnswerKeeps
  <2>4. CASE /\ t \in fresh
             /\ client' = [client EXCEPT !.sink = client.active, !.active = NoSynthesis,
                                         !.state = "ready"]
    <3>1. /\ client' = [state |-> "ready", service |-> client.service,
                        request |-> client.request, active |-> NoSynthesis,
                        sink |-> client.active]
      BY <1>0, <2>4
    <3> QED BY <1>0, <2>1, <2>2, <2>4, <3>1, AnswerKeeps DEF ClientStates
  <2>5. CASE /\ t \in fresh
             /\ client' = [client EXCEPT !.active = NoSynthesis, !.state = "failed"]
    <3>1. /\ client' = [state |-> "failed", service |-> client.service,
                        request |-> client.request, active |-> NoSynthesis,
                        sink |-> client.sink]
      BY <1>0, <2>5
    <3> QED BY <1>0, <2>1, <2>2, <2>5, <3>1, AnswerKeeps DEF ClientStates
  <2> QED BY <2>1, <2>3, <2>4, <2>5
<1> QED BY <1>1, <1>2

-----------------------------------------------------------------------------
(* The replies to a stop *)

\* While a stop is under way nothing is fresh and nothing is synthesized.
LEMMA WhileStopping ==
    ASSUME Inv, stop # NoStop
    PROVE  /\ fresh = {} /\ client.state = "stopping" /\ client.active = NoSynthesis
           /\ stop.heard => Over
           /\ client = [state |-> client.state, service |-> client.service,
                        request |-> client.request, active |-> client.active,
                        sink |-> client.sink]
           /\ client.service # NoChild => ~Pending("start")
           /\ stop.at \in {"acknowledging", "closing"} => ~Pending("start")
BY Freshness DEF Inv, Conversation, Endings, ClientTyped

\* Stops by name.
LEMMA NothingStops ==
    /\ \A at \in StopPoints :
          [NoStop EXCEPT !.at = at] = [at |-> at, heard |-> FALSE, child |-> NoChild]
    /\ NoStop = [at |-> Nothing, heard |-> FALSE, child |-> NoChild]
    /\ NoStop \in [at : StopPoints, heard : BOOLEAN, child : {NoChild, R}]
    /\ \A at \in StopPoints :
          [at |-> at, heard |-> FALSE, child |-> NoChild]
             \in [at : StopPoints, heard : BOOLEAN, child : {NoChild, R}]
    /\ {"interrupting", "acknowledging", "closing"} \subseteq StopPoints
<1>1. ASSUME NEW at \in StopPoints, NEW s, s = [NoStop EXCEPT !.at = at]
      PROVE  s = [at |-> at, heard |-> FALSE, child |-> NoChild]
  BY <1>1 DEF NoStop
<1>2. \A at \in StopPoints :
         [at |-> at, heard |-> FALSE, child |-> NoChild]
            \in [at : StopPoints, heard : BOOLEAN, child : {NoChild, R}]
  OBVIOUS
<1>3. Nothing \in StopPoints /\ {"interrupting", "acknowledging", "closing"} \subseteq StopPoints
  BY DEF StopPoints
<1> QED BY <1>1, <1>2, <1>3 DEF NoStop

\* A client that is stopped for good.
LEMMA StopEnds ==
    ASSUME Inv, NEW t \in Threads, Replying(t, Idle), UNCHANGED asked,
           fresh' = {}, stop' = NoStop,
           client.state \in {"stopping", "cancelling"},
           client' = StoppedBy([client EXCEPT !.request = NoRequest]),
           ~Pending("start")
    PROVE  Inv'
<1>1. /\ client' = [state |-> "stopped", service |-> NoChild, request |-> NoRequest,
                    active |-> client.active, sink |-> client.sink]
      /\ client.active = NoSynthesis
  BY DEF Inv, ClientTyped, StoppedBy, Conversation
<1>2. UNCHANGED R /\ (Pending("start")' => Pending("start"))
  BY NoNewStart
<1>3. ClientTyped'
  BY <1>1, <1>2 DEF Inv, ClientTyped, ClientStates, StopPoints, NoStop
<1>4. Conversation'
  BY <1>1, <1>2 DEF Conversation, NoChild
<1> QED BY <1>3, <1>4, ReplyingKeeps

\* The reply of a stop is believed only if it is one of success.
LEMMA StopAnswered ==
    ASSUME Inv, NEW t \in Threads,
           interruptionAnswered(t) \/ startAcknowledged(t) \/ serviceStopped(t)
    PROVE  Inv'
<1>0. /\ work[t].command = "shutdown" /\ Take(t) /\ work[t].at = "replied"
      /\ UNCHANGED <<fresh, asked>>
      /\ stop.at \in {"interrupting", "acknowledging", "closing"}
      /\ stop # NoStop
  BY DEF interruptionAnswered, startAcknowledged, serviceStopped, Answered, Take, NoStop,
     Nothing
<1>1. work[t].reply = "ok" => Over
  BY <1>0 DEF Inv, Endings
<1>2. CASE interruptionAnswered(t)
  <2>1. /\ client' = client /\ work[t].session \in {NoChild, R}
        /\ \/ stop' = NoStop
           \/ stop' = [at |-> "joining", heard |-> work[t].reply = "ok",
                       child |-> work[t].session]
    BY <1>0, <1>2, AtPoint DEF interruptionAnswered
  <2>0. stop'.heard => Over
    <3>1. CASE work[t].reply = "ok"
      BY <1>1, <3>1
    <3>2. CASE work[t].reply # "ok"
      <4>1. (work[t].reply = "ok") = FALSE
        BY <3>2
      <4>2. CASE stop' = NoStop
        BY <4>2, NothingStops
      <4>3. CASE stop' = [at |-> "joining", heard |-> work[t].reply = "ok",
                          child |-> work[t].session]
        <5>1. stop' = [at |-> "joining", heard |-> FALSE, child |-> work[t].session]
          BY <4>1, <4>3
        <5> QED BY <5>1
      <4> QED BY <2>1, <4>2, <4>3
    <3> QED BY <3>1, <3>2
  <2>2. stop'.heard => Over
    BY <2>0
  <2>3. /\ Replying(t, Idle) /\ UNCHANGED R
        /\ Pending("start")' => Pending("start")
    BY <1>0, <2>1, <2>2, Answering DEF Inv, Endings
  <2>4. stop' \in [at : StopPoints, heard : BOOLEAN, child : {NoChild, R}]
    <3>1. CASE stop' = NoStop
      BY <3>1, NothingStops
    <3>2. CASE stop' = [at |-> "joining", heard |-> work[t].reply = "ok",
                        child |-> work[t].session]
      <4>1. (work[t].reply = "ok") \in BOOLEAN /\ "joining" \in StopPoints
        BY DEF StopPoints
      <4> QED BY <2>1, <3>2, <4>1
    <3> QED BY <2>1, <3>1, <3>2
  <2>5. ClientTyped'
    BY <1>0, <2>1, <2>3, <2>4 DEF Inv, ClientTyped
  <2>6. stop'.at \notin {"acknowledging", "closing"}
    BY <2>1 DEF NoStop, Nothing
  <2>7. Conversation'
    BY <1>0, <2>1, <2>3, <2>6, WhileStopping DEF Inv, Conversation
  <2> QED BY <2>3, <2>5, <2>7, ReplyingKeeps
<1>3. CASE startAcknowledged(t) \/ serviceStopped(t)
  <2>1. /\ stop' = NoStop /\ ~Pending("start")
        /\ client' = IF work[t].reply = "ok"
                     THEN StoppedBy([client EXCEPT !.request = NoRequest]) ELSE client
    BY <1>0, <1>3, WhileStopping DEF startAcknowledged, serviceStopped
  <2>2. CASE work[t].reply = "ok"
    <3>1. Replying(t, Idle)
      BY <1>0, <1>1, <2>1, <2>2, Answering DEF NoStop
    <3> QED BY <1>0, <2>1, <2>2, <3>1, WhileStopping, StopEnds
  <2>3. CASE work[t].reply # "ok"
    <3>1. client' = client /\ stop' = NoStop
      BY <2>1, <2>3
    <3>2. /\ Replying(t, Idle) /\ UNCHANGED R
          /\ Pending("start")' => Pending("start")
      BY <1>0, <3>1, Answering DEF Inv, Endings, NoStop
    <3>3. ClientTyped'
      BY <1>0, <3>1, <3>2 DEF Inv, ClientTyped, StopPoints, NoStop
    <3>4. Conversation'
      BY <1>0, <2>1, <3>1, <3>2, WhileStopping DEF Inv, Conversation, NoStop, Nothing
    <3> QED BY <3>2, <3>3, <3>4, ReplyingKeeps
  <2> QED BY <2>2, <2>3
<1> QED BY <1>2, <1>3

LEMMA CancelAnswered ==
    ASSUME Inv, NEW t \in Threads, generationCancelled(t)
    PROVE  Inv'
<1>0. /\ work[t].command = "cancel" /\ Take(t) /\ work[t].at = "replied"
      /\ UNCHANGED <<stop, asked>> /\ fresh' = fresh \ {t}
      /\ client' = IF t \in fresh /\ work[t].reply = "ok"
                   THEN StoppedBy([client EXCEPT !.request = NoRequest]) ELSE client
  BY DEF generationCancelled, Answered, Take
<1>1. CASE t \in fresh /\ work[t].reply = "ok"
  <2>1. Over
    BY <1>0, <1>1 DEF Inv, Endings
  <2>2. /\ fresh = {t} /\ client.state = "cancelling" /\ stop = NoStop
        /\ ~Pending("start")
    BY <1>0, <1>1, Freshness DEF Inv, Conversation
  <2>3. Replying(t, Idle)
    BY <1>0, <2>1, Answering
  <2>4. fresh' = {} /\ stop' = NoStop
    BY <1>0, <2>2
  <2> QED BY <1>0, <1>1, <2>2, <2>3, <2>4, StopEnds
<1>2. CASE ~(t \in fresh /\ work[t].reply = "ok")
  <2>1. client' = client
    BY <1>0, <1>2
  <2> QED BY <1>0, <2>1, AnswerKeeps DEF Inv, ClientTyped
<1> QED BY <1>1, <1>2

LEMMA RemovalAnswered ==
    ASSUME Inv, NEW t \in Threads, chatterboxRemoved(t)
    PROVE  Inv'
<1>1. work[t].command = "remove" /\ Take(t) /\ UNCHANGED clientVars
  BY DEF chatterboxRemoved, Answered
<1>2. t \notin fresh
  BY <1>1, Freshness
<1>3. fresh' = fresh \ {t} /\ client' = client /\ UNCHANGED <<stop, asked>>
  BY <1>1, <1>2 DEF clientVars
<1> QED BY <1>1, <1>3, AnswerKeeps DEF Inv, ClientTyped

-----------------------------------------------------------------------------
(* The client stops *)

\* A stop is asked for: a shutdown is given to a thread, or there is nothing
\* to be shut down.
Stopping(t, c) ==
    \/ /\ \E w : /\ Turns(t, w) /\ Given(w) /\ Named(w)
                 /\ w.command = "shutdown"
       /\ Apart
       /\ \/ stop' = [NoStop EXCEPT !.at = "interrupting"]
          \/ ~Pending("start") /\ stop' = [NoStop EXCEPT !.at = "acknowledging"]
          \/ ~Pending("start") /\ stop' = [NoStop EXCEPT !.at = "closing"]
       /\ client' = [c EXCEPT !.state = "stopping"]
    \/ /\ work' = work /\ Apart /\ stop' = NoStop /\ client' = StoppedBy(c)

\* A command, before it is told what it is about.
LEMMA CommandIs ==
    ASSUME NEW name
    PROVE  Command(name) = [command |-> name, child |-> NoChild, request |-> NoRequest,
                            synthesis |-> NoSynthesis, at |-> "entering", line |-> 0,
                            session |-> NoChild, reply |-> Nothing]
<1>1. ASSUME NEW w, w = Command(name)
      PROVE  w = [command |-> name, child |-> NoChild, request |-> NoRequest,
                     synthesis |-> NoSynthesis, at |-> "entering", line |-> 0,
                     session |-> NoChild, reply |-> Nothing]
  BY <1>1 DEF Command, Idle
<1> QED BY <1>1

\* A shutdown names a request or a child.
LEMMA ShutdownGiven ==
    ASSUME Inv, NEW t \in Threads
    PROVE  /\ \A request \in {NoRequest, R} : 
                 request # NoRequest
                 /\ Give(t, [Command("shutdown") EXCEPT !.request = request])
                 => Apart /\ \E w : /\ Turns(t, w) /\ Given(w) /\ Named(w)
                                    /\ w.command = "shutdown"
           /\ \A child \in {NoChild, R} : 
                 child # NoChild
                 /\ Give(t, [Command("shutdown") EXCEPT !.child = child])
                 => Apart /\ \E w : /\ Turns(t, w) /\ Given(w) /\ Named(w)
                                    /\ w.command = "shutdown"
<1>0. asked.syntheses \in Nat /\ "shutdown" \in Commands /\ Nothing # "shutdown"
  BY DEF Inv, ClientTyped, Commands, Nothing
<1>1. ASSUME NEW request \in {NoRequest, R}, request # NoRequest,
             Give(t, [Command("shutdown") EXCEPT !.request = request])
      PROVE  Apart /\ \E w : /\ Turns(t, w) /\ Given(w) /\ Named(w)
                             /\ w.command = "shutdown"
  <2> DEFINE w == [Command("shutdown") EXCEPT !.request = request]
  <2>1. w = [command |-> "shutdown", child |-> NoChild, request |-> request,
             synthesis |-> NoSynthesis, at |-> "entering", line |-> 0,
             session |-> NoChild, reply |-> Nothing]
    BY CommandIs
  <2>2. Give(t, w)
    BY <1>1
  <2> HIDE DEF w
  <2>3. Given(w) /\ Named(w)
    BY <1>0, <1>1, <2>1 DEF Given, Named, NoSynthesis
  <2> QED BY <2>1, <2>2, <2>3, Commanding
<1>2. ASSUME NEW child \in {NoChild, R}, child # NoChild,
             Give(t, [Command("shutdown") EXCEPT !.child = child])
      PROVE  Apart /\ \E w : /\ Turns(t, w) /\ Given(w) /\ Named(w)
                             /\ w.command = "shutdown"
  <2> DEFINE w == [Command("shutdown") EXCEPT !.child = child]
  <2>1. w = [command |-> "shutdown", child |-> child, request |-> NoRequest,
             synthesis |-> NoSynthesis, at |-> "entering", line |-> 0,
             session |-> NoChild, reply |-> Nothing]
    BY CommandIs
  <2>2. Give(t, w)
    BY <1>2
  <2> HIDE DEF w
  <2>3. Given(w) /\ Named(w)
    BY <1>0, <1>2, <2>1 DEF Given, Named, NoSynthesis
  <2> QED BY <2>1, <2>2, <2>3, Commanding
<1> QED BY <1>1, <1>2

LEMMA Continues ==
    ASSUME Inv, NEW t \in Threads, NEW c, continueStop(c, t), ~Pending("start"),
           c.service \in {NoChild, R}, c.request \in {NoRequest, R}
    PROVE  Stopping(t, c)
<1>1. CASE c.service = NoChild /\ c.request # NoRequest
  <2>1. /\ Give(t, [Command("shutdown") EXCEPT !.request = c.request])
        /\ stop' = [NoStop EXCEPT !.at = "acknowledging"]
        /\ client' = [c EXCEPT !.state = "stopping"]
    BY <1>1 DEF continueStop
  <2> QED BY <1>1, <2>1, ShutdownGiven DEF Stopping
<1>2. CASE c.service # NoChild /\ c.state # "stopped"
  <2>1. /\ Give(t, [Command("shutdown") EXCEPT !.child = c.service])
        /\ stop' = [NoStop EXCEPT !.at = "closing"]
        /\ client' = [c EXCEPT !.state = "stopping"]
    BY <1>2 DEF continueStop
  <2> QED BY <1>2, <2>1, ShutdownGiven DEF Stopping
<1>3. CASE /\ ~(c.service = NoChild /\ c.request # NoRequest)
           /\ ~(c.service # NoChild /\ c.state # "stopped")
  <2>1. stop' = NoStop /\ client' = StoppedBy(c) /\ UNCHANGED <<serviceVars, supervisorVars>>
    BY <1>3 DEF continueStop
  <2> QED BY <2>1 DEF Stopping, Apart, supervisorVars
<1> QED BY <1>1, <1>2, <1>3

\* What is left of the client when a stop is asked for.
LEMMA StoppingKeeps ==
    ASSUME Inv, NEW t \in Threads, NEW c, Stopping(t, c), UNCHANGED asked, fresh' = {},
           c = [state |-> c.state, service |-> c.service, request |-> c.request,
                active |-> c.active, sink |-> c.sink],
           c.active = NoSynthesis,
           c.service \in {NoChild, client.service},
           c.request \in {NoRequest, client.request}, c.sink \in {NoSynthesis, client.sink},
           c.request = NoRequest => Over,
           c.request = NoRequest => ~Pending("start")
    PROVE  Inv'
<1>0. /\ client.service \in {NoChild, R} /\ client.request \in {NoRequest, R}
      /\ client.sink \in 0 .. asked.syntheses /\ NoSynthesis \in 0 .. asked.syntheses
      /\ client.service # NoChild => ~Pending("start")
      /\ Pending("start") => client.request # NoRequest
  BY DEF Inv, ClientTyped, NoSynthesis, Conversation
<1>1. /\ ~stop'.heard /\ stop'.child = NoChild
      /\ stop' \in [at : StopPoints, heard : BOOLEAN, child : {NoChild, R}]
      /\ stop'.at \in {"acknowledging", "closing"} => ~Pending("start")
      /\ stop' # NoStop => client' = [c EXCEPT !.state = "stopping"]
  <2>1. \/ /\ \E at \in StopPoints : stop' = [at |-> at, heard |-> FALSE, child |-> NoChild]
           /\ stop'.at \in {"acknowledging", "closing"} => ~Pending("start")
           /\ client' = [c EXCEPT !.state = "stopping"]
        \/ stop' = NoStop
    BY NothingStops DEF Stopping
  <2>2. Nothing \notin {"acknowledging", "closing"}
    BY DEF Nothing
  <2>3. stop' = NoStop => stop'.heard = FALSE /\ stop'.child = NoChild /\ stop'.at = Nothing
    BY NothingStops
  <2>4. /\ stop'.heard = FALSE /\ stop'.child = NoChild
        /\ stop' \in [at : StopPoints, heard : BOOLEAN, child : {NoChild, R}]
    BY <2>1, <2>3, NothingStops, ZenonT(60)
  <2> QED BY <2>1, <2>2, <2>3, <2>4
<1>2. \E state \in {"stopping", "stopped"}, s \in {NoChild, c.service} :
         client' = [state |-> state, service |-> s, request |-> c.request,
                    active |-> NoSynthesis, sink |-> c.sink]
  <2>1. CASE client' = [c EXCEPT !.state = "stopping"]
    <3>1. client' = [state |-> "stopping", service |-> c.service, request |-> c.request,
                     active |-> c.active, sink |-> c.sink]
      BY <2>1
    <3> QED BY <3>1
  <2>2. CASE client' = StoppedBy(c)
    <3>1. client' = [state |-> "stopped", service |-> NoChild, request |-> c.request,
                     active |-> NoSynthesis, sink |-> c.sink]
      <4>1. ASSUME NEW d, d = StoppedBy(c)
      PROVE  d = [state |-> "stopped", service |-> NoChild, request |-> c.request,
                           active |-> NoSynthesis, sink |-> c.sink]
        BY <4>1 DEF StoppedBy
      <4> QED BY <2>2, <4>1
    <3> QED BY <3>1
  <2> QED BY <2>1, <2>2 DEF Stopping
<1>3. \E w : Replying(t, w)
  <2>1. client'.request = NoRequest => Over
    BY <1>2
  <2>2. CASE work' = work /\ Apart
    <3>1. Replying(t, Idle)
      BY <1>1, <2>1, <2>2, IdleGiven DEF Replying
    <3> QED BY <3>1
  <2>3. ASSUME NEW w, Turns(t, w), Given(w), Named(w), w.command = "shutdown", Apart
        PROVE  Replying(t, w)
    BY <1>1, <2>1, <2>3 DEF Replying
  <2> QED BY <2>2, <2>3 DEF Stopping
<1>4. UNCHANGED R /\ (Pending("start")' => Pending("start"))
  BY <1>3, NoNewStart
<1>5. ClientTyped'
  BY <1>0, <1>1, <1>2, <1>4 DEF Inv, ClientTyped, ClientStates
<1>6. Conversation'
  <2>1. /\ client'.state \in {"stopping", "stopped"} /\ client'.active = NoSynthesis
        /\ client'.service \in {NoChild, client.service} /\ client'.request = c.request
        /\ stop' # NoStop => client'.state = "stopping"
    BY <1>1, <1>2
  <2>2. client'.service # NoChild => ~Pending("start")'
    BY <1>0, <1>4, <2>1
  <2>3. Pending("start")' => client'.request # NoRequest
    BY <1>4, <2>1
  <2>4. stop'.at \in {"acknowledging", "closing"} => ~Pending("start")'
    BY <1>1, <1>4
  <2> QED BY <2>1, <2>2, <2>3, <2>4 DEF Conversation
<1> QED BY <1>3, <1>5, <1>6, ReplyingKeeps

LEMMA InvalidatedIs ==
    ASSUME Inv
    PROVE  Invalidated = [state |-> client.state, service |-> client.service,
                          request |-> client.request, active |-> NoSynthesis,
                          sink |-> NoSynthesis]
<1>1. ASSUME NEW c, c = Invalidated
      PROVE  c = [state |-> client.state, service |-> client.service,
                  request |-> client.request, active |-> NoSynthesis,
                  sink |-> NoSynthesis]
  BY <1>1 DEF Inv, ClientTyped, Invalidated
<1> QED BY <1>1

\* A shutdown begins a stop of what the client has.
LEMMA ShutdownStops ==
    ASSUME Inv, NEW t \in Threads, shutdown(t)
    PROVE  /\ Stopping(t, Invalidated) /\ fresh' = {} /\ UNCHANGED asked
           /\ work[t] = Idle \/ work' = work
<1> DEFINE c == Invalidated
<1>1. /\ c = [state |-> client.state, service |-> client.service,
              request |-> client.request, active |-> NoSynthesis, sink |-> NoSynthesis]
      /\ client.service \in {NoChild, R} /\ client.request \in {NoRequest, R}
      /\ client.request = NoRequest => ~Pending("start")
  <2>1. c = [state |-> client.state, service |-> client.service,
             request |-> client.request, active |-> NoSynthesis, sink |-> NoSynthesis]
    BY InvalidatedIs
  <2>2. client.service \in {NoChild, R} /\ client.request \in {NoRequest, R}
    BY DEF Inv, ClientTyped
  <2>3. client.request = NoRequest => ~Pending("start")
    BY DEF Inv, Conversation
  <2> QED BY <2>1, <2>2, <2>3
<1>2. fresh' = {} /\ UNCHANGED asked /\ stopService(c, t)
  BY DEF shutdown
<1> HIDE DEF c
<1>3. Stopping(t, c)
  <2>1. CASE Pending("start")
    <3>1. /\ Give(t, [Command("shutdown") EXCEPT !.request = c.request])
          /\ stop' = [NoStop EXCEPT !.at = "interrupting"]
          /\ client' = [c EXCEPT !.state = "stopping"]
      BY <1>2, <2>1 DEF stopService
    <3>2. c.request \in {NoRequest, R} /\ c.request # NoRequest
      BY <1>1, <2>1
    <3> QED BY <3>1, <3>2, ShutdownGiven DEF Stopping
  <2>2. CASE ~Pending("start")
    BY <1>1, <1>2, <2>2, Continues DEF stopService
  <2> QED BY <2>1, <2>2
<1>4. work[t] = Idle \/ work' = work
  BY <1>2 DEF stopService, continueStop, Give, supervisorVars
<1> QED BY <1>2, <1>3, <1>4 DEF c

\* A shutdown makes nothing fresh, so no late reply is taken for one asked for.
LEMMA ShutdownAsked ==
    ASSUME Inv, NEW t \in Threads, shutdown(t)
    PROVE  Inv'
<1> DEFINE c == Invalidated
<1>1. /\ c = [state |-> client.state, service |-> client.service,
              request |-> client.request, active |-> NoSynthesis, sink |-> NoSynthesis]
      /\ client.request = NoRequest => Over /\ ~Pending("start")
  BY InvalidatedIs DEF Inv, Endings, Conversation
<1>2. Stopping(t, c) /\ fresh' = {} /\ UNCHANGED asked
  BY ShutdownStops
<1> HIDE DEF c
<1> QED BY <1>1, <1>2, StoppingKeeps

\* A stop that waited for a start goes on as if the start had never been.
LEMMA JoinStops ==
    ASSUME Inv, NEW t \in Threads, startJoined(t)
    PROVE  /\ UNCHANGED <<fresh, asked>> /\ (work[t] = Idle \/ work' = work)
           /\ ~Pending("start")
           /\ \E c : /\ Stopping(t, c)
                     /\ c = [state |-> c.state, service |-> c.service,
                             request |-> c.request, active |-> c.active,
                             sink |-> c.sink]
                     /\ c.active = NoSynthesis
                     /\ c.service \in {NoChild, client.service} /\ c.sink = client.sink
                     /\ c.request \in {NoRequest, client.request}
                     /\ c.request = NoRequest => Over
<1> DEFINE c == IF stop.heard /\ client.service \in {NoChild, stop.child}
                THEN [client EXCEPT !.service = NoChild, !.request = NoRequest]
                ELSE client
<1>0. stop # NoStop /\ ~Pending("start") /\ UNCHANGED <<fresh, asked>>
      /\ continueStop(c, t)
  BY DEF startJoined, NoStop, Nothing
<1>1. /\ c = [state |-> c.state, service |-> c.service, request |-> c.request,
              active |-> c.active, sink |-> c.sink]
      /\ c.active = NoSynthesis
      /\ c.service \in {NoChild, client.service} /\ c.sink = client.sink
      /\ c.request \in {NoRequest, client.request}
      /\ c.request = NoRequest => Over
  <2>1. /\ client = [state |-> client.state, service |-> client.service,
                  request |-> client.request, active |-> client.active,
                  sink |-> client.sink]
        /\ client.active = NoSynthesis
        /\ (stop.heard => Over)
    BY <1>0, WhileStopping
  <2>2. client.request = NoRequest => Over
    BY DEF Inv, Endings
  <2>3. CASE stop.heard /\ client.service \in {NoChild, stop.child}
    <3>1. c = [state |-> client.state, service |-> NoChild, request |-> NoRequest,
               active |-> client.active, sink |-> client.sink]
      <4>1. ASSUME NEW d, d = [client EXCEPT !.service = NoChild, !.request = NoRequest]
      PROVE  d = [state |-> client.state, service |-> NoChild,
                           request |-> NoRequest, active |-> client.active,
                           sink |-> client.sink]
        BY <2>1, <4>1
      <4> QED BY <2>3, <4>1
    <3> HIDE DEF c
    <3> QED BY <2>1, <2>3, <3>1
  <2>4. CASE ~(stop.heard /\ client.service \in {NoChild, stop.child})
    <3>1. c = client
      BY <2>4
    <3> HIDE DEF c
    <3> QED BY <2>1, <2>2, <3>1
  <2> QED BY <2>3, <2>4
<1>2. client.service \in {NoChild, R} /\ client.request \in {NoRequest, R}
  BY DEF Inv, ClientTyped
<1> HIDE DEF c
<1>3. Stopping(t, c)
  BY <1>0, <1>1, <1>2, Continues
<1>4. work[t] = Idle \/ work' = work
  BY <1>0 DEF continueStop, Give, supervisorVars
<1> QED BY <1>0, <1>1, <1>3, <1>4

LEMMA StartJoined ==
    ASSUME Inv, NEW t \in Threads, startJoined(t)
    PROVE  Inv'
<1>1. fresh' = {}
  <2>1. stop # NoStop
    BY DEF startJoined, NoStop, Nothing
  <2> QED BY <2>1, WhileStopping, JoinStops
<1> QED BY <1>1, JoinStops, StoppingKeeps

-----------------------------------------------------------------------------
(* The client asks for work *)

\* A command other than a start, named or not.
Order(name, child, synthesis) ==
    [command |-> name, child |-> child, request |-> NoRequest, synthesis |-> synthesis,
     at |-> "entering", line |-> 0, session |-> NoChild, reply |-> Nothing]

\* The order is given to a thread that is free, or has replied.
Ordered(t, name, child, synthesis) ==
    /\ name \in {"prepare", "synthesize", "cancel", "shutdown", "remove"}
    /\ child \in {NoChild, R}
    /\ name \in {"prepare", "synthesize", "shutdown"} => child # NoChild
    /\ name = "synthesize" => synthesis = asked.syntheses + 1
    /\ name # "synthesize" => synthesis \in 0 .. asked.syntheses
    /\ work[t] = Idle \/ work[t].at = "replied"
    /\ work' = [work EXCEPT ![t] = Order(name, child, synthesis)]
    /\ Apart
    /\ asked'.starts = asked.starts
    /\ asked'.syntheses = IF name = "synthesize" THEN asked.syntheses + 1
                          ELSE asked.syntheses
    /\ client'.request = client.request
    /\ stop' = stop \/ stop'.heard = FALSE

\* An order keeps what is over, over.
LEMMA Ordering ==
    ASSUME Inv, NEW t \in Threads, NEW name, NEW child, NEW synthesis,
           Ordered(t, name, child, synthesis)
    PROVE  /\ Replying(t, Order(name, child, synthesis))
           /\ work'[t] = Order(name, child, synthesis)
           /\ \A u \in Threads : u # t => work'[u] = work[u]
           /\ Pending("start")' => Pending("start")
           /\ UNCHANGED R
<1> DEFINE w == Order(name, child, synthesis)
<1>1. /\ w = [command |-> w.command, child |-> w.child, request |-> w.request,
              synthesis |-> w.synthesis, at |-> w.at, line |-> w.line,
              session |-> w.session, reply |-> w.reply]
      /\ w.command = name /\ w.child = child /\ w.request = NoRequest
      /\ w.synthesis = synthesis /\ w.at = "entering" /\ w.line = 0
      /\ w.session = NoChild /\ w.reply = Nothing
  BY DEF Order
<1>2. work' = [work EXCEPT ![t] = w]
  BY DEF Ordered
<1> HIDE DEF w
<1>3. Turns(t, w)
  BY <1>1, <1>2 DEF Turns, Ordered
<1>4. name # Nothing /\ name # "start" /\ Given(w) /\ Named(w)
  BY <1>1 DEF Given, Named, Commands, Nothing, Ordered
<1>5. client.request = NoRequest => Over
  BY DEF Inv, Endings
<1>6. Replying(t, w)
  BY <1>1, <1>3, <1>4, <1>5 DEF Replying, Ordered, Inv, Endings
<1> QED BY <1>3, <1>6, AloneInThread, NoNewStart DEF Inv, w

\* The commands as orders.
LEMMA Orders ==
    ASSUME NEW child, NEW synthesis
    PROVE  /\ [Command("prepare") EXCEPT !.child = child] = Order("prepare", child, 0)
           /\ [Command("synthesize") EXCEPT !.child = child, !.synthesis = synthesis]
                 = Order("synthesize", child, synthesis)
           /\ [Command("cancel") EXCEPT !.synthesis = synthesis]
                 = Order("cancel", NoChild, synthesis)
           /\ [Command("shutdown") EXCEPT !.child = child] = Order("shutdown", child, 0)
           /\ Command("remove") = Order("remove", NoChild, 0)
<1> USE CommandIs DEF Order, NoSynthesis
<1>1. ASSUME NEW w, w = [Command("prepare") EXCEPT !.child = child]
      PROVE  w = Order("prepare", child, 0)
  BY <1>1
<1>2. ASSUME NEW w, w = [Command("synthesize") EXCEPT !.child = child,
                                                      !.synthesis = synthesis]
      PROVE  w = Order("synthesize", child, synthesis)
  BY <1>2
<1>3. ASSUME NEW w, w = [Command("cancel") EXCEPT !.synthesis = synthesis]
      PROVE  w = Order("cancel", NoChild, synthesis)
  BY <1>3
<1>4. ASSUME NEW w, w = [Command("shutdown") EXCEPT !.child = child]
      PROVE  w = Order("shutdown", child, 0)
  BY <1>4
<1>5. ASSUME NEW w, w = Command("remove")
      PROVE  w = Order("remove", NoChild, 0)
  BY <1>5
<1> QED BY <1>1, <1>2, <1>3, <1>4, <1>5

\* Work is asked for while no other reply is awaited.
LEMMA PrepareAsked ==
    ASSUME Inv, NEW t \in Threads, prepare(t)
    PROVE  Inv'
<1> DEFINE w == Order("prepare", client.service, 0)
<1>0. /\ client.state = "unloaded" /\ ~Pending("prepare") /\ fresh' = fresh \cup {t}
      /\ work[t] = Idle /\ work' = [work EXCEPT ![t] = w] /\ Apart
      /\ UNCHANGED <<client, stop, asked>>
  BY Orders DEF prepare, Give, Apart
<1>1. /\ client.service \in {NoChild, R} /\ client.service # NoChild
      /\ asked.syntheses \in Nat /\ 0 \in 0 .. asked.syntheses
  BY <1>0 DEF Inv, ClientTyped, Conversation
<1>2. /\ Replying(t, w) /\ work'[t] = w /\ UNCHANGED R
      /\ Pending("start")' => Pending("start")
  <2>1. Ordered(t, "prepare", client.service, 0)
    BY <1>0, <1>1 DEF Ordered
  <2> QED BY <2>1, Ordering
<1>3. fresh' = {t}
  BY <1>0, Freshness DEF Pending
<1>4. ClientTyped'
  BY <1>0, <1>2, <1>3 DEF Inv, ClientTyped
<1>5. Awaited(work[t])'
  BY <1>0, <1>2 DEF Awaited, Order
<1>6. Conversation'
  BY <1>0, <1>2, <1>3, <1>5 DEF Inv, Conversation, Awaited
<1> QED BY <1>2, <1>4, <1>6, ReplyingKeeps

LEMMA SynthesisAsked ==
    ASSUME Inv, NEW t \in Threads, synthesize(t)
    PROVE  Inv'
<1> DEFINE w == Order("synthesize", client.service, asked.syntheses + 1)
<1>0. /\ client.state = "ready" /\ fresh' = fresh \cup {t} /\ asked.syntheses < MaxSyntheses
      /\ work[t] = Idle /\ work' = [work EXCEPT ![t] = w] /\ Apart
      /\ asked' = [asked EXCEPT !.syntheses = @ + 1]
      /\ client' = [client EXCEPT !.active = asked.syntheses + 1, !.state = "generating"]
      /\ UNCHANGED stop
  <2>1. ASSUME NEW v, v = [Command("synthesize") EXCEPT
                              !.child = client.service, !.synthesis = asked.syntheses + 1]
        PROVE  v = w
    BY <2>1, CommandIs DEF Order
  <2>2. work' = [work EXCEPT ![t] = [Command("synthesize") EXCEPT
                    !.child = client.service, !.synthesis = asked.syntheses + 1]]
    BY DEF synthesize, Give
  <2> HIDE DEF w
  <2>3. work' = [work EXCEPT ![t] = w]
    BY <2>1, <2>2
  <2> QED BY <2>3 DEF synthesize, Give, Apart
<1>1. /\ client.service \in {NoChild, R} /\ client.service # NoChild
      /\ asked.syntheses \in Nat 
  BY <1>0 DEF Inv, ClientTyped, Conversation
<1>2. /\ asked'.starts = asked.starts /\ asked'.syntheses = asked.syntheses + 1
      /\ asked' \in [starts : 0 .. MaxStarts, syntheses : 0 .. MaxSyntheses]
      /\ client' = [state |-> "generating", service |-> client.service,
                    request |-> client.request, active |-> asked.syntheses + 1,
                    sink |-> client.sink]
  <2>1. /\ asked = [starts |-> asked.starts, syntheses |-> asked.syntheses]
        /\ asked.starts \in 0 .. MaxStarts
    BY DEF Inv, ClientTyped
  <2>2. asked' = [starts |-> asked.starts, syntheses |-> asked.syntheses + 1]
    BY <1>0, <2>1
  <2>3. asked.syntheses + 1 \in 0 .. MaxSyntheses
    BY <1>0, <1>1, SupervisorAssumption
  <2>4. client' = [state |-> "generating", service |-> client.service,
                   request |-> client.request, active |-> asked.syntheses + 1,
                   sink |-> client.sink]
    BY <1>0 DEF Inv, ClientTyped
  <2> QED BY <2>1, <2>2, <2>3, <2>4
<1>3. /\ Replying(t, w) /\ work'[t] = w /\ UNCHANGED R
      /\ Pending("start")' => Pending("start")
  <2>1. Ordered(t, "synthesize", client.service, asked.syntheses + 1)
    BY <1>0, <1>1, <1>2 DEF Ordered
  <2> QED BY <2>1, Ordering
<1>4. fresh' = {t} /\ stop = NoStop
  BY <1>0, Freshness
<1>5. ClientTyped'
  BY <1>0, <1>1, <1>2, <1>3, <1>4 DEF Inv, ClientTyped, ClientStates
<1>6. Awaited(work[t])'
  BY <1>2, <1>3 DEF Awaited, Order
<1>7. Conversation'
  BY <1>0, <1>1, <1>2, <1>3, <1>4, <1>6 DEF Inv, Conversation, NoStop, Nothing, Awaited
<1> QED BY <1>3, <1>5, <1>7, ReplyingKeeps

LEMMA CancelAsked ==
    ASSUME Inv, NEW t \in Threads, cancelGeneration(t)
    PROVE  Inv'
<1> DEFINE w == Order("cancel", NoChild, client.active)
<1>0. /\ client.active # NoSynthesis /\ fresh' = {t}
      /\ work[t] = Idle /\ work' = [work EXCEPT ![t] = w] /\ Apart
      /\ client' = [Invalidated EXCEPT !.state = "cancelling"]
      /\ UNCHANGED <<stop, asked>>
  BY Orders DEF cancelGeneration, Give, Apart
<1>1. /\ client.active \in 0 .. asked.syntheses
      /\ client.state = "generating" /\ client.service # NoChild
  BY <1>0 DEF Inv, ClientTyped, Conversation
<1>2. client' = [state |-> "cancelling", service |-> client.service,
                 request |-> client.request, active |-> NoSynthesis, sink |-> NoSynthesis]
  BY <1>0, InvalidatedIs
<1>3. /\ Replying(t, w) /\ work'[t] = w /\ UNCHANGED R
      /\ Pending("start")' => Pending("start")
  <2>1. Ordered(t, "cancel", NoChild, client.active)
    BY <1>0, <1>1, <1>2 DEF Ordered
  <2> QED BY <2>1, Ordering
<1>4. stop = NoStop
  BY <1>1, Freshness
<1>5. ClientTyped'
  <2>1. NoSynthesis \in 0 .. asked.syntheses /\ "cancelling" \in ClientStates
    BY DEF Inv, ClientTyped, NoSynthesis, ClientStates
  <2>2. client.service \in {NoChild, R} /\ client.request \in {NoRequest, R}
    BY DEF Inv, ClientTyped
  <2>3. client' \in [state : ClientStates, service : {NoChild, R}, request : {NoRequest, R},
                     active : 0 .. asked.syntheses, sink : 0 .. asked.syntheses]
    BY <1>2, <2>1, <2>2
  <2> QED BY <1>0, <1>3, <2>3 DEF Inv, ClientTyped
<1>6. Awaited(work[t])'
  BY <1>2, <1>3 DEF Awaited, Order
<1>7. Conversation'
  BY <1>0, <1>1, <1>2, <1>3, <1>4, <1>6 DEF Inv, Conversation, NoStop, Nothing, Awaited
<1> QED BY <1>3, <1>5, <1>7, ReplyingKeeps

LEMMA CancelledTooLate ==
    ASSUME Inv, NEW t \in Threads, cancelledTooLate(t)
    PROVE  Inv'
<1> DEFINE w == Order("shutdown", client.service, 0)
<1>0. /\ work[t].command = "cancel" /\ work[t].at = "replied" /\ t \in fresh
      /\ fresh' = {} /\ work' = [work EXCEPT ![t] = w] /\ Apart
      /\ client' = [Invalidated EXCEPT !.state = "stopping"]
      /\ stop' = [NoStop EXCEPT !.at = "closing"]
      /\ UNCHANGED asked
  BY Orders DEF cancelledTooLate, Apart
<1>1. client.state = "cancelling"
  BY <1>0, Freshness
<1>2. /\ client.service \in {NoChild, R} /\ client.service # NoChild
      /\ ~Pending("start") /\ asked.syntheses \in Nat /\ 0 \in 0 .. asked.syntheses
  BY <1>1 DEF Inv, ClientTyped, Conversation
<1>3. client' = [state |-> "stopping", service |-> client.service,
                 request |-> client.request, active |-> NoSynthesis, sink |-> NoSynthesis]
  BY <1>0, InvalidatedIs
<1>4. /\ stop' = [at |-> "closing", heard |-> FALSE, child |-> NoChild]
      /\ stop' \in [at : StopPoints, heard : BOOLEAN, child : {NoChild, R}]
      /\ ~stop'.heard
  BY <1>0, NothingStops
<1>5. /\ Replying(t, w) /\ work'[t] = w /\ UNCHANGED R
      /\ Pending("start")' => Pending("start")
  <2>1. Ordered(t, "shutdown", client.service, 0)
    BY <1>0, <1>2, <1>3, <1>4 DEF Ordered
  <2> QED BY <2>1, Ordering
<1>6. ClientTyped'
  <2>1. NoSynthesis \in 0 .. asked.syntheses /\ "stopping" \in ClientStates
    BY <1>2 DEF NoSynthesis, ClientStates
  <2>2. client.service \in {NoChild, R} /\ client.request \in {NoRequest, R}
    BY DEF Inv, ClientTyped
  <2>3. client' \in [state : ClientStates, service : {NoChild, R}, request : {NoRequest, R},
                     active : 0 .. asked.syntheses, sink : 0 .. asked.syntheses]
    BY <1>3, <2>1, <2>2
  <2> QED BY <1>0, <1>4, <1>5, <2>3 DEF Inv, ClientTyped
<1>7. Conversation'
  BY <1>0, <1>2, <1>3, <1>4, <1>5 DEF Conversation
<1> QED BY <1>5, <1>6, <1>7, ReplyingKeeps

LEMMA RemovalAsked ==
    ASSUME Inv, NEW t \in Threads, removeChatterbox(t)
    PROVE  Inv'
<1> DEFINE w == Order("remove", NoChild, 0)
<1>0. /\ work[t] = Idle /\ work' = [work EXCEPT ![t] = w] /\ Apart
      /\ UNCHANGED <<client, fresh, stop, asked>>
  BY Orders DEF removeChatterbox, Give, Apart, clientVars
<1>1. /\ asked.syntheses \in Nat /\ 0 \in 0 .. asked.syntheses
  BY DEF Inv, ClientTyped
<1>2. /\ Replying(t, w) /\ \A u \in Threads : u # t => work'[u] = work[u]
      /\ UNCHANGED R /\ (Pending("start")' => Pending("start"))
  <2>1. Ordered(t, "remove", NoChild, 0)
    BY <1>0, <1>1 DEF Ordered
  <2> QED BY <2>1, Ordering
<1>3. \A u \in fresh : work'[u] = work[u]
  BY <1>0, <1>2, Freshness
<1>4. ClientTyped'
  BY <1>0, <1>2 DEF Inv, ClientTyped
<1>5. Conversation'
  BY <1>0, <1>2, <1>3 DEF Inv, Conversation, Awaited
<1> QED BY <1>2, <1>4, <1>5, ReplyingKeeps

LEMMA SoundTaken ==
    ASSUME Inv, takeAudioUnit
    PROVE  Inv'
<1>0. /\ work' = work /\ Apart /\ UNCHANGED <<fresh, stop, asked>>
      /\ client' = [client EXCEPT !.sink = NoSynthesis]
  BY DEF takeAudioUnit, Apart, supervisorVars
<1>1. client' = [state |-> client.state, service |-> client.service,
                 request |-> client.request, active |-> client.active,
                 sink |-> NoSynthesis]
  BY <1>0 DEF Inv, ClientTyped
<1>2. 1 \in Threads
  BY SupervisorAssumption DEF Threads
<1>3. Replying(1, Idle)
  BY <1>0, <1>1, IdleGiven DEF Replying, Inv, Endings
<1>4. UNCHANGED R /\ (Pending("start")' <=> Pending("start"))
  BY <1>0 DEF R, Pending
<1>5. ClientTyped'
  BY <1>0, <1>1, <1>4 DEF Inv, ClientTyped, NoSynthesis
<1>6. Conversation'
  BY <1>0, <1>1, <1>4 DEF Inv, Conversation, Awaited
<1> QED BY <1>2, <1>3, <1>5, <1>6, ReplyingKeeps

-----------------------------------------------------------------------------
(* The client starts a service *)

\* A start is asked for when nothing is left of the conversation before.
LEMMA StartAsked ==
    ASSUME Inv, NEW t \in Threads, start(t)
    PROVE  Inv'
<1> DEFINE w == [command |-> "start", child |-> NoChild, request |-> asked.starts + 1,
                 synthesis |-> 0, at |-> "entering", line |-> 0, session |-> NoChild,
                 reply |-> Nothing]
<1>0. /\ stop = NoStop /\ (client.request = NoRequest \/ client.service # NoChild)
      /\ asked.starts < MaxStarts /\ \A u \in Threads : work[u] = Idle
      /\ client.state = "stopped" /\ client.service = NoChild
      /\ asked' = [asked EXCEPT !.starts = @ + 1]
      /\ client' = [client EXCEPT !.request = asked.starts + 1, !.state = "starting"]
      /\ fresh' = fresh \cup {t} /\ stop' = stop /\ Apart
  BY DEF start, MayStart, Joined, requestStart, Give, Apart
<1>1. work' = [work EXCEPT ![t] = w]
  <2>1. ASSUME NEW v, v = [Command("start") EXCEPT !.request = asked.starts + 1]
        PROVE  v = w
    BY <2>1, CommandIs DEF NoSynthesis
  <2>2. work' = [work EXCEPT ![t] = [Command("start") EXCEPT !.request = asked.starts + 1]]
    BY DEF start, requestStart, Give
  <2> HIDE DEF w
  <2> QED BY <2>1, <2>2
<1>2. client.request = NoRequest /\ Over
  BY <1>0 DEF Inv, Endings
<1>3. /\ slot = NoChild /\ strays = {} /\ ~alive
      /\ UNCHANGED <<slot, strays, alive, admission, operation, lifecycle, started,
                     revoked, faults>>
  BY <1>0, <1>2 DEF Over, Published, Inv, Children, Apart, serviceVars
<1>4. /\ R \in Nat /\ R' = R + 1 /\ asked'.syntheses = asked.syntheses
      /\ asked.syntheses \in Nat
      /\ asked' \in [starts : 0 .. MaxStarts, syntheses : 0 .. MaxSyntheses]
  BY <1>0, SupervisorAssumption DEF Inv, ClientTyped, R
<1>5. client' = [state |-> "starting", service |-> NoChild, request |-> R',
                 active |-> client.active, sink |-> client.sink]
  BY <1>0, <1>4 DEF Inv, ClientTyped, R
<1>6. fresh' = {t} /\ client.active = NoSynthesis
  BY <1>0, Freshness DEF Inv, Conversation
<1>7. /\ work \in [Threads -> Record] /\ work'[t] = w
      /\ \A u \in Threads : u # t => work'[u] = Idle
  BY <1>0, <1>1 DEF Inv, WorkTyped
<1>8. /\ w.command = "start" /\ w.request = R' /\ w.at = "entering" /\ w.reply = Nothing
      /\ w.session = NoChild /\ R' # NoRequest
      /\ Idle.command = Nothing /\ Idle.at = "idle" /\ Idle.reply = Nothing
      /\ Idle.session = NoChild
  BY <1>4 DEF R, Idle, NoRequest
<1>9. WorkTyped'
  <2>1. w \in Record'
    BY <1>4, <1>8, Literals DEF Record, Commands
  <2>2. Idle \in Record'
    BY <1>4, Literals DEF Idle, Record, NoSynthesis
  <2>3. \A u \in Threads : work'[u] \in Record'
    BY <1>7, <2>1, <2>2
  <2>4. work' \in [Threads -> Record']
    <3> HIDE DEF w
    <3> QED BY <1>1, <1>7, <2>3
  <2> QED BY <2>4 DEF WorkTyped
<1> HIDE DEF w
<1>10. SupervisorTyped'
  BY <1>3, <1>4 DEF Inv, SupervisorTyped, Shaped
<1>11. ClientTyped'
  BY <1>0, <1>4, <1>5, <1>6 DEF Inv, ClientTyped, ClientStates, NoStop, StopPoints
<1>12. Stations'
  <2>1. Stationed(w) /\ Named(w)
    BY <1>8 DEF Stationed, Stands, Named, StartPoints, Session, Nothing
  <2>2. Stationed(Idle) /\ Named(Idle)
    BY IdleGiven DEF Stationed
  <2>3. \A u \in Threads : Stationed(work'[u]) /\ Named(work'[u])
    BY <1>7, <2>1, <2>2
  <2> QED BY <2>3 DEF Stations, Named
<1>13. Locks'
  BY <1>7, <1>8 DEF Locks, Admitted, Terminating, Nothing
<1>14. Children'
  BY <1>3, <1>7, <1>8 DEF Children
<1>15. Endings'
  <2>1. R' \notin {lifecycle'.contained, lifecycle'.rejected}
    <3>1. lifecycle.contained \in 0 .. R /\ lifecycle.rejected \in 0 .. R
      BY DEF Inv, SupervisorTyped
    <3> QED BY <1>3, <1>4, <3>1
  <2>2. \A u \in Threads : work'[u].reply # "ok"
    BY <1>7, <1>8 DEF Nothing
  <2>3. ~stop'.heard
    BY <1>0, NothingStops
  <2>4. client'.request # NoRequest
    BY <1>5, <1>8
  <2> QED BY <2>1, <2>2, <2>3, <2>4 DEF Endings
<1>16. Syntheses'
  BY <1>3, <1>7, <1>8 DEF Inv, Syntheses, Nothing
<1>17. Conversation'
  <2>1. Awaited(work[t])'
    BY <1>5, <1>7, <1>8 DEF Awaited
  <2>2. /\ client'.state = "starting" /\ client'.active = NoSynthesis
        /\ client'.service = NoChild /\ client'.request # NoRequest
    BY <1>5, <1>6, <1>8
  <2>3. stop' = NoStop /\ stop'.at \notin {"acknowledging", "closing"}
    BY <1>0 DEF NoStop, Nothing
  <2> QED BY <1>6, <2>1, <2>2, <2>3 DEF Conversation
<1> QED BY <1>9, <1>10, <1>11, <1>12, <1>13, <1>14, <1>15, <1>16, <1>17 DEF Inv

-----------------------------------------------------------------------------
(* The invariant *)

LEMMA ClientSteps ==
    ASSUME Inv, Client
    PROVE  Inv'
<1>1. ASSUME NEW t \in Threads, Calls(t)
      PROVE  Inv'
  BY <1>1, StartAsked, PrepareAsked, SynthesisAsked, CancelAsked, ShutdownAsked,
     RemovalAsked DEF Calls
<1>2. ASSUME NEW t \in Threads, Answers(t)
      PROVE  Inv'
  BY <1>2, StartAnswered, WorkAnswered, StopAnswered, CancelAnswered, CancelledTooLate,
     RemovalAnswered DEF Answers
<1> QED BY <1>1, <1>2, StartJoined, SoundTaken DEF Client

\* At first there was no conversation, and it is over.
LEMMA InvInitially == Init => Inv
<1> SUFFICES ASSUME Init PROVE Inv
  OBVIOUS
<1>0. /\ R = 0 /\ asked.starts = 0 /\ asked.syntheses = 0 /\ asked = [starts |-> 0, syntheses |-> 0]
      /\ client = [state |-> "stopped", service |-> NoChild, request |-> NoRequest,
                   active |-> NoSynthesis, sink |-> NoSynthesis]
      /\ fresh = {} /\ stop = NoStop
      /\ work = [t \in Threads |-> Idle] /\ admission = Nobody /\ operation = Nobody
      /\ slot = NoChild /\ started = NoChild /\ strays = {} /\ revoked = {}
      /\ lifecycle = [state |-> "stopped", active |-> NoSynthesis, contained |-> NoChild,
                      rejected |-> NoRequest]
      /\ alive = FALSE /\ faults = 0
  BY DEF Init, SupervisorInit, ServiceInit, R
<1>1. \A t \in Threads : /\ work[t] = Idle /\ work[t].command = Nothing /\ work[t].at = "idle"
                         /\ work[t].session = NoChild /\ work[t].reply = Nothing
  BY <1>0 DEF Idle
<1>2. WorkTyped
  <2>1. Idle \in Record
    BY <1>0, Literals DEF Idle, Record, NoSynthesis
  <2> QED BY <1>0, <2>1 DEF WorkTyped
<1>3. SupervisorTyped
  BY <1>0, MaxFaultsAssumption
     DEF SupervisorTyped, Shaped, NoSynthesis, NoChild, NoRequest
<1>4. ClientTyped
  BY <1>0, SupervisorAssumption, NothingStops
     DEF ClientTyped, ClientStates, NoSynthesis, NoChild, NoRequest
<1>5. Stations
  BY <1>1 DEF Stations, Stationed, Named, Nothing
<1>6. Locks
  BY <1>1 DEF Locks, Admitted, Terminating, Nothing
<1>7. Published /\ Over
  BY <1>0, <1>1 DEF Published, Over, Early, IsEarly, EarlyPoints
<1>8. Children
  BY <1>0, <1>1, <1>7 DEF Children
<1>9. Endings
  BY <1>7 DEF Endings
<1>10. Syntheses
  BY <1>0, <1>1 DEF Syntheses, Nothing
<1>11. Conversation
  BY <1>0, <1>1, <1>7 DEF Conversation, NoStop, NoChild, NoSynthesis, Pending, Nothing
<1> QED BY <1>2, <1>3, <1>4, <1>5, <1>6, <1>8, <1>9, <1>10, <1>11 DEF Inv

\* Every step keeps the invariant.
LEMMA InvInductive == Inv /\ [Next]_vars => Inv'
<1>1. ASSUME Inv, Next PROVE Inv'
  BY <1>1, ServiceSteps, SupervisorSteps, ClientSteps DEF Next, Service, Supervisor
<1>2. ASSUME Inv, UNCHANGED vars PROVE Inv'
  <2>1. /\ UNCHANGED <<work, admission, operation, slot, lifecycle, started, strays, revoked,
                       client, fresh, stop, asked, alive, faults, R>>
    BY <1>2 DEF vars, serviceVars, supervisorVars, clientVars, R
  <2>2. WorkTyped' /\ SupervisorTyped' /\ ClientTyped'
    BY <1>2, <2>1 DEF Inv, WorkTyped, Record, SupervisorTyped, ClientTyped, Shaped
  <2>3. (Published' <=> Published) /\ (Over' <=> Over)
    BY <2>1 DEF Published, Over, Early
  <2>4. Children' /\ Endings' /\ Syntheses' /\ Locks' /\ Stations'
    BY <1>2, <2>1, <2>3 DEF Inv, Children, Endings, Syntheses, Locks, Stations, Stationed,
       Stands, Named, Idle
  <2>5. Conversation'
    BY <1>2, <2>1 DEF Inv, Conversation, Awaited, Pending
  <2> QED BY <2>2, <2>4, <2>5 DEF Inv
<1> QED BY <1>1, <1>2

LEMMA InvAlways == Spec => []Inv
BY InvInitially, InvInductive, PTL DEF Spec

-----------------------------------------------------------------------------
(* What is claimed *)

\* The invariant's types are those of the model, once R is within its bound.
LEMMA InvTypes == Inv => TypeOK
<1> SUFFICES ASSUME Inv PROVE TypeOK
  OBVIOUS
<1>1. /\ R \in 0 .. MaxStarts /\ MaxStarts \in Nat
      /\ asked.syntheses \in 0 .. MaxSyntheses /\ MaxSyntheses \in Nat
  BY SupervisorAssumption DEF Inv, ClientTyped, R
<1>2. /\ {NoChild, R} \subseteq Requests \cup {NoChild}
      /\ {NoRequest, R} \subseteq Requests \cup {NoRequest}
      /\ 0 .. R \subseteq Requests \cup {NoChild}
      /\ 0 .. R \subseteq Requests \cup {NoRequest}
      /\ 0 .. asked.syntheses \subseteq 0 .. MaxSyntheses
  BY <1>1 DEF Requests, NoChild, NoRequest
<1>3. work \in [Threads ->
           [command : Commands \cup {Nothing}, child : Requests \cup {NoChild},
            request : Requests \cup {NoRequest}, synthesis : 0 .. MaxSyntheses,
            at : Points, line : Nat, session : Requests \cup {NoChild},
            reply : Outcomes]]
  BY <1>2 DEF Inv, WorkTyped, Record
<1>4. \A t \in Threads :
         work[t].at = "talking" => work[t].line \in 1 .. Len(Script[work[t].command])
  BY StandsThere DEF Inv, Stands
<1>5. /\ admission \in Threads \cup {Nobody} /\ operation \in Threads \cup {Nobody}
      /\ slot \in Requests \cup {NoChild} /\ started \in Requests \cup {NoChild}
      /\ lifecycle.contained \in Requests \cup {NoChild}
      /\ lifecycle.rejected \in Requests \cup {NoRequest}
      /\ faults \in 0 .. MaxFaults
  BY <1>2 DEF Inv, SupervisorTyped
<1>6. /\ fresh \subseteq Threads
      /\ client.service \in Requests \cup {NoChild}
      /\ client.request \in Requests \cup {NoRequest}
  BY <1>2 DEF Inv, ClientTyped
<1> QED BY <1>3, <1>4, <1>5, <1>6 DEF TypeOK

\* Every thread is at a point of its command, and one that talks to the service is at
\* a line of its script; requests, children and syntheses are ones that were asked for.
THEOREM ClientTypes == Spec => []TypeOK
BY InvAlways, InvTypes, PTL

\* When a conversation is over nothing of it runs.
LEMMA OverMeansGone == Inv /\ Over => NothingRuns
BY DEF Inv, Children, Over, Published, NothingRuns

\* What runs is of this conversation, and a receipt or an acknowledgement ends it.
LEMMA InvSeen == Inv => NothingRunsUnseen
<1> SUFFICES ASSUME Inv PROVE NothingRunsUnseen
  OBVIOUS
<1>1. NoForgottenChild
  BY DEF Inv, Children, SupervisorTyped, NoForgottenChild
<1>2. StoppedMeansGone
  BY OverMeansGone DEF Inv, Endings, StoppedMeansGone
<1>3. Over => \A child : ~Runs(child)
  BY OverMeansGone DEF NothingRuns, Runs
<1>4. ASSUME NEW child \in {lifecycle.contained, lifecycle.rejected} \ {NoChild}, Runs(child)
      PROVE  FALSE
  <2>1. child = R
    <3>1. CASE alive /\ started = child
      BY <3>1 DEF Inv, Children
    <3>2. CASE child \in strays
      BY <3>2 DEF Inv, SupervisorTyped
    <3> QED BY <1>4, <3>1, <3>2 DEF Runs
  <2>2. Over
    BY <1>4, <2>1 DEF Inv, Endings, NoChild
  <2> QED BY <1>3, <1>4, <2>2
<1>5. ContainmentIsTruthful
  BY <1>3, <1>4 DEF ContainmentIsTruthful, Inv, Endings
<1> QED BY <1>1, <1>2, <1>5 DEF NothingRunsUnseen

\* The supervisor never forgets a child that still runs, a client that is stopped and
\* owes no acknowledgement has left nothing running, and what was acknowledged, or
\* is kept as a receipt, names no child that runs.
THEOREM NothingGoesUnseen == Spec => []NothingRunsUnseen
BY InvAlways, InvSeen, PTL

\* No removal beside a start: both would hold the admission.
LEMMA InvObeyed == Inv => InterruptionsHold
<1> SUFFICES ASSUME Inv PROVE InterruptionsHold
  OBVIOUS
<1>1. TakenBackIsNotHeard
  BY DEF Inv, Syntheses, TakenBackIsNotHeard
<1>2. RemovalIsExclusive
  BY DEF Inv, Children, Locks, Admitted, RemovalIsExclusive
<1> QED BY <1>1, <1>2 DEF InterruptionsHold

\* A synthesis that was taken back is never answered with sound, and the files of the
\* runtime are removed while no process runs and no start can bring one about.
THEOREM InterruptionsAreObeyed == Spec => []InterruptionsHold
BY InvAlways, InvObeyed, PTL

\* Both the session and the child of a command are of this conversation.
LEMMA InvApart == Inv => OldWorkStaysOld
BY DEF Inv, Stations, Named, WorkTyped, Record, OldWorkStaysOld

-----------------------------------------------------------------------------
(* What passes through the pipes as long as nothing goes wrong *)

\* The published session can be talked to.
Live == slot # NoChild /\ stdinOpen

\* Where a thread holds the operation lock.
Operative == {"configuring", "spawning", "opening", "claiming", "talking", "deciding",
              "failed", "reopening", "stopping", "leaving", "retiring"}

Holding ==
    \A t \in Threads :
        /\ work[t].at \in Operative => operation = t
        /\ work[t].at = "claiming" => work[t].line = 1

\* One model is loaded at a time, into a service that was started, and for a client
\* that awaits it.
Preparing ==
    /\ \A t, u \in Threads :
          work[t].command = "prepare" /\ work[u].command = "prepare" => t = u
    /\ Pending("prepare") => ~Pending("start")
    /\ \A t \in Threads :
          work[t].command = "prepare" /\ client.state = "unloaded" => t \in fresh

\* The frames there are.
Frames ==
    {State("handshaking"), State("unloaded"), State("loading"), State("warming"),
     State("ready"), State("generating"), State("cancelling"), State("stopping"),
     State("stopped"), State("failed"), Message("handshakeAccepted"),
     Message("capabilities"), Message("audioMetadata"), Message("audio"),
     Message("completed"), Message("cancelled"), EngineError, Refusal}

Spoken == stdout \in Seq(Frames)

\* The service in state s has not read yet what was written to it, or has written all
\* that is awaited from a line on; a record was made of what it is known to be.
Greeted(line, s, in, out, known) ==
    \/ line = 1 /\ s = "starting" /\ in = <<>> /\ out = <<>>
    \/ line = 2 /\ s = "starting" /\ in = <<"handshake">> /\ out = <<>>
    \/ line = 2 /\ s = "unloaded" /\ in = <<>> /\ out = Says.handshake
    \/ line = 3 /\ s = "unloaded" /\ in = <<>> /\ out = Tail(Says.handshake)
    \/ line = 4 /\ s = "unloaded" /\ in = <<>>
                /\ out = <<State("unloaded"), Message("capabilities")>>
    \/ line = 5 /\ s = "unloaded" /\ in = <<>> /\ out = <<Message("capabilities")>>
                /\ known = s

Loaded(line, s, in, out, known) ==
    \/ line = 1 /\ s = "unloaded" /\ in = <<>> /\ out = <<>>
    \/ line = 2 /\ s = "unloaded" /\ in = <<"load">> /\ out = <<>>
    \/ line = 2 /\ s = "warming" /\ in = <<>> /\ out = Says.load
    \/ line = 3 /\ s = "warming" /\ in = <<>> /\ out = <<State("warming")>>
    \/ line = 4 /\ s = "warming" /\ in = <<>> /\ out = <<>>
    \/ line = 5 /\ s = "warming" /\ in = <<"warm">> /\ out = <<>>
    \/ line = 5 /\ s = "ready" /\ in = <<>> /\ out = Says.warm
    \/ line = 6 /\ s = "ready" /\ in = <<>> /\ out = <<Message("capabilities")>>
                /\ known = s

\* What a synthesis ends with.
Settled == <<Message("audioMetadata"), Message("audio"), Message("completed"),
             State("ready")>>

Synthesized(line, s, in, out) ==
    \/ line = 1 /\ s = "ready" /\ in = <<>> /\ out = <<>>
    \/ line = 2 /\ s = "ready" /\ in = <<"synthesize">> /\ out = <<>>
    \/ line = 2 /\ s = "generating" /\ in = <<>> /\ out = Says.synthesize
    \/ line = 2 /\ s = "ready" /\ in = <<>> /\ out = Says.synthesize \o Settled
    \/ line = 3 /\ s = "generating" /\ in = <<>> /\ out = <<>>
    \/ line = 3 /\ s = "ready" /\ in = <<>> /\ out = Settled
    \/ line = 4 /\ s = "ready" /\ in = <<>> /\ out = Tail(Settled)
    \/ line = 5 /\ s = "ready" /\ in = <<>> /\ out = <<Message("completed"), State("ready")>>
    \/ line = 6 /\ s = "ready" /\ in = <<>> /\ out = <<State("ready")>>

ShutDown(line, s, in, out) ==
    \/ line = 1 /\ s \in {"unloaded", "ready"} /\ in = <<>> /\ out = <<>>
    \/ line = 2 /\ s \in {"unloaded", "ready"} /\ in = <<"shutdown">> /\ out = <<>>
    \/ line = 2 /\ s = "stopped" /\ in = <<>> /\ out = Says.shutdown
    \/ line = 3 /\ s = "stopped" /\ in = <<>> /\ out = <<State("stopped")>>

Exchange(command, line, s, in, out, known) ==
    \/ command = "start" /\ Greeted(line, s, in, out, known)
    \/ command = "prepare" /\ Loaded(line, s, in, out, known)
    \/ command = "synthesize" /\ Synthesized(line, s, in, out)
    \/ command = "shutdown" /\ ShutDown(line, s, in, out)

\* A thread that talks to a session is where the service expects it to be.
Exchanging ==
    Live => \A t \in Threads :
               work[t].at = "talking" =>
                  /\ Exchange(work[t].command, work[t].line, service, stdin, stdout,
                              lifecycle.state)
                  /\ alive <=> service # "stopped"

\* A thread has the service to itself.
Busy(t) == work[t].at \in {"talking", "leaving", "retiring"}

\* Between two conversations the pipes are empty and the record is right; after the
\* last one the process is gone.
Quiescent ==
    /\ alive /\ service \in {"unloaded", "ready"} /\ service = lifecycle.state
    /\ stdin = <<>> /\ stdout = <<>>

Resting ==
    /\ Live /\ (\A t \in Threads : ~Busy(t)) => Quiescent
    /\ Live => \A t \in Threads : work[t].at = "leaving" => ~alive

\* Where a session ends.
EndPoints == Terminating \cup {"retiring"}

\* The writer of a session that is published is closed by who ends it.
Opened == slot # NoChild => stdinOpen \/ \E t \in Threads : work[t].at \in EndPoints

\* The sound is there when it is read, even if the session was ended meanwhile.
Takes(command, line) == command = "synthesize" /\ line = 4

Sounding ==
    \A t \in Threads :
        work[t].at = "talking" /\ Takes(work[t].command, work[t].line)
            => stdout # <<>> /\ Head(stdout) = Message("audio")

Warm == service \in {"warming", "ready", "generating"}

\* A model is loaded by a thread whose reply the client awaits, or awaited, and by
\* no second one.
Loading ==
    /\ Live /\ Warm /\ (client.state = "unloaded" \/ Pending("start"))
          => \E t \in Threads : /\ work[t].command = "prepare"
                                /\ work[t].at = "talking" \/ work[t].reply = "ok"
    /\ Live => \A t \in Threads :
                  /\ work[t].command = "prepare"
                  /\ work[t].at \in {"entering", "opening"}
                  => ~Warm

Unrejected == \A t \in Threads : work[t].reply # "protocolRejected"

Healthy == Exchanging /\ Resting /\ Opened /\ Sounding /\ Loading /\ Unrejected

\* Held whatever goes wrong, and held as long as nothing does.
Orderly == Spoken /\ Holding /\ Preparing

Sound == Inv /\ Orderly /\ (faults = 0 => Healthy)

-----------------------------------------------------------------------------
(* Frames and lines *)

LEMMA FrameFields ==
    ASSUME NEW k
    PROVE  /\ State(k).kind = "state" /\ State(k).state = k
           /\ Message(k).kind = k
           /\ Send(k).does = "send" /\ Send(k).what = Message(k)
           /\ Expect(k).does = "expect" /\ Expect(k).what = k
           /\ ExpectOfEngine(k).does = "expectOfEngine" /\ ExpectOfEngine(k).what = k
BY DEF State, Message, Send, Expect, ExpectOfEngine

\* A frame that is the one awaited is taken for it.
LEMMA Awaits ==
    ASSUME NEW frame, NEW line, line.what = frame, frame.kind # "engineError"
    PROVE  verdict(frame, line) = "ok"
<1>1. frame # EngineError
  BY FrameFields DEF EngineError
<1> QED BY <1>1 DEF verdict

\* The lines of the scripts.
LEMMA Lines ==
    /\ Len(Script["start"]) = 5
    /\ Script["start"][1] = Send("handshake")
    /\ Script["start"][2] = Expect(State("handshaking"))
    /\ Script["start"][3] = Expect(Message("handshakeAccepted"))
    /\ Script["start"][4] = Expect(State("unloaded"))
    /\ Script["start"][5] = Expect(Message("capabilities"))
    /\ Len(Script["prepare"]) = 6
    /\ Script["prepare"][1] = Send("load")
    /\ Script["prepare"][2] = ExpectOfEngine(State("loading"))
    /\ Script["prepare"][3] = ExpectOfEngine(State("warming"))
    /\ Script["prepare"][4] = Send("warm")
    /\ Script["prepare"][5] = ExpectOfEngine(State("ready"))
    /\ Script["prepare"][6] = Expect(Message("capabilities"))
    /\ Len(Script["synthesize"]) = 6
    /\ Script["synthesize"][1] = Send("synthesize")
    /\ Script["synthesize"][2] = ExpectOfEngine(State("generating"))
    /\ Script["synthesize"][3] = ExpectOfEngine(Message("audioMetadata"))
    /\ Script["synthesize"][4] = [does |-> "take", what |-> Message("audio")]
    /\ Script["synthesize"][5] = Expect(Message("completed"))
    /\ Script["synthesize"][6] = Expect(State("ready"))
    /\ Len(Script["shutdown"]) = 3
    /\ Script["shutdown"][1] = Send("shutdown")
    /\ Script["shutdown"][2] = Expect(State("stopping"))
    /\ Script["shutdown"][3] = Expect(State("stopped"))
BY DEF Script

\* Short sequences, written down.
LEMMA Taken ==
    ASSUME NEW a, NEW b, NEW c, NEW d, NEW e
    PROVE  /\ Tail(<<a>>) = <<>> /\ Tail(<<a, b>>) = <<b>>
           /\ Tail(<<a, b, c>>) = <<b, c>> /\ Tail(<<a, b, c, d>>) = <<b, c, d>>
           /\ Head(<<a>>) = a /\ Head(<<a, b>>) = a /\ Head(<<a, b, c>>) = a
           /\ Head(<<a, b, c, d>>) = a
           /\ <<a>> # <<>> /\ <<a, b>> # <<>> /\ <<a, b, c>> # <<>>
           /\ <<a, b, c, d>> # <<>>
           /\ Append(<<>>, a) = <<a>>
OBVIOUS

\* A frame before others.
LEMMA Before ==
    ASSUME NEW S, NEW e \in S, NEW q \in Seq(S)
    PROVE  /\ <<e>> \o q \in Seq(S) /\ <<e>> \o q # <<>>
           /\ Head(<<e>> \o q) = e
           /\ Tail(<<e>> \o q) = q
<1> DEFINE s == <<e>>
           r == s \o q
<1>1. s \in Seq(S) /\ Len(s) = 1 /\ s[1] = e
  OBVIOUS
<1> HIDE DEF s
<1>2. /\ r \in Seq(S) /\ Len(r) = Len(q) + 1 /\ Len(q) \in Nat
      /\ \A i \in 1 .. Len(q) + 1 : r[i] = IF i <= 1 THEN s[i] ELSE q[i - 1]
  <2>1. /\ s \o q \in Seq(S) /\ Len(s \o q) = Len(s) + Len(q)
        /\ \A i \in 1 .. Len(s) + Len(q) :
              (s \o q)[i] = IF i <= Len(s) THEN s[i] ELSE q[i - Len(s)]
    BY <1>1, ConcatProperties
  <2>2. Len(q) \in Nat /\ Len(s) + Len(q) = Len(q) + 1
    BY <1>1
  <2> QED BY <1>1, <2>1, <2>2
<1> HIDE DEF r
<1>3. r # <<>> /\ Head(r) = e
  BY <1>1, <1>2
<1>4. /\ Tail(r) \in Seq(S) /\ Len(Tail(r)) = Len(q)
      /\ \A i \in 1 .. Len(q) : Tail(r)[i] = r[i + 1]
  BY <1>2, <1>3, HeadTailProperties
<1>5. \A i \in 1 .. Len(q) : Tail(r)[i] = q[i]
  BY <1>2, <1>4
<1>6. Tail(r) = q
  BY <1>4, <1>5, SeqEqual
<1> QED BY <1>2, <1>3, <1>6 DEF r, s

LEMMA Empty ==
    ASSUME NEW S, NEW s \in Seq(S)
    PROVE  <<>> \o s = s
BY ConcatEmptySeq

\* What the service writes are frames.
LEMMA SettledFrames ==
    /\ Settled \in Seq(Frames) /\ State("generating") \in Frames
    /\ \A message \in DOMAIN Accepts : Says[message] \in Seq(Frames)
<1>1. DOMAIN Accepts = {"handshake", "load", "warm", "synthesize", "cancel", "shutdown"}
  BY DEF Accepts
<1>2. /\ {State("handshaking"), State("unloaded"), State("loading"), State("warming"),
          State("ready"), State("generating"), State("cancelling"), State("stopping"),
          State("stopped"), Message("handshakeAccepted"), Message("capabilities"),
          Message("audioMetadata"), Message("audio"), Message("completed"),
          Message("cancelled")} \subseteq Frames
  BY DEF Frames
<1>3. /\ Says["handshake"] \in Seq(Frames) /\ Says["load"] \in Seq(Frames)
      /\ Says["warm"] \in Seq(Frames) /\ Says["synthesize"] \in Seq(Frames)
      /\ Says["cancel"] \in Seq(Frames) /\ Says["shutdown"] \in Seq(Frames)
  <2> HIDE DEF Frames
  <2> QED BY <1>2 DEF Says
<1>4. Settled \in Seq(Frames) /\ State("generating") \in Frames
  BY <1>2 DEF Settled
<1> QED BY <1>1, <1>3, <1>4

-----------------------------------------------------------------------------
(* Steps at which nobody talks *)

\* A fault is counted.
LEMMA Counted == ASSUME Inv, Fault PROVE faults' # 0
BY DEF Inv, SupervisorTyped, Fault

\* The thread neither talks nor begins to, and a session that can be talked to
\* afterwards is as it was.
Quiet(t, at, reply) ==
    /\ reply = "protocolRejected" => work[t].reply = reply
    /\ work[t].at \notin {"idle", "talking", "replied"} /\ at \notin {"talking", "leaving"}
    /\ Live' => /\ Live /\ service' = service /\ alive' = alive /\ stdin' = stdin
                /\ lifecycle'.state = lifecycle.state
                /\ ~Busy(t)
    /\ at \in {"entering", "opening"} => work[t].at \in {"entering", "opening"}
    /\ slot' # NoChild => \/ stdinOpen' \/ at \in EndPoints
                          \/ slot # NoChild /\ stdinOpen' = stdinOpen
                                /\ work[t].at \notin EndPoints

\* The operation lock is held where it is needed, and taken from no other thread.
Locked(t, at) ==
    /\ at \in Operative => operation' = t
    /\ \A u \in Threads : u # t /\ operation = u => operation' = u

Calm(t, at, line, session, reply) ==
    /\ Moves(t, at, line, session, reply)
    /\ Locked(t, at)
    /\ at = "claiming" => line = 1
    /\ stdout' = stdout
    /\ faults' = 0 => faults = 0 /\ Quiet(t, at, reply)

\* What is said of the threads' commands and their order stays.
LEMMA OrderKept ==
    ASSUME Orderly, UNCHANGED clientVars, NEW t \in Threads, NEW at, NEW line,
           NEW session, NEW reply, Moves(t, at, line, session, reply), Locked(t, at),
           at = "claiming" => line = 1
    PROVE  Holding' /\ Preparing' /\ (Pending("start")' <=> Pending("start"))
<1>1. \A u \in Threads : work'[u].command = work[u].command
  BY DEF Moves
<1>2. \A name : Pending(name)' <=> Pending(name)
  BY <1>1 DEF Pending
<1>3. Preparing'
  BY <1>1, <1>2 DEF Orderly, Preparing, clientVars
<1>4. Holding'
  BY DEF Orderly, Holding, Moves, Locked
<1> QED BY <1>2, <1>3, <1>4

LEMMA CalmKeeps ==
    ASSUME Sound, Inv', UNCHANGED clientVars, NEW t \in Threads, NEW at, NEW line,
           NEW session, NEW reply, Calm(t, at, line, session, reply)
    PROVE  Sound'
<1>1. Orderly' /\ (Pending("start")' <=> Pending("start"))
  BY OrderKept DEF Sound, Orderly, Calm, Spoken
<1>2. ASSUME faults' = 0 PROVE Healthy'
  <2>1. /\ Healthy /\ Quiet(t, at, reply) /\ Moves(t, at, line, session, reply)
        /\ stdout' = stdout /\ client' = client
    BY <1>2 DEF Sound, Calm, clientVars
  <2>2. \A u \in Threads : u # t => work'[u] = work[u]
    BY <2>1 DEF Moves
  <2>3. work'[t].at = at /\ work'[t].reply = reply /\ work'[t].command = work[t].command
    BY <2>1 DEF Moves
  <2>4. ASSUME Live' PROVE Live /\ ~Busy(t) /\ UNCHANGED <<service, alive, stdin, stdout>>
                           /\ lifecycle'.state = lifecycle.state
    BY <2>1, <2>4 DEF Quiet
  <2>5. Exchanging'
    <3>1. ASSUME NEW u \in Threads, Live', work'[u].at = "talking"
          PROVE  /\ Exchange(work'[u].command, work'[u].line, service', stdin', stdout',
                             lifecycle'.state)
                 /\ alive' <=> service' # "stopped"
      <4>1. work'[u] = work[u] /\ work[u].at = "talking"
        BY <2>1, <2>2, <2>3, <3>1 DEF Quiet
      <4> QED BY <2>1, <2>4, <3>1, <4>1 DEF Healthy, Exchanging
    <3> QED BY <3>1 DEF Exchanging
  <2>6. Resting'
    <3>1. ASSUME Live', \A u \in Threads : ~Busy(u)' PROVE Quiescent'
      <4>1. \A u \in Threads : ~Busy(u)
        BY <2>2, <2>4, <3>1 DEF Busy
      <4> QED BY <2>1, <2>4, <3>1, <4>1 DEF Healthy, Resting, Quiescent
    <3>2. ASSUME Live', NEW u \in Threads, work'[u].at = "leaving" PROVE ~alive'
      BY <2>1, <2>2, <2>3, <2>4, <3>2 DEF Healthy, Resting, Quiet
    <3> QED BY <3>1, <3>2 DEF Resting
  <2>7. Opened'
    <3>1. ASSUME slot # NoChild, stdinOpen' = stdinOpen, work[t].at \notin EndPoints
          PROVE  stdinOpen' \/ \E u \in Threads : work'[u].at \in EndPoints
      BY <2>1, <2>2, <3>1 DEF Healthy, Opened
    <3> QED BY <2>1, <2>3, <3>1 DEF Opened, Quiet
  <2>8. Sounding'
    BY <2>1, <2>2, <2>3 DEF Healthy, Sounding, Quiet
  <2>9. Loading'
    <3>1. ASSUME Live', Warm', client'.state = "unloaded" \/ Pending("start")'
          PROVE  \E u \in Threads : /\ work'[u].command = "prepare"
                                    /\ work'[u].at = "talking" \/ work'[u].reply = "ok"
      <4>1. PICK u \in Threads : /\ work[u].command = "prepare"
                                 /\ work[u].at = "talking" \/ work[u].reply = "ok"
        BY <1>1, <2>1, <2>4, <3>1 DEF Healthy, Loading, Warm
      <4>2. u # t
        BY <2>1, <4>1, AtPoint DEF Quiet, Sound, Stands
      <4> QED BY <2>2, <4>1, <4>2
    <3>2. ASSUME Live', NEW u \in Threads, work'[u].command = "prepare",
                 work'[u].at \in {"entering", "opening"}
          PROVE  ~Warm'
      <4>1. work[u].command = "prepare" /\ work[u].at \in {"entering", "opening"}
        BY <2>1, <2>2, <2>3, <3>2 DEF Quiet
      <4> QED BY <2>1, <2>4, <3>2, <4>1 DEF Healthy, Loading, Warm
    <3> QED BY <3>1, <3>2 DEF Loading
  <2>10. Unrejected'
    BY <2>1, <2>2, <2>3 DEF Healthy, Unrejected, Quiet
  <2> QED BY <2>5, <2>6, <2>7, <2>8, <2>9, <2>10 DEF Healthy
<1> QED BY <1>1, <1>2 DEF Sound

\* What a thread that comes to some point leaves of the operation lock.
LEMMA Unlocked ==
    ASSUME Sound, NEW t \in Threads, NEW at
    PROVE  /\ Release(t) /\ at \notin Operative => Locked(t, at)
           /\ operation' = operation /\ (at \in Operative => work[t].at \in Operative)
                 => Locked(t, at)
           /\ operation' = t /\ operation = Nobody => Locked(t, at)
<1>1. work[t].at \in Operative => operation = t
  BY DEF Sound, Orderly, Holding
<1>2. \A u \in Threads : u # Nobody
  BY DEF Nobody, Threads
<1> QED BY <1>1, <1>2 DEF Locked, Release

\* A start up to its child, and its receipt.
LEMMA CalmStarts ==
    ASSUME Sound, NEW t \in Threads,
           \/ start_selected(t) \/ admitStart(t) \/ configure_profile_locked(t)
           \/ recordRejection(t)
           \/ start_selected_attempt(t) /\ ~publish(t)
    PROVE  \E at, line, session, reply : Calm(t, at, line, session, reply)
<1> USE AtPoint, Unlocked, Counted
    DEF Calm, Quiet, Live, Busy, EndPoints, Terminating, KeepsLocks, Operative
<1>0. Inv /\ work[t].reply \in Outcomes
  BY DEF Sound, Inv, WorkTyped, Record
<1>1. CASE start_selected(t)
  <2>1. \/ Moves(t, "replied", work[t].line, NoChild, "invalidState") /\ Release(t)
        \/ Moves(t, "admitting", work[t].line, work[t].session, work[t].reply) /\ KeepsLocks
    BY <1>0, <1>1, Goes, Replies, Literals DEF Inv, start_selected
  <2>2. /\ work[t].at = "entering" /\ UNCHANGED <<serviceVars, slot, lifecycle>>
    BY <1>1 DEF start_selected
  <2> QED BY <2>1, <2>2 DEF serviceVars
<1>2. CASE admitStart(t)
  <2>1. \/ Moves(t, "rejected", work[t].line, work[t].session, "busy") /\ Release(t)
        \/ /\ Moves(t, "configuring", work[t].line, work[t].session, work[t].reply)
           /\ operation = Nobody /\ operation' = t
    BY <1>0, <1>2, Goes, Rejects, Literals DEF Inv, admitStart
  <2>2. work[t].at = "admitting" /\ UNCHANGED <<serviceVars, slot, lifecycle>>
    BY <1>2 DEF admitStart
  <2> QED BY <2>1, <2>2 DEF serviceVars
<1>3. CASE configure_profile_locked(t)
  <2>1. \/ \E failure \in {"invalidState", "unavailable"} :
              Moves(t, "rejected", work[t].line, work[t].session, failure) /\ Release(t)
        \/ /\ Moves(t, "spawning", work[t].line, work[t].session, work[t].reply)
           /\ KeepsLocks
    BY <1>0, <1>3, Goes, Rejects, Literals DEF Inv, configure_profile_locked
  <2>2. /\ work[t].at = "configuring" /\ (faults' = 0 => faults = 0)
        /\ UNCHANGED <<service, alive, stdin, stdinOpen, stdout, slot, lifecycle>>
    BY <1>0, <1>3 DEF configure_profile_locked
  <2> QED BY <2>1, <2>2
<1>4. CASE recordRejection(t)
  <2>1. Moves(t, "replied", work[t].line, NoChild, work[t].reply) /\ Release(t)
    BY <1>0, <1>4, Replies DEF Inv, recordRejection
  <2>2. work[t].at = "rejected" /\ UNCHANGED <<serviceVars, slot>>
    BY <1>4 DEF recordRejection
  <2>3. lifecycle'.state = lifecycle.state
    BY <1>0, <1>4 DEF recordRejection, Inv, SupervisorTyped, Shaped
  <2> QED BY <2>1, <2>2, <2>3 DEF serviceVars
<1>5. CASE start_selected_attempt(t) /\ ~publish(t)
  <2>1. \/ \E failure \in {"invalidState", "unavailable"} : rejectAttempt(t, failure)
        \/ Reply(t, "unavailable")
    BY <1>5 DEF start_selected_attempt, spawnFails, processStrays
  <2>2. \/ \E failure \in {"invalidState", "unavailable"} :
              Moves(t, "rejected", work[t].line, work[t].session, failure) /\ Release(t)
        \/ Moves(t, "replied", work[t].line, NoChild, "unavailable") /\ Release(t)
    BY <1>0, <2>1, Replies, Rejects, Literals DEF Inv
  <2>3. /\ work[t].at = "spawning" /\ (faults' = 0 => faults = 0)
        /\ UNCHANGED <<service, alive, stdin, stdinOpen, stdout, slot, lifecycle>>
    BY <1>0, <1>5 DEF start_selected_attempt, spawnFails, processStrays, serviceVars
  <2> QED BY <2>2, <2>3
<1> QED BY <1>1, <1>2, <1>3, <1>4, <1>5

\* An operation before it talks, and after.
LEMMA CalmOperations ==
    ASSUME Sound, NEW t \in Threads,
           \/ acquire_operation(t)
           \/ active_session(t) /\ (slot = NoChild \/ work[t].command = "synthesize")
           \/ claim(t) /\ (lifecycle.state # "ready" \/ lifecycle.active # NoSynthesis)
           \/ decide(t) \/ fail_session(t) \/ failedSessionEnds(t)
    PROVE  \E at, line, session, reply : Calm(t, at, line, session, reply)
<1> USE AtPoint, Unlocked, Counted
    DEF Calm, Quiet, Live, Busy, EndPoints, Terminating, KeepsLocks, Operative
<1>0. Inv /\ work[t].reply \in Outcomes
  BY DEF Sound, Inv, WorkTyped, Record
<1>1. CASE acquire_operation(t)
  <2>1. \/ Moves(t, "replied", work[t].line, NoChild, "busy") /\ Release(t)
        \/ /\ Moves(t, "opening", work[t].line, work[t].session, work[t].reply)
           /\ operation = Nobody /\ operation' = t
    BY <1>0, <1>1, Goes, Replies, Literals DEF Inv, acquire_operation
  <2>2. work[t].at = "entering" /\ UNCHANGED <<serviceVars, slot, lifecycle>>
    BY <1>1 DEF acquire_operation
  <2> QED BY <2>1, <2>2 DEF serviceVars
<1>2. CASE active_session(t) /\ (slot = NoChild \/ work[t].command = "synthesize")
  <2>0. /\ 1 \in Nat /\ slot \in {NoChild, R} /\ "claiming" \in Points
        /\ work[t].at = "opening" /\ UNCHANGED <<serviceVars, slot, lifecycle>>
    BY <1>0, <1>2, Literals DEF Inv, SupervisorTyped, active_session
  <2>1. CASE slot = NoChild
    <3>1. Moves(t, "replied", work[t].line, NoChild, "invalidState") /\ Release(t)
      BY <1>0, <1>2, <2>1, Replies, Literals DEF Inv, active_session
    <3> QED BY <2>0, <3>1 DEF serviceVars
  <2>2. CASE slot # NoChild
    <3>1. work' = [work EXCEPT ![t].session = slot, ![t].line = 1, ![t].at = "claiming"]
          /\ KeepsLocks
      BY <1>2, <2>2 DEF active_session
    <3>2. Moves(t, "claiming", 1, slot, work[t].reply)
      BY <1>0, <2>0, <3>1, Moved DEF Inv
    <3> QED BY <2>0, <3>1, <3>2 DEF serviceVars
  <2> QED BY <2>1, <2>2
<1>3. CASE claim(t) /\ (lifecycle.state # "ready" \/ lifecycle.active # NoSynthesis)
  <2>1. Moves(t, "replied", work[t].line, NoChild, "invalidState") /\ Release(t)
    BY <1>0, <1>3, Replies, Literals DEF Inv, claim
  <2>2. work[t].at = "claiming" /\ UNCHANGED <<serviceVars, slot, lifecycle>>
    BY <1>3 DEF claim
  <2> QED BY <2>1, <2>2 DEF serviceVars
<1>4. CASE decide(t)
  <2>1. \/ \E reply \in {"ok", "cancelled"} : Reply(t, reply)
        \/ Goto(t, "failed") /\ KeepsLocks
    BY <1>4 DEF decide
  <2>2. \/ \E reply \in {"ok", "cancelled"} :
              Moves(t, "replied", work[t].line, NoChild, reply) /\ Release(t)
        \/ Moves(t, "failed", work[t].line, work[t].session, work[t].reply) /\ KeepsLocks
    BY <1>0, <2>1, Goes, Replies, Literals DEF Inv
  <2>3. work[t].at = "deciding" /\ UNCHANGED <<serviceVars, slot>>
    BY <1>4 DEF decide
  <2>4. lifecycle'.state = lifecycle.state
    BY <1>0, <1>4 DEF decide, Inv, SupervisorTyped, Shaped
  <2> QED BY <2>2, <2>3, <2>4 DEF serviceVars
<1>5. CASE fail_session(t)
  <2>1. \/ /\ Moves(t, "replied", work[t].line, NoChild, "cancelled") /\ Release(t)
           /\ lifecycle' = lifecycle /\ stdinOpen' = stdinOpen
        \/ /\ Moves(t, "failing", work[t].line, work[t].session, work[t].reply)
           /\ KeepsLocks /\ ~stdinOpen'
    BY <1>0, <1>5, Goes, Replies, Literals DEF Inv, fail_session, CloseInput
  <2>2. /\ work[t].at = "failed"
        /\ UNCHANGED <<service, alive, stdin, stdout, faults, slot>>
    BY <1>5 DEF fail_session
  <2> QED BY <2>1, <2>2
<1>6. CASE failedSessionEnds(t)
  <2>1. \E reply \in {work[t].reply, "timeout"} :
           Moves(t, "replied", work[t].line, NoChild, reply) /\ Release(t)
    BY <1>0, <1>6, Replies, Literals DEF Inv, failedSessionEnds
  <2>2. /\ work[t].at = "failing" /\ stdout' = stdout
        /\ faults' = 0 => faults = 0 /\ slot' = NoChild
    BY <1>0, <1>6 DEF failedSessionEnds, ProcessGone, TerminationUnverified
  <2> QED BY <2>1, <2>2
<1> QED BY <1>1, <1>2, <1>3, <1>4, <1>5, <1>6

\* A cancel, and a termination that somebody waits for.
LEMMA CalmCancels ==
    ASSUME Sound, NEW t \in Threads, cancel(t) \/ cancelled(t) \/ interrupted(t)
    PROVE  \E at, line, session, reply : Calm(t, at, line, session, reply)
<1> USE AtPoint, Unlocked, Counted
    DEF Calm, Quiet, Live, Busy, EndPoints, Terminating, KeepsLocks, Operative
<1>0. Inv /\ work[t].reply \in Outcomes /\ slot \in {NoChild, R}
  BY DEF Sound, Inv, WorkTyped, Record, SupervisorTyped
<1>1. CASE cancel(t)
  <2>1. \/ /\ \E reply \in {"invalidState", "invalidInput"} :
                 Moves(t, "replied", work[t].line, NoChild, reply) /\ Release(t)
           /\ UNCHANGED <<lifecycle, stdin, stdinOpen>>
        \/ /\ Moves(t, "cancelling", work[t].line, work[t].session, work[t].reply)
           /\ KeepsLocks /\ ~stdinOpen'
    <3>1. CASE slot = NoChild \/ lifecycle.active # work[t].synthesis
      <4>1. /\ \E reply \in {"invalidState", "invalidInput"} : Reply(t, reply)
            /\ UNCHANGED <<lifecycle, stdin, stdinOpen>>
        BY <1>1, <3>1 DEF cancel
      <4> QED BY <1>0, <4>1, Replies, Literals DEF Inv
    <3>2. CASE ~(slot = NoChild \/ lifecycle.active # work[t].synthesis)
      <4>1. Goto(t, "cancelling") /\ KeepsLocks /\ ~stdinOpen'
        BY <1>1, <3>2 DEF cancel, CloseInput
      <4> QED BY <1>0, <4>1, Goes, Literals DEF Inv
    <3> QED BY <3>1, <3>2
  <2>2. work[t].at = "entering" /\ UNCHANGED <<service, alive, stdout, faults, slot>>
    BY <1>1 DEF cancel
  <2> QED BY <2>1, <2>2
<1>2. ASSUME NEW from \in {"cancelling", "interrupting"}, terminated(t, from)
      PROVE  \E at, line, session, reply : Calm(t, at, line, session, reply)
  <2>1. \/ Moves(t, "replied", work[t].line, slot, "ok") /\ Release(t)
        \/ Moves(t, "replied", work[t].line, NoChild, "timeout") /\ Release(t)
    BY <1>0, <1>2, RepliesAbout, Replies, Literals DEF Inv, terminated
  <2>2. /\ work[t].at = from /\ stdout' = stdout
        /\ faults' = 0 => faults = 0 /\ slot' = NoChild
    BY <1>0, <1>2 DEF terminated, ProcessGone, TerminationUnverified
  <2> QED BY <2>1, <2>2
<1> QED BY <1>1, <1>2 DEF cancelled, interrupted

\* A shutdown but for what it says to the service.
LEMMA CalmShutdowns ==
    ASSUME Sound, NEW t \in Threads,
           shutdown_owned(t) \/ lookAtSlot(t) \/ reopen(t) \/ wait_for_exit(t) \/ retire(t)
    PROVE  \E at, line, session, reply : Calm(t, at, line, session, reply)
<1> USE AtPoint, Unlocked, Counted
    DEF Calm, Quiet, Live, Busy, EndPoints, Terminating, KeepsLocks, Operative
<1>0. /\ Inv /\ work[t].reply \in Outcomes /\ slot \in {NoChild, R} /\ work[t].line \in Nat
      /\ work[t].session \in {NoChild, R}
  BY DEF Sound, Inv, WorkTyped, Record, SupervisorTyped
<1>1. CASE shutdown_owned(t)
  <2>1. \/ Moves(t, "replied", work[t].line, NoChild, "ok") /\ Release(t)
        \/ /\ Moves(t, "looking", work[t].line, work[t].session, work[t].reply)
           /\ operation' = operation \/ (operation = Nobody /\ operation' = t)
    <3>1. \/ Reply(t, "ok")
          \/ /\ Goto(t, "looking")
             /\ operation' = operation \/ (operation = Nobody /\ operation' = t)
      BY <1>1 DEF shutdown_owned
    <3> QED BY <1>0, <3>1, Goes, Replies, Literals DEF Inv
  <2>2. work[t].at = "entering" /\ UNCHANGED <<serviceVars, slot, lifecycle>>
    BY <1>1 DEF shutdown_owned
  <2> QED BY <2>1, <2>2 DEF serviceVars
<1>2. CASE lookAtSlot(t)
  <2>0. work[t].at = "looking" /\ UNCHANGED <<service, alive, stdin, stdout, faults, slot>>
    BY <1>2 DEF lookAtSlot
  <2>1. CASE slot = NoChild
    <3>1. \/ \E reply \in {"invalidState", "cancelled"} : Reply(t, reply)
          \/ ReplyAbout(t, "ok", lifecycle.contained) /\ Means(t, lifecycle.contained)
                /\ lifecycle.contained # NoChild
      BY <1>2, <2>1 DEF lookAtSlot, acknowledge
    <3>2. \E session : \E reply \in {"ok", "invalidState", "cancelled"} :
             Moves(t, "replied", work[t].line, session, reply) /\ Release(t)
      <4>1. CASE \E reply \in {"invalidState", "cancelled"} : Reply(t, reply)
        BY <1>0, <4>1, Replies, Literals DEF Inv
      <4>2. CASE ReplyAbout(t, "ok", lifecycle.contained) /\ Means(t, lifecycle.contained)
                   /\ lifecycle.contained # NoChild
        <5>1. lifecycle.contained = R
          BY <1>0, <2>0, <4>2, MeansTheLast DEF Stands
        <5> QED BY <1>0, <4>2, <5>1, RepliesAbout, Literals DEF Inv
      <4> QED BY <3>1, <4>1, <4>2
    <3> QED BY <2>0, <2>1, <3>2
  <2>2. CASE slot # NoChild /\ operation # t
    <3>1. \/ Reply(t, "cancelled") /\ UNCHANGED <<lifecycle, stdinOpen>>
          \/ Goto(t, "interrupting") /\ KeepsLocks /\ ~stdinOpen'
      BY <1>2, <2>2 DEF lookAtSlot, interrupt, CloseInput
    <3>2. \/ /\ Moves(t, "replied", work[t].line, NoChild, "cancelled") /\ Release(t)
             /\ UNCHANGED <<lifecycle, stdinOpen>>
          \/ /\ Moves(t, "interrupting", work[t].line, work[t].session, work[t].reply)
             /\ KeepsLocks /\ ~stdinOpen'
      BY <1>0, <3>1, Goes, Replies, Literals DEF Inv
    <3> QED BY <2>0, <3>2
  <2>3. CASE slot # NoChild /\ operation = t
    <3>1. Goto(t, "reopening") /\ KeepsLocks /\ UNCHANGED <<lifecycle, stdinOpen>>
      BY <1>2, <2>3 DEF lookAtSlot
    <3>2. Moves(t, "reopening", work[t].line, work[t].session, work[t].reply)
      BY <1>0, <3>1, Goes, Literals DEF Inv
    <3>3. Locked(t, "reopening")
      BY <2>3, <3>1 DEF Locked
    <3> QED BY <2>0, <3>1, <3>2, <3>3
  <2> QED BY <2>1, <2>2, <2>3
<1>3. CASE reopen(t)
  <2>1. \/ \E reply \in {"invalidState", "cancelled"} : Reply(t, reply)
        \/ /\ work' = [work EXCEPT ![t].at = "stopping", ![t].session = slot]
           /\ KeepsLocks
    BY <1>3 DEF reopen
  <2>2. \/ \E reply \in {"invalidState", "cancelled"} :
              Moves(t, "replied", work[t].line, NoChild, reply) /\ Release(t)
        \/ Moves(t, "stopping", work[t].line, slot, work[t].reply) /\ KeepsLocks
    <3>1. CASE \E reply \in {"invalidState", "cancelled"} : Reply(t, reply)
      BY <1>0, <3>1, Replies, Literals DEF Inv
    <3>2. CASE work' = [work EXCEPT ![t].at = "stopping", ![t].session = slot] /\ KeepsLocks
      BY <1>0, <3>2, Moved, Literals DEF Inv
    <3> QED BY <2>1, <3>1, <3>2
  <2>3. work[t].at = "reopening" /\ UNCHANGED <<serviceVars, slot, lifecycle>>
    BY <1>3 DEF reopen
  <2> QED BY <2>2, <2>3 DEF serviceVars
<1>4. CASE wait_for_exit(t)
  <2>1. \/ Moves(t, "retiring", work[t].line, work[t].session, work[t].reply) /\ faults' = faults
        \/ Moves(t, "failed", work[t].line, work[t].session, "timeout") /\ Fault
    <3>1. \/ Goto(t, "retiring") /\ faults' = faults
          \/ work' = [work EXCEPT ![t].at = "failed", ![t].reply = "timeout"] /\ Fault
      BY <1>4 DEF wait_for_exit
    <3> QED BY <1>0, <3>1, Goes, Moved, Literals DEF Inv
  <2>2. /\ work[t].at = "leaving" /\ KeepsLocks /\ ~stdinOpen'
        /\ UNCHANGED <<service, alive, stdin, stdout, slot, lifecycle>>
    BY <1>4 DEF wait_for_exit, CloseInput
  <2> QED BY <1>0, <2>1, <2>2
<1>5. CASE retire(t)
  <2>1. work[t].at = "retiring" /\ UNCHANGED serviceVars /\ work[t].session = R
    BY <1>0, <1>5 DEF retire, Stands, Session
  <2>2. Moves(t, "replied", work[t].line, work[t].session, "ok") /\ Release(t)
    BY <1>0, <1>5, RepliesAbout, Literals DEF Inv, retire
  <2>3. slot' = NoChild
    BY <1>0, <1>5, <2>1 DEF retire
  <2> QED BY <2>1, <2>2, <2>3 DEF serviceVars
<1> QED BY <1>1, <1>2, <1>3, <1>4, <1>5

LEMMA CalmRemovals ==
    ASSUME Sound, NEW t \in Threads,
           stop_for_optional_removal(t) \/ force_stop(t) \/ forced(t) \/ removed(t)
    PROVE  \E at, line, session, reply : Calm(t, at, line, session, reply)
<1> USE AtPoint, Unlocked, Counted
    DEF Calm, Quiet, Live, Busy, EndPoints, Terminating, KeepsLocks, Operative
<1>0. Inv
  BY DEF Sound
<1>1. CASE stop_for_optional_removal(t)
  <2>1. \/ Moves(t, "replied", work[t].line, NoChild, "busy") /\ Release(t)
        \/ /\ Moves(t, "admitted", work[t].line, work[t].session, work[t].reply)
           /\ operation' = operation
    BY <1>0, <1>1, Goes, Replies, Literals DEF Inv, stop_for_optional_removal
  <2>2. work[t].at = "entering" /\ UNCHANGED <<serviceVars, slot, lifecycle>>
    BY <1>1 DEF stop_for_optional_removal
  <2> QED BY <2>1, <2>2 DEF serviceVars
<1>2. CASE force_stop(t)
  <2>1. Moves(t, "forcing", work[t].line, work[t].session, work[t].reply)
    BY <1>0, <1>2, Goes, Literals DEF Inv, force_stop
  <2>2. /\ work[t].at = "admitted" /\ KeepsLocks /\ (stdinOpen' => slot = NoChild)
        /\ UNCHANGED <<service, alive, stdin, stdout, faults, slot, lifecycle>>
    BY <1>2 DEF force_stop
  <2> QED BY <2>1, <2>2
<1>3. CASE forced(t)
  <2>1. \/ Moves(t, "replied", work[t].line, NoChild, "timeout") /\ Release(t)
        \/ /\ Moves(t, "removing", work[t].line, work[t].session, work[t].reply)
           /\ operation' = operation
    BY <1>0, <1>3, Goes, Replies, Literals DEF Inv, forced
  <2>2. /\ work[t].at = "forcing" /\ stdout' = stdout
        /\ faults' = 0 => faults = 0 /\ slot' = NoChild
    BY <1>0, <1>3 DEF forced, ProcessGone, TerminationUnverified, serviceVars
  <2> QED BY <2>1, <2>2
<1>4. CASE removed(t)
  <2>1. Moves(t, "replied", work[t].line, NoChild, "ok") /\ Release(t)
    BY <1>0, <1>4, Replies, Literals DEF Inv, removed
  <2>2. work[t].at = "removing" /\ UNCHANGED <<serviceVars, slot, lifecycle>>
    BY <1>4 DEF removed
  <2> QED BY <2>1, <2>2 DEF serviceVars
<1> QED BY <1>1, <1>2, <1>3, <1>4

-----------------------------------------------------------------------------
(* A conversation, line by line *)

\* What is written finds the pipes empty.
LEMMA Sends ==
    ASSUME NEW c \in DOMAIN Script, NEW l \in 1 .. Len(Script[c]), NEW s, NEW in, NEW out,
           NEW known, Exchange(c, l, s, in, out, known), Script[c][l].does = "send"
    PROVE  /\ in = <<>> /\ out = <<>> /\ s # "stopped"
           /\ l < Len(Script[c]) /\ ~Takes(c, l + 1)
           /\ Exchange(c, l + 1, s, Append(in, Script[c][l].what.kind), out, known)
<1> USE Lines, FrameFields, Taken DEF Exchange, Takes
<1>0. c \in {"start", "prepare", "synthesize", "shutdown"}
  BY Scripts
<1>1. CASE c = "start"
  <2>1. Greeted(l, s, in, out, known)
    BY <1>1
  <2>2. l = 1 /\ s = "starting" /\ in = <<>> /\ out = <<>>
    BY <1>1, <2>1 DEF Greeted
  <2>3. Greeted(2, s, <<"handshake">>, out, known)
    BY <2>2 DEF Greeted
  <2> QED BY <1>1, <2>2, <2>3, SMTT(60)
<1>2. CASE c = "prepare"
  <2>1. Loaded(l, s, in, out, known)
    BY <1>2
  <2>2. \/ l = 1 /\ s = "unloaded" /\ in = <<>> /\ out = <<>>
        \/ l = 4 /\ s = "warming" /\ in = <<>> /\ out = <<>>
    BY <1>2, <2>1 DEF Loaded
  <2>3. CASE l = 1
    <3>1. Loaded(2, s, <<"load">>, out, known)
      BY <2>2, <2>3 DEF Loaded
    <3> QED BY <1>2, <2>2, <2>3, <3>1
  <2>4. CASE l = 4
    <3>1. Loaded(5, s, <<"warm">>, out, known)
      BY <2>2, <2>4 DEF Loaded
    <3>2. Append(in, Script[c][l].what.kind) = <<"warm">>
      BY <1>2, <2>2, <2>4
    <3>3. s # "stopped" /\ in = <<>> /\ out = <<>> /\ l + 1 = 5 /\ l < Len(Script[c])
      BY <1>2, <2>2, <2>4
    <3> QED BY <1>2, <3>1, <3>2, <3>3
  <2> QED BY <2>2, <2>3, <2>4
<1>3. CASE c = "synthesize"
  <2>1. Synthesized(l, s, in, out)
    BY <1>3
  <2>2. l = 1 /\ s = "ready" /\ in = <<>> /\ out = <<>>
    BY <1>3, <2>1 DEF Synthesized
  <2>3. Synthesized(2, s, <<"synthesize">>, out)
    BY <2>2 DEF Synthesized
  <2>4. Append(in, Script[c][l].what.kind) = <<"synthesize">>
    BY <1>3, <2>2
  <2>5. s # "stopped" /\ in = <<>> /\ out = <<>> /\ l + 1 = 2 /\ l < Len(Script[c])
    BY <1>3, <2>2
  <2> QED BY <1>3, <2>3, <2>4, <2>5
<1>4. CASE c = "shutdown"
  <2>1. ShutDown(l, s, in, out)
    BY <1>4
  <2>2. l = 1 /\ s \in {"unloaded", "ready"} /\ in = <<>> /\ out = <<>>
    BY <1>4, <2>1 DEF ShutDown
  <2>3. ShutDown(2, s, <<"shutdown">>, out)
    BY <2>2 DEF ShutDown
  <2>4. Append(in, Script[c][l].what.kind) = <<"shutdown">>
    BY <1>4, <2>2
  <2>5. s # "stopped" /\ in = <<>> /\ out = <<>> /\ l + 1 = 2 /\ l < Len(Script[c])
    BY <1>4, <2>2
  <2> QED BY <1>4, <2>3, <2>4, <2>5
<1> QED BY <1>0, <1>1, <1>2, <1>3, <1>4

\* What is recorded when the line has been read.
Heard(line, known) == IF line.what.kind = "state" THEN line.what.state ELSE known

\* The frame that is read is the one awaited, and so are those after it.
Hearing(c, l, s, in, out, known) ==
    /\ Head(out) = Script[c][l].what /\ Script[c][l].what.kind # "engineError"
    /\ l < Len(Script[c]) =>
          /\ Exchange(c, l + 1, s, in, Tail(out), Heard(Script[c][l], known))
          /\ Takes(c, l + 1) => Tail(out) # <<>> /\ Head(Tail(out)) = Message("audio")
    /\ l = Len(Script[c]) =>
          IF c = "shutdown" THEN s = "stopped"
          ELSE /\ s \in {"unloaded", "ready"} /\ Heard(Script[c][l], known) = s
               /\ in = <<>> /\ Tail(out) = <<>>

LEMMA HearsGreeting ==
    ASSUME NEW l \in 1 .. 5, NEW s, NEW in, NEW out, NEW known,
           Greeted(l, s, in, out, known), Script["start"][l].does # "send", out # <<>>
    PROVE  Hearing("start", l, s, in, out, known)
<1> USE Lines, FrameFields, Taken DEF Heard, Takes
<1> DEFINE n == Heard(Script["start"][l], known)
<1>1. CASE l = 2
  <2>1. s = "unloaded" /\ in = <<>> /\ out = Says.handshake
    BY <1>1 DEF Greeted
  <2>2. Head(out) = State("handshaking") /\ Greeted(3, s, in, Tail(out), n)
    BY <2>1 DEF Greeted, Says
  <2> QED BY <1>1, <2>2 DEF Hearing, Exchange
<1>2. CASE l = 3
  <2>1. s = "unloaded" /\ in = <<>> /\ out = Tail(Says.handshake)
    BY <1>2 DEF Greeted
  <2>2. /\ Head(out) = Message("handshakeAccepted")
        /\ Tail(out) = <<State("unloaded"), Message("capabilities")>>
    BY <2>1 DEF Says
  <2>3. Greeted(4, s, in, Tail(out), n)
    BY <2>1, <2>2 DEF Greeted
  <2> QED BY <1>2, <2>2, <2>3 DEF Hearing, Exchange
<1>3. CASE l = 4
  <2>1. s = "unloaded" /\ in = <<>> /\ out = <<State("unloaded"), Message("capabilities")>>
    BY <1>3 DEF Greeted
  <2>2. Head(out) = State("unloaded") /\ Tail(out) = <<Message("capabilities")>> /\ n = s
    BY <1>3, <2>1
  <2>3. Greeted(5, s, in, Tail(out), n)
    BY <2>1, <2>2 DEF Greeted
  <2> QED BY <1>3, <2>2, <2>3 DEF Hearing, Exchange
<1>4. CASE l = 5
  <2>1. s = "unloaded" /\ in = <<>> /\ out = <<Message("capabilities")>> /\ known = s
    BY <1>4 DEF Greeted
  <2> QED BY <1>4, <2>1 DEF Hearing
<1> QED BY <1>1, <1>2, <1>3, <1>4

LEMMA HearsLoading ==
    ASSUME NEW l \in 1 .. 6, NEW s, NEW in, NEW out, NEW known,
           Loaded(l, s, in, out, known), Script["prepare"][l].does # "send", out # <<>>
    PROVE  Hearing("prepare", l, s, in, out, known)
<1> USE Lines, FrameFields, Taken DEF Heard, Takes
<1> DEFINE n == Heard(Script["prepare"][l], known)
<1>1. CASE l = 2
  <2>1. s = "warming" /\ in = <<>> /\ out = Says.load
    BY <1>1 DEF Loaded
  <2>2. Head(out) = State("loading") /\ Tail(out) = <<State("warming")>>
    BY <2>1 DEF Says
  <2>3. Loaded(3, s, in, Tail(out), n)
    BY <2>1, <2>2 DEF Loaded
  <2> QED BY <1>1, <2>2, <2>3 DEF Hearing, Exchange
<1>2. CASE l = 3
  <2>1. s = "warming" /\ in = <<>> /\ out = <<State("warming")>>
    BY <1>2 DEF Loaded
  <2>2. Head(out) = State("warming") /\ Loaded(4, s, in, Tail(out), n)
    BY <2>1 DEF Loaded
  <2> QED BY <1>2, <2>2 DEF Hearing, Exchange
<1>3. CASE l = 5
  <2>1. s = "ready" /\ in = <<>> /\ out = Says.warm
    BY <1>3 DEF Loaded
  <2>2. Head(out) = State("ready") /\ Tail(out) = <<Message("capabilities")>> /\ n = s
    BY <1>3, <2>1 DEF Says
  <2>3. Loaded(6, s, in, Tail(out), n)
    BY <2>1, <2>2 DEF Loaded
  <2> QED BY <1>3, <2>2, <2>3 DEF Hearing, Exchange
<1>4. CASE l = 6
  <2>1. s = "ready" /\ in = <<>> /\ out = <<Message("capabilities")>> /\ known = s
    BY <1>4 DEF Loaded
  <2> QED BY <1>4, <2>1 DEF Hearing
<1>5. l \notin {1, 4}
  OBVIOUS
<1> QED BY <1>1, <1>2, <1>3, <1>4, <1>5

LEMMA HearsSynthesis ==
    ASSUME NEW l \in 1 .. 6, NEW s, NEW in, NEW out, NEW known,
           Synthesized(l, s, in, out), Script["synthesize"][l].does # "send", out # <<>>
    PROVE  Hearing("synthesize", l, s, in, out, known)
<1> USE Lines, FrameFields, Taken DEF Heard, Takes
<1>1. CASE l = 2
  <2>1. in = <<>> /\ \/ s = "generating" /\ out = Says.synthesize
                     \/ s = "ready" /\ out = Says.synthesize \o Settled
    BY <1>1 DEF Synthesized
  <2>2. /\ Head(out) = State("generating")
        /\ \/ s = "generating" /\ Tail(out) = <<>>
           \/ s = "ready" /\ Tail(out) = Settled
    <3>1. Says.synthesize = <<State("generating")>>
      BY DEF Says
    <3>2. /\ Head(<<State("generating")>> \o Settled) = State("generating")
          /\ Tail(<<State("generating")>> \o Settled) = Settled
      BY Before, SettledFrames
    <3>3. CASE s = "generating" /\ out = <<State("generating")>>
      BY <3>3
    <3>4. CASE s = "ready" /\ out = <<State("generating")>> \o Settled
      <4>1. Head(out) = State("generating") /\ Tail(out) = Settled
        BY ONLY <3>2, <3>4
      <4> QED BY ONLY <3>4, <4>1
    <3> QED BY ONLY <2>1, <3>1, <3>3, <3>4
  <2>3. Synthesized(3, s, in, Tail(out))
    BY <2>1, <2>2 DEF Synthesized
  <2> QED BY <1>1, <2>2, <2>3 DEF Hearing, Exchange
<1>2. CASE l = 3
  <2>1. s = "ready" /\ in = <<>> /\ out = Settled
    BY <1>2 DEF Synthesized
  <2>2. /\ Head(out) = Message("audioMetadata") /\ Tail(out) # <<>>
        /\ Head(Tail(out)) = Message("audio")
    BY <2>1 DEF Settled
  <2>3. Synthesized(4, s, in, Tail(out))
    BY <2>1 DEF Synthesized
  <2> QED BY <1>2, <2>2, <2>3 DEF Hearing, Exchange
<1>3. CASE l = 4
  <2>1. s = "ready" /\ in = <<>> /\ out = Tail(Settled)
    BY <1>3 DEF Synthesized
  <2>2. /\ Head(out) = Message("audio")
        /\ Tail(out) = <<Message("completed"), State("ready")>>
    BY <2>1 DEF Settled
  <2>3. Synthesized(5, s, in, Tail(out))
    BY <2>1, <2>2 DEF Synthesized
  <2> QED BY <1>3, <2>2, <2>3 DEF Hearing, Exchange
<1>4. CASE l = 5
  <2>1. s = "ready" /\ in = <<>> /\ out = <<Message("completed"), State("ready")>>
    BY <1>4 DEF Synthesized
  <2>2. Head(out) = Message("completed") /\ Synthesized(6, s, in, Tail(out))
    BY <2>1 DEF Synthesized
  <2> QED BY <1>4, <2>2 DEF Hearing, Exchange
<1>5. CASE l = 6
  <2>1. s = "ready" /\ in = <<>> /\ out = <<State("ready")>>
    BY <1>5 DEF Synthesized
  <2> QED BY <1>5, <2>1 DEF Hearing
<1> QED BY <1>1, <1>2, <1>3, <1>4, <1>5

LEMMA HearsStopping ==
    ASSUME NEW l \in 1 .. 3, NEW s, NEW in, NEW out, NEW known,
           ShutDown(l, s, in, out), Script["shutdown"][l].does # "send", out # <<>>
    PROVE  Hearing("shutdown", l, s, in, out, known)
<1> USE Lines, FrameFields, Taken DEF Heard, Takes
<1>1. CASE l = 2
  <2>1. s = "stopped" /\ in = <<>> /\ out = Says.shutdown
    BY <1>1 DEF ShutDown
  <2>2. Head(out) = State("stopping") /\ Tail(out) = <<State("stopped")>>
    BY <2>1 DEF Says
  <2>3. ShutDown(3, s, in, Tail(out))
    BY <2>1, <2>2 DEF ShutDown
  <2> QED BY <1>1, <2>2, <2>3 DEF Hearing, Exchange
<1>2. CASE l = 3
  <2>1. s = "stopped" /\ in = <<>> /\ out = <<State("stopped")>>
    BY <1>2 DEF ShutDown
  <2> QED BY <1>2, <2>1 DEF Hearing
<1> QED BY <1>1, <1>2

LEMMA Hears ==
    ASSUME NEW c \in DOMAIN Script, NEW l \in 1 .. Len(Script[c]), NEW s, NEW in, NEW out,
           NEW known, Exchange(c, l, s, in, out, known), Script[c][l].does # "send",
           out # <<>>
    PROVE  Hearing(c, l, s, in, out, known)
BY Scripts, Lines, HearsGreeting, HearsLoading, HearsSynthesis, HearsStopping,
   ZenonT(60) DEF Exchange

\* Where nothing has come yet, the service is going to answer.
LEMMA Owes ==
    ASSUME NEW c \in DOMAIN Script, NEW l \in 1 .. Len(Script[c]), NEW s, NEW in, NEW out,
           NEW known, Exchange(c, l, s, in, out, known), out = <<>>
    PROVE  s # "stopped"
<1>1. <<State("stopping"), State("stopped")>> # <<>> /\ <<State("stopped")>> # <<>>
  BY Taken
<1> QED BY <1>1 DEF Exchange, Greeted, Loaded, Synthesized, ShutDown, Says

-----------------------------------------------------------------------------
(* Talking, as long as nothing goes wrong *)

\* A thread that talks says and hears what is due, and goes on or leaves the service
\* at rest or gone.
Speaks(t, at, line, session, reply) ==
    /\ Moves(t, at, line, session, reply)
    /\ at \in {"talking", "deciding", "leaving", "failed", "replied"}
    /\ at = "leaving" => work[t].command = "shutdown"
    /\ reply # "protocolRejected"
    /\ at = "talking" /\ Takes(work[t].command, line)
          => stdout' # <<>> /\ Head(stdout') = Message("audio")
    /\ Live =>
          /\ at = "talking" =>
                /\ Exchange(work[t].command, line, service', stdin', stdout',
                            lifecycle'.state)
                /\ service' # "stopped" <=> alive'
          /\ at = "leaving" => ~alive'
          /\ at \notin {"talking", "leaving"} =>
                Quiescent' /\ (work[t].command = "prepare" => reply = "ok")
    /\ UNCHANGED <<service, alive, stdinOpen, slot>>

\* Nobody else talks, or is about to.
LEMMA TalksAlone ==
    ASSUME Sound, NEW t \in Threads, work[t].at \in Operative
    PROVE  \A u \in Threads : work[u].at \in Operative => u = t
BY DEF Sound, Orderly, Holding

LEMMA SpeakingKeeps ==
    ASSUME Sound, UNCHANGED clientVars, Healthy, NEW t \in Threads, NEW at, NEW line,
           NEW session, NEW reply, work[t].at = "talking",
           Speaks(t, at, line, session, reply)
    PROVE  Healthy'
<1>1. /\ \A u \in Threads : u # t => work'[u] = work[u]
      /\ work'[t].at = at /\ work'[t].line = line /\ work'[t].reply = reply
      /\ \A u \in Threads : work'[u].command = work[u].command
      /\ client' = client /\ (Live' <=> Live)
  BY DEF Speaks, Moves, clientVars, Live
<1>2. \A u \in Threads : u # t => work[u].at \notin Operative
  BY TalksAlone DEF Operative
<1>3. Exchanging'
  <2>1. ASSUME NEW u \in Threads, Live', work'[u].at = "talking"
        PROVE  /\ Exchange(work'[u].command, work'[u].line, service', stdin', stdout',
                           lifecycle'.state)
               /\ alive' <=> service' # "stopped"
    <3>1. u = t
      BY <1>1, <1>2, <2>1 DEF Operative
    <3> QED BY <1>1, <2>1, <3>1 DEF Speaks
  <2> QED BY <2>1 DEF Exchanging
<1>4. Resting'
  <2>1. ASSUME Live', \A u \in Threads : ~Busy(u)' PROVE Quiescent'
    BY <1>1, <2>1 DEF Busy, Speaks
  <2>2. ASSUME Live', NEW u \in Threads, work'[u].at = "leaving" PROVE ~alive'
    BY <1>1, <1>2, <2>2 DEF Operative, Speaks
  <2> QED BY <2>1, <2>2 DEF Resting
<1>5. Opened'
  BY <1>1 DEF Healthy, Opened, Speaks, EndPoints, Terminating
<1>6. Sounding'
  <2>1. ASSUME NEW u \in Threads, work'[u].at = "talking",
               Takes(work'[u].command, work'[u].line)
        PROVE  stdout' # <<>> /\ Head(stdout') = Message("audio")
    BY <1>1, <1>2, <2>1 DEF Operative, Speaks
  <2> QED BY <2>1 DEF Sounding
<1>7. Loading'
  <2>1. Pending("start")' <=> Pending("start")
    BY <1>1 DEF Pending
  <2>2. Warm' <=> Warm
    BY DEF Warm, Speaks
  <2>3. ASSUME Live, Warm, client.state = "unloaded" \/ Pending("start")
        PROVE  \E u \in Threads : /\ work'[u].command = "prepare"
                                  /\ work'[u].at = "talking" \/ work'[u].reply = "ok"
    <3>1. PICK u \in Threads : /\ work[u].command = "prepare"
                               /\ work[u].at = "talking" \/ work[u].reply = "ok"
      BY <2>3 DEF Healthy, Loading
    <3>2. CASE u # t
      BY <1>1, <3>1, <3>2
    <3>3. CASE u = t /\ at \in {"talking", "leaving"}
      <4>1. at = "talking"
        BY <1>1, <3>1, <3>3 DEF Speaks
      <4> QED BY <1>1, <3>1, <3>3, <4>1
    <3>4. CASE u = t /\ at \notin {"talking", "leaving"}
      BY <1>1, <2>3, <3>1, <3>4 DEF Speaks
    <3> QED BY <3>2, <3>3, <3>4
  <2>4. ASSUME Live, NEW u \in Threads, work'[u].command = "prepare",
               work'[u].at \in {"entering", "opening"}
        PROVE  ~Warm
    BY <1>1, <2>4 DEF Speaks, Healthy, Loading
  <2> QED BY <1>1, <2>1, <2>2, <2>3, <2>4 DEF Loading
<1>8. Unrejected'
  BY <1>1 DEF Healthy, Unrejected, Speaks
<1> QED BY <1>3, <1>4, <1>5, <1>6, <1>7, <1>8 DEF Healthy

\* Only the sound is taken without asking whether the session is still published.
LEMMA OnlySoundIsTaken ==
    ASSUME NEW c \in DOMAIN Script, NEW l \in 1 .. Len(Script[c]),
           Script[c][l].does = "take"
    PROVE  Takes(c, l) /\ ~Takes(c, l + 1) /\ l < Len(Script[c])
           /\ Script[c][l].what = Message("audio")
<1> USE Lines, FrameFields
<1>1. c \in {"start", "prepare", "synthesize", "shutdown"}
  BY Scripts
<1>2. c # "start"
  <2>1. SUFFICES ASSUME c = "start" PROVE FALSE
    OBVIOUS
  <2>2. l \in 1 .. 5
    BY <2>1
  <2>3. l \in {1, 2, 3, 4, 5}
    BY ONLY <2>2
  <2> QED BY <2>1, <2>3
<1>3. c # "prepare"
  <2>1. SUFFICES ASSUME c = "prepare" PROVE FALSE
    OBVIOUS
  <2>2. l \in 1 .. 6
    BY <2>1
  <2>3. l \in {1, 2, 3, 4, 5, 6}
    BY ONLY <2>2
  <2> QED BY <2>1, <2>3
<1>4. c # "shutdown"
  <2>1. SUFFICES ASSUME c = "shutdown" PROVE FALSE
    OBVIOUS
  <2>2. l \in 1 .. 3
    BY <2>1
  <2>3. l \in {1, 2, 3}
    BY ONLY <2>2
  <2> QED BY <2>1, <2>3
<1>5. c = "synthesize"
  BY <1>1, <1>2, <1>3, <1>4
<1>6. l \in {1, 2, 3, 4, 5, 6}
  <2>1. l \in 1 .. 6
    BY <1>5
  <2> QED BY ONLY <2>1
<1>7. l = 4
  BY <1>5, <1>6
<1>8. Script[c][l].what = Message("audio")
  <2>1. Script["synthesize"][4] = [does |-> "take", what |-> Message("audio")]
    OBVIOUS
  <2> QED BY ONLY <1>5, <1>7, <2>1
<1> QED BY <1>5, <1>7, <1>8 DEF Takes

\* A line fails in silence only where there is no session to talk to any more.
LEMMA GivesUp ==
    ASSUME NEW t \in Threads, NEW failure, Abandoned(t, failure), ~Live,
           failure # "protocolRejected", UNCHANGED <<service, alive, stdinOpen, slot>>
    PROVE  \E at, line, session, reply : Speaks(t, at, line, session, reply)
<1>1. \/ Moves(t, "failed", work[t].line, work[t].session, failure)
      \/ Moves(t, "deciding", work[t].line, work[t].session, failure)
  BY DEF Abandoned
<1>2. CASE Moves(t, "failed", work[t].line, work[t].session, failure)
  BY <1>2 DEF Speaks
<1>3. CASE Moves(t, "deciding", work[t].line, work[t].session, failure)
  BY <1>3 DEF Speaks
<1> QED BY <1>1, <1>2, <1>3

\* What a thread that talks relies on.
LEMMA TalksInTurn ==
    ASSUME Sound, Healthy, NEW t \in Threads, work[t].at = "talking"
    PROVE  /\ WorkTyped /\ Stations
           /\ work[t].command \in DOMAIN Script
           /\ work[t].line \in 1 .. Len(Script[work[t].command])
           /\ work[t].line \in Nat /\ Len(Script[work[t].command]) \in Nat
           /\ work[t].reply # "protocolRejected"
           /\ Live => /\ Exchange(work[t].command, work[t].line, service, stdin, stdout,
                                  lifecycle.state)
                      /\ alive <=> service # "stopped"
                      /\ slot = work[t].session
           /\ ~Live /\ SlotFree => slot # work[t].session
           /\ stdinOpen /\ alive => Live
           /\ Shaped(lifecycle)
<1>1. /\ Inv /\ WorkTyped /\ Stations /\ slot \in {NoChild, R} /\ Shaped(lifecycle)
  BY DEF Sound, Inv, SupervisorTyped
<1>2. \A u \in Threads : work[u].at # "retiring"
  BY TalksAlone DEF Operative
<1>3. ~stdinOpen /\ SlotFree => slot = NoChild
  BY <1>2 DEF Healthy, Opened, EndPoints, SlotFree
<1>4. alive => slot # NoChild
  BY <1>1 DEF Inv, Children
<1> QED BY <1>1, <1>3, <1>4, TalksWhere DEF Healthy, Exchanging, Unrejected, Live

LEMMA Writing ==
    ASSUME Sound, Healthy, NEW t \in Threads, write_control(t), faults' = 0
    PROVE  \E at, line, session, reply : Speaks(t, at, line, session, reply)
<1> DEFINE written == Append(stdin, Line(t).what.kind)
<1>1. /\ work[t].at = "talking" /\ Line(t).does = "send"
      /\ UNCHANGED <<service, alive, stdinOpen, stdout, slot, lifecycle>>
  BY DEF write_control
<1>2. \/ stdinOpen /\ alive /\ stdin' = written /\ advance(t)
      \/ ~(stdinOpen /\ alive) /\ abandon(t, "unavailable")
      \/ ~stdinOpen /\ abandon(t, "cancelled")
  BY Counted DEF write_control, Sound
<1>3. Live => alive
  BY <1>1, TalksInTurn, Sends DEF Line
<1>4. CASE stdinOpen /\ alive /\ stdin' = written /\ advance(t)
  <2>1. /\ work[t].line < Len(Script[work[t].command])
        /\ ~Takes(work[t].command, work[t].line + 1)
        /\ Exchange(work[t].command, work[t].line + 1, service, written, stdout,
                    lifecycle.state)
        /\ service # "stopped"
    BY <1>1, <1>4, TalksInTurn, Sends DEF Line
  <2>2. Moves(t, "talking", work[t].line + 1, work[t].session, work[t].reply)
    BY <1>1, <1>4, <2>1, TalksInTurn, Advances DEF Advanced
  <2>3. Speaks(t, "talking", work[t].line + 1, work[t].session, work[t].reply)
    BY <1>1, <1>4, <2>1, <2>2, TalksInTurn DEF Speaks
  <2> QED BY <2>3
<1>5. CASE ~(stdinOpen /\ alive) /\ abandon(t, "unavailable")
  <2>1. ~Live /\ Abandoned(t, "unavailable")
    BY <1>1, <1>3, <1>5, Abandons, TalksInTurn DEF Live, Failures
  <2> QED BY <1>1, <2>1, GivesUp
<1>6. CASE ~stdinOpen /\ abandon(t, "cancelled")
  <2>1. ~Live /\ Abandoned(t, "cancelled")
    BY <1>1, <1>6, Abandons, TalksInTurn DEF Live, Failures
  <2> QED BY <1>1, <2>1, GivesUp
<1> QED BY <1>2, <1>4, <1>5, <1>6

LEMMA Missing ==
    ASSUME Sound, Healthy, NEW t \in Threads, receiveFails(t), faults' = 0
    PROVE  \E at, line, session, reply : Speaks(t, at, line, session, reply)
<1>1. /\ work[t].at = "talking" /\ ~alive /\ stdout = <<>> /\ abandon(t, "unavailable")
      /\ UNCHANGED <<service, alive, stdinOpen, slot>>
  BY Counted DEF receiveFails, Sound
<1>2. ~Live
  BY <1>1, TalksInTurn, Owes
<1>3. Abandoned(t, "unavailable")
  BY <1>1, Abandons, TalksInTurn DEF Failures
<1> QED BY <1>1, <1>2, <1>3, GivesUp

\* As long as the session is published, every frame is the one that is awaited.
LEMMA Reading ==
    ASSUME Sound, Healthy, NEW t \in Threads, receive_control(t)
    PROVE  \E at, line, session, reply : Speaks(t, at, line, session, reply)
<1> DEFINE c == work[t].command
           l == work[t].line
           frame == Head(stdout)
           current == Line(t).does = "take" \/ slot = work[t].session
           found == IF current THEN verdict(frame, Line(t)) ELSE "cancelled"
<1>1. /\ work[t].at = "talking" /\ Line(t).does # "send" /\ stdout # <<>>
      /\ Line(t).does = "take" \/ SlotFree
      /\ stdout' = Tail(stdout)
      /\ IF found = "ok" THEN advance(t) ELSE abandon(t, found)
      /\ lifecycle' = IF current /\ frame.kind = "state" /\ Line(t).what.kind = "state"
                      THEN [lifecycle EXCEPT !.state = frame.state]
                      ELSE lifecycle
      /\ UNCHANGED <<service, alive, stdin, stdinOpen, slot>>
  BY DEF receive_control
<1>2. /\ WorkTyped /\ Stations /\ c \in DOMAIN Script /\ l \in 1 .. Len(Script[c])
      /\ Line(t) = Script[c][l] /\ work[t].reply # "protocolRejected"
      /\ l \in Nat /\ Len(Script[c]) \in Nat
  BY <1>1, TalksInTurn DEF Line
<1>3. CASE Live
  <2>1. /\ Hearing(c, l, service, stdin, stdout, lifecycle.state)
        /\ alive <=> service # "stopped"
    BY <1>1, <1>2, <1>3, TalksInTurn, Hears
  <2>2. frame = Line(t).what /\ Line(t).what.kind # "engineError"
    BY <1>2, <2>1 DEF Hearing
  <2>3. current
    BY <1>1, <1>3, TalksInTurn
  <2>4. found = "ok"
    BY <2>2, <2>3, Awaits
  <2>5. lifecycle'.state = Heard(Script[c][l], lifecycle.state)
    <3>1. Shaped(lifecycle)
      BY <1>1, TalksInTurn
    <3> HIDE DEF frame, current, found, c, l
    <3> QED BY <1>1, <1>2, <2>2, <2>3, <3>1 DEF Heard, Shaped
  <2>6. Advanced(t)
    BY <1>1, <1>2, <2>4, Advances
  <2>7. CASE l < Len(Script[c])
    <3>1. Moves(t, "talking", l + 1, work[t].session, work[t].reply)
      BY <1>2, <2>6, <2>7 DEF Advanced
    <3>2. /\ Exchange(c, l + 1, service', stdin', stdout', lifecycle'.state)
          /\ Takes(c, l + 1) => stdout' # <<>> /\ Head(stdout') = Message("audio")
      BY <1>1, <2>1, <2>5, <2>7 DEF Hearing
    <3>3. Speaks(t, "talking", l + 1, work[t].session, work[t].reply)
      BY <1>1, <1>2, <2>1, <3>1, <3>2 DEF Speaks
    <3> QED BY <3>3
  <2>8. CASE l = Len(Script[c])
    <3>1. CASE c = "shutdown"
      <4>1. Moves(t, "leaving", l, work[t].session, work[t].reply)
        BY <1>2, <2>6, <2>8, <3>1 DEF Advanced
      <4>2. ~alive
        BY <2>1, <2>8, <3>1 DEF Hearing
      <4>3. Speaks(t, "leaving", l, work[t].session, work[t].reply)
        BY <1>1, <1>2, <3>1, <4>1, <4>2 DEF Speaks
      <4> QED BY <4>3
    <3>2. CASE c # "shutdown"
      <4>1. Quiescent'
        BY <1>1, <2>1, <2>5, <2>8, <3>2 DEF Hearing, Quiescent
      <4>2. \/ Moves(t, "deciding", l, work[t].session, work[t].reply) /\ c = "synthesize"
            \/ Moves(t, "replied", l, work[t].session, "ok")
        BY <1>2, <2>6, <2>8, <3>2 DEF Advanced
      <4>3. CASE Moves(t, "deciding", l, work[t].session, work[t].reply) /\ c = "synthesize"
        <5>1. Speaks(t, "deciding", l, work[t].session, work[t].reply)
          BY <1>1, <1>2, <4>1, <4>3 DEF Speaks
        <5> QED BY <5>1
      <4>4. CASE Moves(t, "replied", l, work[t].session, "ok")
        <5>1. Speaks(t, "replied", l, work[t].session, "ok")
          BY <1>1, <1>2, <4>1, <4>4 DEF Speaks
        <5> QED BY <5>1
      <4> QED BY <4>2, <4>3, <4>4
    <3> QED BY <3>1, <3>2
  <2> QED BY <1>2, <2>7, <2>8
<1>4. CASE ~Live /\ Line(t).does = "take"
  <2>1. Takes(c, l) /\ ~Takes(c, l + 1) /\ l < Len(Script[c])
        /\ Line(t).what = Message("audio")
    BY <1>2, <1>4, OnlySoundIsTaken
  <2>2. frame = Message("audio")
    BY <1>1, <2>1 DEF Healthy, Sounding
  <2>3. frame.kind # "engineError"
    BY <2>2, FrameFields
  <2>4. found = "ok"
    BY <1>4, <2>1, <2>2, <2>3, Awaits
  <2>5. Advanced(t)
    BY <1>1, <1>2, <2>4, Advances
  <2>6. Moves(t, "talking", l + 1, work[t].session, work[t].reply)
    BY <1>2, <2>1, <2>5 DEF Advanced
  <2>7. Speaks(t, "talking", l + 1, work[t].session, work[t].reply)
    BY <1>1, <1>2, <1>4, <2>1, <2>6 DEF Speaks
  <2> QED BY <2>7
<1>5. CASE ~Live /\ Line(t).does # "take"
  <2>1. ~current
    BY <1>1, <1>5, TalksInTurn
  <2>2. Abandoned(t, "cancelled")
    BY <1>1, <1>2, <2>1, Abandons DEF Failures
  <2> QED BY <1>1, <1>5, <2>2, GivesUp
<1> QED BY <1>3, <1>4, <1>5

LEMMA TalkingKeeps ==
    ASSUME Sound, Inv', UNCHANGED clientVars, NEW t \in Threads, Talking(t)
    PROVE  Sound'
<1>0. /\ Inv /\ WorkTyped /\ Stations /\ SupervisorTyped /\ stdout \in Seq(Frames)
      /\ Orderly
  BY DEF Sound, Inv, Orderly, Spoken
<1>1. Talks(t) /\ work[t].at = "talking"
  BY <1>0, Talk DEF Talks
<1>2. stdout' \in Seq(Frames)
  <2>1. CASE receive_control(t)
    <3>1. stdout # <<>> /\ stdout' = Tail(stdout)
      BY <2>1 DEF receive_control
    <3>2. Tail(stdout) \in Seq(Frames)
      BY <1>0, <3>1, HeadTailProperties
    <3> QED BY <3>1, <3>2
  <2>2. CASE write_control(t) \/ receiveFails(t)
    <3>1. stdout' = stdout
      BY <2>2 DEF write_control, receiveFails
    <3> QED BY <1>0, <3>1
  <2> QED BY <2>1, <2>2 DEF Talking
<1>3. \E at, line, session, reply :
         Moves(t, at, line, session, reply) /\ Locked(t, at) /\ at # "claiming"
  <2>1. work[t].at \in Operative
    BY <1>1 DEF Operative
  <2>2. \A at : KeepsLocks => Locked(t, at)
    BY <2>1, Unlocked DEF KeepsLocks
  <2>3. Release(t) => Locked(t, "replied")
    BY Unlocked DEF Operative
  <2>4. \/ Advanced(t)
        \/ \E failure \in Failures : Abandoned(t, failure)
    BY <1>0, <1>1, TalkMoves
  <2>5. CASE Advanced(t)
    BY <2>2, <2>3, <2>5 DEF Advanced
  <2>6. CASE \E failure \in Failures : Abandoned(t, failure)
    BY <2>2, <2>6 DEF Abandoned
  <2> QED BY <2>4, <2>5, <2>6
<1>4. Orderly'
  BY <1>0, <1>2, <1>3, OrderKept DEF Orderly, Spoken
<1>5. ASSUME faults' = 0 PROVE Healthy'
  <2>1. faults = 0
    BY <1>0, <1>5, Counted DEF Talking, write_control, receive_control, receiveFails
  <2>2. Healthy
    BY <2>1 DEF Sound
  <2>3. \E at, line, session, reply : Speaks(t, at, line, session, reply)
    BY <1>5, <2>2, Writing, Reading, Missing DEF Talking
  <2> QED BY <1>1, <2>2, <2>3, SpeakingKeeps
<1> QED BY <1>4, <1>5 DEF Sound

-----------------------------------------------------------------------------
(* A conversation begins *)

\* The thread has the service to itself and finds it where it expects it.
Begins(t, session, reply) ==
    /\ Moves(t, "talking", 1, session, reply)
    /\ operation' = t
    /\ operation \in {t, Nobody}
    /\ stdout' \in Seq(Frames)
    /\ faults' = 0 =>
          /\ faults = 0 /\ reply # "protocolRejected" /\ Opened' /\ Loading'
          /\ Live' => /\ Exchange(work[t].command, 1, service', stdin', stdout',
                                  lifecycle'.state)
                      /\ alive' /\ service' # "stopped"

LEMMA BeginningKeeps ==
    ASSUME Sound, Inv', UNCHANGED clientVars, NEW t \in Threads, NEW session, NEW reply,
           Begins(t, session, reply)
    PROVE  Sound'
<1>1. Moves(t, "talking", 1, session, reply) /\ Locked(t, "talking")
  BY DEF Begins, Locked, Nobody, Threads
<1>2. Holding' /\ Preparing'
  BY <1>1, OrderKept DEF Sound
<1>3. Orderly'
  BY <1>2 DEF Orderly, Spoken, Begins
<1>4. ASSUME faults' = 0 PROVE Healthy'
  <2>1. /\ Healthy /\ reply # "protocolRejected" /\ Opened' /\ Loading'
        /\ Live' => /\ Exchange(work[t].command, 1, service', stdin', stdout',
                                lifecycle'.state)
                    /\ alive' /\ service' # "stopped"
    BY <1>4 DEF Begins, Sound
  <2>2. \A u \in Threads : work'[u].at \in Operative => u = t
    BY <1>2 DEF Holding, Begins
  <2>3. /\ work'[t].at = "talking" /\ work'[t].line = 1 /\ work'[t].reply = reply
        /\ work'[t].command = work[t].command
        /\ \A u \in Threads : u # t => work'[u] = work[u]
    BY <1>1 DEF Moves
  <2>4. Exchanging'
    BY <2>1, <2>2, <2>3 DEF Exchanging, Operative
  <2>5. Resting'
    BY <2>2, <2>3 DEF Resting, Busy, Operative
  <2>6. Sounding'
    BY <2>2, <2>3 DEF Sounding, Takes, Operative
  <2>7. Unrejected'
    BY <2>1, <2>3 DEF Unrejected, Healthy
  <2> QED BY <2>1, <2>4, <2>5, <2>6, <2>7 DEF Healthy
<1> QED BY <1>3, <1>4 DEF Sound

\* A thread that holds the operation and has not begun finds the service at rest.
LEMMA FindsItAtRest ==
    ASSUME Sound, Healthy, NEW t \in Threads, work[t].at \in {"opening", "claiming", "stopping"},
           Live
    PROVE  Quiescent
<1>1. \A u \in Threads : work[u].at \in Operative => u = t
  BY TalksAlone DEF Operative
<1>2. \A u \in Threads : ~Busy(u)
  BY <1>1 DEF Busy, Operative
<1> QED BY <1>2 DEF Healthy, Resting

\* A session that somebody begins to talk to is still published, or not, as before.
LEMMA BeginsOpened ==
    ASSUME Healthy, NEW t \in Threads, NEW session, NEW reply,
           Moves(t, "talking", 1, session, reply), work[t].at \notin EndPoints,
           UNCHANGED <<slot, stdinOpen>>
    PROVE  Opened'
BY DEF Healthy, Opened, Moves

\* What was loaded stays known.
LEMMA BeginsLoading ==
    ASSUME Healthy, UNCHANGED clientVars, NEW t \in Threads, NEW session, NEW reply,
           Moves(t, "talking", 1, session, reply), work[t].command # "prepare",
           UNCHANGED <<slot, stdinOpen, service>>
    PROVE  Loading'
<1>1. /\ \A u \in Threads : u # t => work'[u] = work[u]
      /\ \A u \in Threads : work'[u].command = work[u].command
      /\ client' = client /\ (Live' <=> Live) /\ (Warm' <=> Warm)
  BY DEF Moves, clientVars, Live, Warm
<1>2. Pending("start")' <=> Pending("start")
  BY <1>1 DEF Pending
<1> QED BY <1>1, <1>2 DEF Healthy, Loading

LEMMA PreparationBegins ==
    ASSUME Sound, Inv', UNCHANGED clientVars, NEW t \in Threads, active_session(t),
           slot # NoChild, work[t].command # "synthesize"
    PROVE  Sound'
<1>0. /\ Inv /\ work[t].at = "opening" /\ stdout \in Seq(Frames) /\ 1 \in Nat
      /\ UNCHANGED <<serviceVars, slot, lifecycle>>
  BY DEF Sound, Orderly, Spoken, active_session
<1>1. /\ work[t].command = "prepare" /\ slot \in {NoChild, R} /\ work[t].reply \in Outcomes
  BY <1>0, AtPoint DEF Stands
<1>2. work' = [work EXCEPT ![t].session = slot, ![t].line = 1, ![t].at = "talking"]
      /\ operation' = operation
  BY DEF active_session
<1>3. Moves(t, "talking", 1, slot, work[t].reply)
  BY <1>0, <1>1, <1>2, Moved, Literals DEF Inv
<1>4. operation = t
  BY <1>0 DEF Sound, Orderly, Holding, Operative
<1>5. ASSUME faults' = 0
      PROVE  /\ faults = 0 /\ work[t].reply # "protocolRejected" /\ Opened' /\ Loading'
             /\ Live' => /\ Exchange(work[t].command, 1, service', stdin', stdout',
                                     lifecycle'.state)
                         /\ alive' /\ service' # "stopped"
  <2>1. faults = 0 /\ Healthy
    BY <1>0, <1>5 DEF serviceVars, Sound
  <2>2. Live => ~Warm
    BY <1>0, <1>1, <2>1 DEF Healthy, Loading
  <2>3. (Live' <=> Live) /\ (Warm' <=> Warm)
    BY <1>0 DEF serviceVars, Live, Warm
  <2>4. Loading'
    BY <2>2, <2>3 DEF Loading
  <2>5. Opened'
    BY <1>0, <1>3, <2>1, BeginsOpened DEF EndPoints, Terminating, serviceVars
  <2>6. ASSUME Live
        PROVE  Exchange("prepare", 1, service, stdin, stdout, lifecycle.state) /\ alive
               /\ service # "stopped"
    <3>1. Quiescent
      BY <1>0, <2>1, <2>6, FindsItAtRest
    <3>2. service = "unloaded"
      BY <2>2, <2>6, <3>1 DEF Quiescent, Warm
    <3> QED BY <3>1, <3>2 DEF Quiescent, Exchange, Loaded
  <2> QED BY <1>0, <1>1, <2>1, <2>3, <2>4, <2>5, <2>6
          DEF serviceVars, Healthy, Unrejected
<1>6. Begins(t, slot, work[t].reply)
  BY <1>0, <1>2, <1>3, <1>4, <1>5 DEF Begins, serviceVars
<1> QED BY <1>6, BeginningKeeps

LEMMA SynthesisBegins ==
    ASSUME Sound, Inv', UNCHANGED clientVars, NEW t \in Threads, claim(t),
           lifecycle.state = "ready", lifecycle.active = NoSynthesis
    PROVE  Sound'
<1>0. /\ Inv /\ work[t].at = "claiming" /\ stdout \in Seq(Frames)
      /\ UNCHANGED <<serviceVars, slot>>
  BY DEF Sound, Orderly, Spoken, claim
<1>1. /\ work[t].command = "synthesize" /\ Shaped(lifecycle)
  BY <1>0, AtPoint DEF Stands
<1>2. /\ Goto(t, "talking") /\ operation' = operation
      /\ lifecycle' = [lifecycle EXCEPT !.active = work[t].synthesis]
  BY DEF claim
<1>3. operation = t /\ work[t].line = 1
  BY <1>0 DEF Sound, Orderly, Holding, Operative
<1>4. Moves(t, "talking", 1, work[t].session, work[t].reply)
  BY <1>0, <1>2, <1>3, Goes, Literals DEF Inv
<1>5. lifecycle'.state = "ready"
  BY <1>1, <1>2 DEF Shaped
<1>6. ASSUME faults' = 0
      PROVE  /\ faults = 0 /\ work[t].reply # "protocolRejected" /\ Opened' /\ Loading'
             /\ Live' => /\ Exchange(work[t].command, 1, service', stdin', stdout',
                                     lifecycle'.state)
                         /\ alive' /\ service' # "stopped"
  <2>1. faults = 0 /\ Healthy
    BY <1>0, <1>6 DEF serviceVars, Sound
  <2>2. Live' <=> Live
    BY <1>0 DEF serviceVars, Live
  <2>3. Loading'
    BY <1>0, <1>1, <1>4, <2>1, BeginsLoading DEF serviceVars
  <2>4. Opened'
    BY <1>0, <1>4, <2>1, BeginsOpened DEF EndPoints, Terminating, serviceVars
  <2>5. ASSUME Live
        PROVE  Exchange("synthesize", 1, service, stdin, stdout, "ready") /\ alive
               /\ service # "stopped"
    <3>1. Quiescent
      BY <1>0, <2>1, <2>5, FindsItAtRest
    <3> QED BY <3>1 DEF Quiescent, Exchange, Synthesized
  <2> QED BY <1>0, <1>1, <1>5, <2>1, <2>2, <2>3, <2>4, <2>5
          DEF serviceVars, Healthy, Unrejected
<1>7. Begins(t, work[t].session, work[t].reply)
  BY <1>0, <1>2, <1>3, <1>4, <1>6 DEF Begins, serviceVars
<1> QED BY <1>7, BeginningKeeps

LEMMA EndBegins ==
    ASSUME Sound, Inv', UNCHANGED clientVars, NEW t \in Threads, markStopping(t)
    PROVE  Sound'
<1>0. /\ Inv /\ work[t].at = "stopping" /\ stdout \in Seq(Frames) /\ 1 \in Nat
      /\ UNCHANGED <<serviceVars, slot, operation>>
      /\ work' = [work EXCEPT ![t].at = "talking", ![t].line = 1]
  BY DEF Sound, Orderly, Spoken, markStopping
<1>1. work[t].command = "shutdown" /\ work[t].reply \in Outcomes
      /\ work[t].session \in {NoChild, R}
  BY <1>0, AtPoint DEF Stands
<1>2. operation = t
  BY <1>0 DEF Sound, Orderly, Holding, Operative
<1>3. Moves(t, "talking", 1, work[t].session, work[t].reply)
  BY <1>0, <1>1, Moved, Literals DEF Inv
<1>4. ASSUME faults' = 0
      PROVE  /\ faults = 0 /\ work[t].reply # "protocolRejected" /\ Opened' /\ Loading'
             /\ Live' => /\ Exchange(work[t].command, 1, service', stdin', stdout',
                                     lifecycle'.state)
                         /\ alive' /\ service' # "stopped"
  <2>1. faults = 0 /\ Healthy
    BY <1>0, <1>4 DEF serviceVars, Sound
  <2>2. Live' <=> Live
    BY <1>0 DEF serviceVars, Live
  <2>3. Loading'
    BY <1>0, <1>1, <1>3, <2>1, BeginsLoading DEF serviceVars
  <2>4. Opened'
    BY <1>0, <1>3, <2>1, BeginsOpened DEF EndPoints, Terminating, serviceVars
  <2>5. ASSUME Live
        PROVE  (\A known : Exchange("shutdown", 1, service, stdin, stdout, known)) /\ alive
               /\ service # "stopped"
    <3>1. Quiescent
      BY <1>0, <2>1, <2>5, FindsItAtRest
    <3> QED BY <3>1 DEF Quiescent, Exchange, ShutDown
  <2> QED BY <1>0, <1>1, <2>1, <2>2, <2>3, <2>4, <2>5
          DEF serviceVars, Healthy, Unrejected
<1>5. Begins(t, work[t].session, work[t].reply)
  BY <1>0, <1>2, <1>3, <1>4 DEF Begins, serviceVars
<1> QED BY <1>5, BeginningKeeps

LEMMA SessionBegins ==
    ASSUME Sound, Inv', UNCHANGED clientVars, NEW t \in Threads, work[t].at = "spawning",
           publish(t)
    PROVE  Sound'
<1>0. /\ Inv /\ service' = "starting" /\ alive' /\ stdin' = <<>> /\ stdinOpen'
      /\ stdout' = <<>> /\ faults' = faults /\ operation' = operation /\ 1 \in Nat
      /\ work' = [work EXCEPT ![t].at = "talking", ![t].line = 1,
                              ![t].session = work[t].request]
  BY DEF Sound, publish, ServiceBorn
<1>1. work[t].command = "start" /\ work[t].reply \in Outcomes /\ work[t].request = R
  BY <1>0, AtPoint DEF Stands, StartPoints
<1>2. operation = t
  BY DEF Sound, Orderly, Holding, Operative
<1>3. Moves(t, "talking", 1, R, work[t].reply)
  BY <1>0, <1>1, Moved, Literals DEF Inv
<1>4. Opened' /\ Loading'
  BY <1>0 DEF Opened, Loading, Warm
<1>5. \A known : Exchange("start", 1, "starting", <<>>, <<>>, known)
  BY DEF Exchange, Greeted
<1>6. faults = 0 => work[t].reply # "protocolRejected"
  BY DEF Sound, Healthy, Unrejected
<1>7. Begins(t, R, work[t].reply)
  <2> HIDE DEF Frames
  <2> QED BY <1>0, <1>1, <1>2, <1>3, <1>4, <1>5, <1>6 DEF Begins
<1> QED BY <1>7, BeginningKeeps

\* Every step of a thread keeps all that is held.
LEMMA ThreadsKeep ==
    ASSUME Sound, Inv', UNCHANGED clientVars, NEW t \in Threads, Step(t)
    PROVE  Sound'
<1>1. CASE Starting(t)
  <2>1. CASE start_selected_attempt(t) /\ publish(t)
    BY <2>1, SessionBegins DEF start_selected_attempt
  <2>2. CASE ~(start_selected_attempt(t) /\ publish(t))
    BY <1>1, <2>2, CalmStarts, CalmKeeps DEF Starting
  <2> QED BY <2>1, <2>2
<1>2. CASE Talking(t)
  BY <1>2, TalkingKeeps
<1>3. CASE Operating(t) \/ Failing(t)
  <2>1. CASE /\ active_session(t) /\ slot # NoChild /\ work[t].command # "synthesize"
    BY <2>1, PreparationBegins
  <2>2. CASE claim(t) /\ lifecycle.state = "ready" /\ lifecycle.active = NoSynthesis
    BY <2>2, SynthesisBegins
  <2>3. CASE /\ ~(active_session(t) /\ slot # NoChild /\ work[t].command # "synthesize")
             /\ ~(claim(t) /\ lifecycle.state = "ready" /\ lifecycle.active = NoSynthesis)
    BY <1>3, <2>3, CalmOperations, CalmKeeps DEF Operating, Failing
  <2> QED BY <2>1, <2>2, <2>3
<1>4. CASE Cancelling(t)
  BY <1>4, CalmCancels, CalmKeeps DEF Cancelling
<1>5. CASE ShuttingDown(t)
  <2>1. CASE interrupted(t)
    BY <2>1, CalmCancels, CalmKeeps
  <2>2. CASE markStopping(t)
    BY <2>2, EndBegins
  <2>3. CASE ~interrupted(t) /\ ~markStopping(t)
    BY <1>5, <2>3, CalmShutdowns, CalmKeeps DEF ShuttingDown
  <2> QED BY <2>1, <2>2, <2>3
<1>6. CASE Forcing(t)
  BY <1>6, CalmRemovals, CalmKeeps DEF Forcing
<1> QED BY <1>1, <1>2, <1>3, <1>4, <1>5, <1>6 DEF Step

-----------------------------------------------------------------------------
(* The service answers *)

\* What is written last is read last.
LEMMA WrittenLast ==
    ASSUME NEW S, NEW s \in Seq(S), NEW x \in Seq(S)
    PROVE  /\ s \o x \in Seq(S)
           /\ s # <<>> => s \o x # <<>> /\ Head(s \o x) = Head(s)
<1> DEFINE r == s \o x
<1>1. /\ r \in Seq(S) /\ Len(r) = Len(s) + Len(x) /\ Len(s) \in Nat /\ Len(x) \in Nat
      /\ \A i \in 1 .. Len(s) + Len(x) : r[i] = IF i <= Len(s) THEN s[i] ELSE x[i - Len(s)]
  BY ConcatProperties
<1> HIDE DEF r
<1>2. ASSUME s # <<>> PROVE r # <<>> /\ Head(r) = Head(s)
  <2>1. Len(s) >= 1 /\ Head(s) = s[1]
    BY <1>1, <1>2
  <2>2. Len(r) >= 1 /\ r[1] = s[1]
    BY <1>1, <2>1
  <2>3. r # <<>> /\ Head(r) = r[1]
    BY <1>1, <2>2
  <2> QED BY <2>1, <2>2, <2>3
<1> QED BY <1>1, <1>2 DEF r

\* The service writes frames, after those it has written.
LEMMA Writes ==
    ASSUME stdout \in Seq(Frames), ServiceNext
    PROVE  /\ stdout' \in Seq(Frames) /\ stdinOpen' = stdinOpen
           /\ stdout # <<>> => stdout' # <<>> /\ Head(stdout') = Head(stdout)
<1>1. Refusal \in Frames /\ EngineError \in Frames /\ State("failed") \in Frames
  BY DEF Frames
<1>2. /\ <<Refusal>> \in Seq(Frames) /\ <<EngineError, State("failed")>> \in Seq(Frames)
      /\ Settled \in Seq(Frames)
      /\ \A message \in DOMAIN Accepts : Says[message] \in Seq(Frames)
  <2> HIDE DEF Frames
  <2> QED BY <1>1, SettledFrames
<1> HIDE DEF Frames
<1>3. ASSUME NEW message \in DOMAIN Accepts, handle_control(message)
      PROVE  stdout' = stdout \o Says[message] /\ stdinOpen' = stdinOpen
  BY <1>3 DEF handle_control
<1>4. ASSUME NEW message, refuse(message)
      PROVE  stdout' = Append(stdout, Refusal) /\ stdinOpen' = stdinOpen
  BY <1>4 DEF refuse
<1>5. CASE fail_engine
  <2>1. stdout' = stdout \o <<EngineError, State("failed")>> /\ stdinOpen' = stdinOpen
    BY <1>5 DEF fail_engine
  <2> QED BY <1>2, <2>1, WrittenLast
<1>6. CASE settle_active
  <2>1. stdout' = stdout \o Settled /\ stdinOpen' = stdinOpen
    BY <1>6 DEF settle_active, Settled
  <2> QED BY <1>2, <2>1, WrittenLast
<1>7. CASE endOfInput \/ crash
  <2>1. stdout' = stdout /\ stdinOpen' = stdinOpen
    BY <1>7 DEF endOfInput, crash
  <2> QED BY <2>1
<1>8. CASE \E message \in DOMAIN Accepts : handle_control(message)
  <2>1. PICK message \in DOMAIN Accepts : handle_control(message)
    BY <1>8
  <2>2. stdout' = stdout \o Says[message] /\ stdinOpen' = stdinOpen
    BY <1>3, <2>1
  <2> QED BY <1>2, <2>2, WrittenLast
<1>9. CASE \E message \in DOMAIN Accepts : refuse(message)
  <2>1. stdout' = Append(stdout, Refusal) /\ stdinOpen' = stdinOpen
    BY <1>4, <1>9
  <2>2. /\ Append(stdout, Refusal) \in Seq(Frames) /\ Append(stdout, Refusal) # <<>>
        /\ stdout # <<>> => Head(Append(stdout, Refusal)) = Head(stdout)
    BY <1>1
  <2> QED BY <2>1, <2>2
<1> QED BY <1>5, <1>6, <1>7, <1>8, <1>9 DEF ServiceNext, ServiceStep

WarmStates == {"warming", "ready", "generating"}

\* A message that was written is accepted, and answered as it should be.
Handled(c, l, s, in, out, known, message) ==
    /\ message \in DOMAIN Accepts
    /\ in = <<message>> /\ out = <<>> /\ s \in Accepts[message]
    /\ Exchange(c, l, LeadsTo[message], <<>>, Says[message], known)
    /\ LeadsTo[message] \in WarmStates => s \in WarmStates \/ c = "prepare"

LEMMA Handles ==
    ASSUME NEW c, NEW l, NEW s, NEW in, NEW out, NEW known,
           Exchange(c, l, s, in, out, known), in # <<>>
    PROVE  \E message : Handled(c, l, s, in, out, known, message)
<1>0. /\ {"handshake", "load", "warm", "synthesize", "shutdown"} \subseteq DOMAIN Accepts
      /\ Accepts["handshake"] = {"starting"} /\ LeadsTo["handshake"] = "unloaded"
      /\ Accepts["load"] = {"unloaded"} /\ LeadsTo["load"] = "warming"
      /\ Accepts["warm"] = {"warming"} /\ LeadsTo["warm"] = "ready"
      /\ Accepts["synthesize"] = {"ready"} /\ LeadsTo["synthesize"] = "generating"
      /\ {"unloaded", "ready"} \subseteq Accepts["shutdown"]
      /\ LeadsTo["shutdown"] = "stopped"
  BY DEF Accepts, LeadsTo, ServiceStates
<1>1. CASE c = "start" /\ Greeted(l, s, in, out, known)
  <2>1. l = 2 /\ s = "starting" /\ in = <<"handshake">> /\ out = <<>>
    BY <1>1 DEF Greeted
  <2>2. Greeted(l, "unloaded", <<>>, Says["handshake"], known)
    BY <2>1 DEF Greeted
  <2>3. Handled(c, l, s, in, out, known, "handshake")
    BY <1>0, <1>1, <2>1, <2>2 DEF Handled, Exchange, WarmStates
  <2> QED BY <2>3
<1>2. CASE c = "prepare" /\ Loaded(l, s, in, out, known)
  <2>1. \/ l = 2 /\ s = "unloaded" /\ in = <<"load">> /\ out = <<>>
        \/ l = 5 /\ s = "warming" /\ in = <<"warm">> /\ out = <<>>
    BY <1>2 DEF Loaded
  <2>2. CASE l = 2 /\ s = "unloaded" /\ in = <<"load">> /\ out = <<>>
    <3>1. Loaded(l, "warming", <<>>, Says["load"], known)
      BY <2>2 DEF Loaded
    <3>2. Handled(c, l, s, in, out, known, "load")
      BY <1>0, <1>2, <2>2, <3>1 DEF Handled, Exchange, WarmStates
    <3> QED BY <3>2
  <2>3. CASE l = 5 /\ s = "warming" /\ in = <<"warm">> /\ out = <<>>
    <3>1. Loaded(l, "ready", <<>>, Says["warm"], known)
      BY <2>3 DEF Loaded
    <3>2. Handled(c, l, s, in, out, known, "warm")
      BY <1>0, <1>2, <2>3, <3>1 DEF Handled, Exchange, WarmStates
    <3> QED BY <3>2
  <2> QED BY <2>1, <2>2, <2>3
<1>3. CASE c = "synthesize" /\ Synthesized(l, s, in, out)
  <2>1. l = 2 /\ s = "ready" /\ in = <<"synthesize">> /\ out = <<>>
    BY <1>3 DEF Synthesized
  <2>2. Synthesized(l, "generating", <<>>, Says["synthesize"])
    BY <2>1 DEF Synthesized
  <2>3. Handled(c, l, s, in, out, known, "synthesize")
    BY <1>0, <1>3, <2>1, <2>2 DEF Handled, Exchange, WarmStates
  <2> QED BY <2>3
<1>4. CASE c = "shutdown" /\ ShutDown(l, s, in, out)
  <2>1. l = 2 /\ s \in {"unloaded", "ready"} /\ in = <<"shutdown">> /\ out = <<>>
    BY <1>4 DEF ShutDown
  <2>2. ShutDown(l, "stopped", <<>>, Says["shutdown"])
    BY <2>1 DEF ShutDown
  <2>3. Handled(c, l, s, in, out, known, "shutdown")
    BY <1>0, <1>4, <2>1, <2>2 DEF Handled, Exchange, WarmStates
  <2> QED BY <2>3
<1> QED BY <1>1, <1>2, <1>3, <1>4 DEF Exchange

\* A synthesis that ends says all that is still awaited.
LEMMA Settles ==
    ASSUME NEW c, NEW l, NEW in, NEW out, NEW known,
           Exchange(c, l, "generating", in, out, known)
    PROVE  Exchange(c, l, "ready", in, out \o Settled, known)
<1>1. c = "synthesize" /\ Synthesized(l, "generating", in, out)
  BY DEF Exchange, Greeted, Loaded, ShutDown
<1>2. \/ l = 2 /\ in = <<>> /\ out = Says.synthesize
      \/ l = 3 /\ in = <<>> /\ out = <<>>
  BY <1>1 DEF Synthesized
<1>3. out = <<>> => out \o Settled = Settled
  BY Empty, SettledFrames
<1>4. Synthesized(l, "ready", in, out \o Settled)
  BY <1>2, <1>3 DEF Synthesized
<1> QED BY <1>1, <1>4 DEF Exchange

\* A service that has something to do is talked to by one thread.
LEMMA SpokenTo ==
    ASSUME Sound, Healthy, Live, alive, stdin # <<>> \/ service = "generating"
    PROVE  \E t \in Threads :
              /\ work[t].at = "talking"
              /\ Exchange(work[t].command, work[t].line, service, stdin, stdout,
                          lifecycle.state)
              /\ \A u \in Threads : work[u].at \in Operative => u = t
<1>1. ~Quiescent
  BY DEF Quiescent
<1>2. PICK t \in Threads : Busy(t)
  BY <1>1 DEF Healthy, Resting
<1>3. work[t].at # "leaving" /\ work[t].at # "retiring"
  BY DEF Healthy, Resting, Sound, Inv, Children
<1>4. work[t].at = "talking"
  BY <1>2, <1>3 DEF Busy
<1>5. \A u \in Threads : work[u].at \in Operative => u = t
  BY <1>4, TalksAlone DEF Operative
<1> QED BY <1>4, <1>5 DEF Healthy, Exchanging

\* The service takes the conversation on; it gets warm only by a preparation.
Responds(c, l) ==
    /\ Exchange(c, l, service', stdin', stdout', lifecycle.state)
    /\ alive' <=> service' # "stopped"
    /\ Warm' => Warm \/ c = "prepare"

LEMMA Responding ==
    ASSUME Sound, Healthy, Live, ServiceStep
    PROVE  \E t \in Threads :
              /\ work[t].at = "talking" /\ Responds(work[t].command, work[t].line)
              /\ \A u \in Threads : work[u].at \in Operative => u = t
<1>1. /\ alive /\ stdinOpen
      /\ \/ \E message : handle_control(message) \/ refuse(message)
         \/ settle_active
  BY DEF ServiceStep, Live, handle_control, refuse, Reads, settle_active, endOfInput
<1>2. CASE \E message : handle_control(message) \/ refuse(message)
  <2>1. PICK m : handle_control(m) \/ refuse(m)
    BY <1>2
  <2>2. stdin # <<>> /\ Head(stdin) = m /\ stdin' = Tail(stdin)
    BY <2>1 DEF handle_control, refuse, Reads
  <2>3. PICK t \in Threads :
              /\ work[t].at = "talking"
              /\ Exchange(work[t].command, work[t].line, service, stdin, stdout,
                          lifecycle.state)
              /\ \A u \in Threads : work[u].at \in Operative => u = t
    BY <1>1, <2>2, SpokenTo
  <2>4. PICK n : Handled(work[t].command, work[t].line, service, stdin, stdout,
                         lifecycle.state, n)
    BY <2>2, <2>3, Handles
  <2>5. m = n /\ stdin' = <<>> /\ service \in Accepts[m] /\ m \in DOMAIN Accepts
    <3>1. stdin = <<n>> /\ service \in Accepts[n] /\ n \in DOMAIN Accepts
      BY <2>4 DEF Handled
    <3>2. Head(<<n>>) = n /\ Tail(<<n>>) = <<>>
      BY Taken
    <3> QED BY <2>2, <3>1, <3>2
  <2>6. handle_control(m)
    BY <2>1, <2>5 DEF refuse
  <2>7. service' = LeadsTo[m] /\ (alive' <=> LeadsTo[m] # "stopped")
        /\ stdout' = stdout \o Says[m]
    BY <2>6 DEF handle_control
  <2>8. stdout' = Says[m]
    <3>1. stdout = <<>> /\ Says[m] \in Seq(Frames)
      BY <2>4, <2>5, SettledFrames DEF Handled
    <3>2. <<>> \o Says[m] = Says[m]
      BY <3>1, Empty
    <3> QED BY <2>7, <3>1, <3>2
  <2>9. Responds(work[t].command, work[t].line)
    BY <2>4, <2>5, <2>7, <2>8 DEF Handled, Responds, Warm, WarmStates
  <2> QED BY <2>3, <2>9
<1>3. CASE settle_active
  <2>1. service = "generating" /\ service' = "ready" /\ stdout' = stdout \o Settled
        /\ alive' = alive /\ stdin' = stdin
    BY <1>3 DEF settle_active, Settled
  <2>2. PICK t \in Threads :
              /\ work[t].at = "talking"
              /\ Exchange(work[t].command, work[t].line, service, stdin, stdout,
                          lifecycle.state)
              /\ \A u \in Threads : work[u].at \in Operative => u = t
    BY <1>1, <2>1, SpokenTo
  <2>3. Responds(work[t].command, work[t].line)
    BY <1>1, <2>1, <2>2, Settles DEF Responds, Warm
  <2> QED BY <2>2, <2>3
<1> QED BY <1>1, <1>2, <1>3

LEMMA ServiceKeeps ==
    ASSUME Sound, Inv', Service
    PROVE  Sound'
<1>0. /\ ServiceNext /\ stdout \in Seq(Frames) /\ Orderly
      /\ UNCHANGED <<work, operation, slot, lifecycle, client, fresh>>
  BY DEF Sound, Orderly, Spoken, Service, supervisorVars, clientVars
<1>1. /\ stdout' \in Seq(Frames) /\ stdinOpen' = stdinOpen
      /\ stdout # <<>> => stdout' # <<>> /\ Head(stdout') = Head(stdout)
  BY <1>0, Writes
<1>2. \A name : Pending(name)' <=> Pending(name)
  BY <1>0 DEF Pending
<1>3. Orderly'
  BY <1>0, <1>1, <1>2 DEF Orderly, Spoken, Holding, Preparing
<1>4. ASSUME faults' = 0 PROVE Healthy'
  <2>1. ServiceStep /\ faults = 0
    BY <1>0, <1>4, Counted DEF ServiceNext, ServiceStep, fail_engine, crash, handle_control,
       refuse, settle_active, endOfInput, Sound
  <2>2. Healthy /\ (Live' <=> Live)
    BY <1>0, <1>1, <2>1 DEF Sound, Live
  <2>3. Opened' /\ Sounding' /\ Unrejected'
    BY <1>0, <1>1, <2>2 DEF Healthy, Opened, Sounding, Unrejected
  <2>4. CASE ~Live
    BY <2>2, <2>3, <2>4 DEF Healthy, Exchanging, Resting, Loading
  <2>5. CASE Live
    <3>1. PICK t \in Threads :
              /\ work[t].at = "talking" /\ Responds(work[t].command, work[t].line)
              /\ \A u \in Threads : work[u].at \in Operative => u = t
      BY <2>1, <2>2, <2>5, Responding
    <3>2. Exchanging'
      <4>1. \A u \in Threads : work[u].at = "talking" => u = t
        BY <3>1 DEF Operative
      <4> QED BY <1>0, <3>1, <4>1 DEF Exchanging, Responds
    <3>3. Resting'
      <4>1. \A u \in Threads : work[u].at # "leaving"
        BY <3>1 DEF Operative
      <4> QED BY <1>0, <3>1, <4>1 DEF Resting, Busy
    <3>4. Loading'
      <4>1. Warm' => Warm \/ work[t].command = "prepare"
        BY <3>1 DEF Responds
      <4>2. ASSUME Warm', client.state = "unloaded" \/ Pending("start")
            PROVE  \E u \in Threads : /\ work[u].command = "prepare"
                                      /\ work[u].at = "talking" \/ work[u].reply = "ok"
        BY <2>2, <2>5, <3>1, <4>1, <4>2 DEF Healthy, Loading
      <4>3. ASSUME NEW u \in Threads, work[u].command = "prepare",
                   work[u].at \in {"entering", "opening"}
            PROVE  ~Warm'
        <5>1. u # t
          BY <3>1, <4>3
        <5>2. work[t].command # "prepare"
          BY <1>0, <4>3, <5>1 DEF Orderly, Preparing
        <5> QED BY <2>2, <2>5, <4>1, <4>3, <5>2 DEF Healthy, Loading
      <4> QED BY <1>0, <1>2, <4>2, <4>3 DEF Loading
    <3> QED BY <2>3, <3>2, <3>3, <3>4 DEF Healthy
  <2> QED BY <2>4, <2>5
<1> QED BY <1>3, <1>4 DEF Sound

-----------------------------------------------------------------------------
(* The client asks and takes replies *)

\* A thread that was free or had replied is free, or has a command to carry out.
Changes(t, w) ==
    /\ work[t] = Idle \/ work[t].at = "replied"
    /\ work'[t] = w
    /\ \A u \in Threads : u # t => work'[u] = work[u]
    /\ w.at \in {"idle", "entering"} /\ w.reply = Nothing

\* The client takes no part in what is said to the service.
LEMMA ChangesKeep ==
    ASSUME Sound, Inv', Apart, NEW t \in Threads, NEW w,
           Changes(t, w), Preparing', faults = 0 => Loading'
    PROVE  Sound'
<1>1. /\ UNCHANGED <<service, alive, stdin, stdinOpen, stdout, faults, operation, slot,
                     lifecycle>>
  BY DEF Apart, serviceVars
<1>2. /\ \A u \in Threads : u # t => work'[u] = work[u]
      /\ work[t].at \in {"idle", "replied"} /\ work'[t].at \in {"idle", "entering"}
      /\ work'[t].reply # "protocolRejected"
  BY DEF Changes, Idle, Nothing
<1>3. Orderly'
  BY <1>1, <1>2 DEF Sound, Orderly, Spoken, Holding, Operative
<1>4. ASSUME faults' = 0 PROVE Healthy'
  <2>1. Healthy /\ Loading' /\ (Live' <=> Live)
    BY <1>1, <1>4 DEF Sound, Live
  <2>2. \A u \in Threads : Busy(u)' <=> Busy(u)
    BY <1>2 DEF Busy
  <2>3. Exchanging'
    BY <1>1, <1>2, <2>1 DEF Healthy, Exchanging
  <2>4. Resting'
    BY <1>1, <1>2, <2>1, <2>2 DEF Healthy, Resting, Quiescent
  <2>5. Opened'
    BY <1>1, <1>2, <2>1 DEF Healthy, Opened, EndPoints, Terminating
  <2>6. Sounding'
    BY <1>1, <1>2, <2>1 DEF Healthy, Sounding
  <2>7. Unrejected'
    BY <1>2, <2>1 DEF Healthy, Unrejected
  <2> QED BY <2>1, <2>3, <2>4, <2>5, <2>6, <2>7 DEF Healthy
<1> QED BY <1>3, <1>4 DEF Sound

\* A command that neither starts nor prepares leaves those that do alone.
LEMMA OtherChangesKeep ==
    ASSUME Sound, Inv', Apart, NEW t \in Threads, NEW w, Changes(t, w),
           w.command \notin {"prepare", "start"}, work[t].command # "prepare",
           client'.state = "unloaded" => client.state = "unloaded" /\ fresh \ {t} \subseteq fresh'
    PROVE  Sound'
<1>1. \A u \in Threads : work'[u].command \in {"prepare", "start"} =>
                            u # t /\ work'[u] = work[u]
  BY DEF Changes
<1>2. \A u \in Threads : work[u].command = "prepare" => u # t /\ work'[u] = work[u]
  BY DEF Changes
<1>3. /\ Pending("start")' => Pending("start")
      /\ Pending("prepare")' => Pending("prepare")
  BY <1>1 DEF Pending
<1>4. Preparing'
  BY <1>1, <1>3 DEF Sound, Orderly, Preparing
<1>5. ASSUME faults = 0 PROVE Loading'
  <2>1. Healthy /\ (Live' <=> Live) /\ (Warm' <=> Warm)
    BY <1>5 DEF Sound, Apart, serviceVars, Live, Warm
  <2> QED BY <1>1, <1>2, <1>3, <2>1 DEF Healthy, Loading
<1> QED BY <1>4, <1>5, ChangesKeep

\* Where no thread is concerned, nothing is.
LEMMA UnchangedKeeps ==
    ASSUME Sound, Inv', Apart, work' = work,
           client'.state = "unloaded" => client.state = "unloaded" /\ fresh \subseteq fresh'
    PROVE  Sound'
<1>1. /\ UNCHANGED <<service, alive, stdin, stdinOpen, stdout, faults, operation, slot,
                     lifecycle, work>>
  BY DEF Apart, serviceVars
<1>2. \A name : Pending(name)' <=> Pending(name)
  BY DEF Pending
<1>3. Orderly'
  BY <1>1, <1>2 DEF Sound, Orderly, Spoken, Holding, Preparing
<1>4. ASSUME faults' = 0 PROVE Healthy'
  <2>1. Healthy /\ (Live' <=> Live) /\ (Warm' <=> Warm)
    BY <1>1, <1>4 DEF Sound, Live, Warm
  <2>2. Exchanging' /\ Resting' /\ Opened' /\ Sounding' /\ Unrejected'
    BY <1>1, <2>1 DEF Healthy, Exchanging, Resting, Busy, Quiescent, Opened, Sounding,
       Unrejected
  <2>3. Loading'
    BY <1>1, <1>2, <2>1 DEF Healthy, Loading
  <2> QED BY <2>2, <2>3 DEF Healthy
<1> QED BY <1>3, <1>4 DEF Sound

\* A reply that is taken leaves the thread free.
LEMMA TakingChanges ==
    ASSUME Sound, NEW t \in Threads, Take(t)
    PROVE  Changes(t, Idle) /\ Apart /\ Idle.command \notin {"prepare", "start"}
<1>1. Turns(t, Idle) /\ Apart /\ WorkTyped
  BY Taking DEF Sound, Inv
<1>2. Idle.at = "idle" /\ Idle.reply = Nothing /\ Idle.command = Nothing
  BY DEF Idle
<1> QED BY <1>1, <1>2, AloneInThread DEF Changes, Turns, Nothing

\* A command that is given is entered upon.
LEMMA OrderChanges ==
    ASSUME Sound, NEW t \in Threads, NEW name, NEW child, NEW synthesis, NEW w,
           w = Order(name, child, synthesis),
           work[t] = Idle \/ work[t].at = "replied", work' = [work EXCEPT ![t] = w]
    PROVE  Changes(t, w) /\ w.command = name
<1>1. w.command = name /\ w.at = "entering" /\ w.reply = Nothing
  BY DEF Order
<1>2. WorkTyped
  BY DEF Sound, Inv
<1>3. work'[t] = w /\ \A u \in Threads : u # t => work'[u] = work[u]
  BY <1>2 DEF WorkTyped
<1> QED BY <1>1, <1>3 DEF Changes

\* The client's fields are there.
LEMMA ClientFields ==
    ASSUME Sound
    PROVE  /\ client = [state |-> client.state, service |-> client.service,
                        request |-> client.request, active |-> client.active,
                        sink |-> client.sink]
           /\ Invalidated = [state |-> client.state, service |-> client.service,
                             request |-> client.request, active |-> NoSynthesis,
                             sink |-> NoSynthesis]
BY InvalidatedIs DEF Sound, Inv, ClientTyped

\* A stop goes on by a shutdown or is over.
LEMMA StopsKeep ==
    ASSUME Sound, Inv', NEW t \in Threads, NEW c, Stopping(t, c),
           work[t] = Idle \/ work' = work,
           c = [state |-> c.state, service |-> c.service, request |-> c.request,
                active |-> c.active, sink |-> c.sink]
    PROVE  Sound'
<1>1. client'.state # "unloaded" /\ Apart
  BY DEF Stopping, StoppedBy
<1>2. CASE work' = work
  BY <1>1, <1>2, UnchangedKeeps
<1>3. CASE work[t] = Idle /\ work' # work
  <2>1. PICK w : Turns(t, w) /\ Given(w) /\ w.command = "shutdown"
    BY <1>3 DEF Stopping
  <2>2. w.at = "entering" /\ w.reply = Nothing
    BY <2>1 DEF Given, Idle, Nothing
  <2>3. WorkTyped
    BY DEF Sound, Inv
  <2>4. Changes(t, w)
    BY <2>1, <2>2, <2>3, AloneInThread DEF Changes, Turns
  <2>5. work[t].command # "prepare"
    BY <1>3 DEF Idle, Nothing
  <2> QED BY <1>1, <2>1, <2>4, <2>5, OtherChangesKeep
<1> QED BY <1>2, <1>3

\* A service is started when the conversation before is over.
LEMMA StartSound ==
    ASSUME Sound, Inv', NEW t \in Threads, start(t)
    PROVE  Sound'
<1> DEFINE w == [Command("start") EXCEPT !.request = asked.starts + 1]
<1>1. /\ client.request = NoRequest \/ client.service # NoChild
      /\ client.service = NoChild /\ \A u \in Threads : work[u] = Idle
      /\ work' = [work EXCEPT ![t] = w] /\ Apart
  BY DEF start, MayStart, Joined, requestStart, Give, Apart
<1>2. w.command = "start" /\ w.at = "entering" /\ w.reply = Nothing
  BY DEF Command, Idle
<1> HIDE DEF w
<1>3. /\ WorkTyped /\ Over
  BY <1>1 DEF Sound, Inv, Endings
<1>4. /\ work'[t] = w /\ \A u \in Threads : u # t => work'[u] = Idle
  BY <1>1, <1>3 DEF WorkTyped
<1>5. Changes(t, w)
  BY <1>1, <1>2, <1>4 DEF Changes
<1>6. \A u \in Threads : work'[u].command # "prepare"
  BY <1>2, <1>4 DEF Idle, Nothing
<1>7. Preparing'
  BY <1>6 DEF Preparing, Pending
<1>8. ~Live'
  BY <1>1, <1>3 DEF Over, Live, Apart
<1>9. Loading'
  BY <1>8 DEF Loading
<1> QED BY <1>1, <1>5, <1>7, <1>9, ChangesKeep

\* While a service starts, no model is loaded.
LEMMA StartedSound ==
    ASSUME Sound, Inv', NEW t \in Threads, startService(t)
    PROVE  Sound'
<1>1. work[t].command = "start" /\ Take(t)
  BY DEF startService, Answered
<1>2. Changes(t, Idle) /\ Apart /\ Idle.command \notin {"prepare", "start"}
  BY <1>1, TakingChanges
<1>3. Pending("start") /\ \A u \in Threads : work[u].command # "prepare"
  BY <1>1 DEF Pending, Sound, Orderly, Preparing
<1>4. \A u \in Threads : work'[u].command # "prepare"
  BY <1>2, <1>3 DEF Changes
<1>5. Preparing'
  BY <1>4 DEF Preparing, Pending
<1>6. ASSUME faults = 0 PROVE Loading'
  <2>1. Healthy /\ (Live' <=> Live) /\ (Warm' <=> Warm)
    BY <1>2, <1>6 DEF Sound, Apart, serviceVars, Live, Warm
  <2>2. ~(Live /\ Warm)
    BY <1>3, <2>1 DEF Healthy, Loading
  <2> QED BY <1>4, <2>1, <2>2 DEF Loading
<1> QED BY <1>2, <1>5, <1>6, ChangesKeep

\* A model is asked for where none is loaded.
LEMMA PrepareSound ==
    ASSUME Sound, Inv', NEW t \in Threads, prepare(t)
    PROVE  Sound'
<1> DEFINE w == Order("prepare", client.service, 0)
<1>1. /\ client.state = "unloaded" /\ ~Pending("prepare") /\ fresh' = fresh \cup {t}
      /\ work[t] = Idle /\ work' = [work EXCEPT ![t] = w] /\ Apart
      /\ client' = client
  BY Orders DEF prepare, Give, Apart
<1>0. w = Order("prepare", client.service, 0)
  OBVIOUS
<1> HIDE DEF w
<1>2. Changes(t, w) /\ w.command = "prepare"
  BY <1>0, <1>1, OrderChanges
<1>3. ~Pending("start")
  BY <1>1 DEF Sound, Inv, Conversation
<1>4. /\ \A u \in Threads : work'[u].command = "prepare" => u = t
      /\ \A u \in Threads : work'[u].command # "start"
  BY <1>1, <1>2, <1>3 DEF Changes, Pending
<1>5. Preparing'
  BY <1>1, <1>4 DEF Preparing, Pending
<1>6. ASSUME faults = 0 PROVE Loading'
  <2>1. Healthy /\ (Live' <=> Live) /\ (Warm' <=> Warm)
    BY <1>1, <1>6 DEF Sound, Apart, serviceVars, Live, Warm
  <2>2. ~(Live /\ Warm)
    BY <1>1, <2>1 DEF Healthy, Loading, Pending
  <2> QED BY <2>1, <2>2 DEF Loading
<1> QED BY <1>1, <1>2, <1>5, <1>6, ChangesKeep

\* A reply about a model is awaited until it is taken.
LEMMA PreparedSound ==
    ASSUME Sound, Inv', NEW t \in Threads, prepared(t)
    PROVE  Sound'
<1>1. /\ work[t].command = "prepare" /\ Take(t) /\ work[t].at = "replied"
      /\ client' = [client EXCEPT
                       !.state = IF t \in fresh /\ work[t].reply = "ok" THEN "ready" ELSE @]
  BY DEF prepared, Answered, Take
<1>2. Changes(t, Idle) /\ Apart /\ Idle.command \notin {"prepare", "start"}
  BY <1>1, TakingChanges
<1>3. /\ \A u \in Threads : work[u].command = "prepare" => u = t
      /\ \A u \in Threads : work[u].command # "start"
      /\ client.state = "unloaded" => t \in fresh
  BY <1>1 DEF Sound, Orderly, Preparing, Pending
<1>4. \A u \in Threads : work'[u].command \notin {"prepare", "start"}
  BY <1>2, <1>3 DEF Changes
<1>5. Preparing'
  BY <1>4 DEF Preparing, Pending
<1>6. client'.state = "unloaded" => client.state = "unloaded" /\ work[t].reply # "ok"
  <2>1. client' = [client EXCEPT !.state = "ready"] \/ client' = client
    BY <1>1, ClientFields DEF Sound, Inv, ClientTyped
  <2>2. t \in fresh /\ work[t].reply = "ok" => client' = [client EXCEPT !.state = "ready"]
    BY <1>1
  <2> QED BY <1>3, <2>1, <2>2, ClientFields
<1>7. ASSUME faults = 0 PROVE Loading'
  <2>1. Healthy /\ (Live' <=> Live) /\ (Warm' <=> Warm)
    BY <1>2, <1>7 DEF Sound, Apart, serviceVars, Live, Warm
  <2>2. Live /\ Warm => client'.state # "unloaded"
    BY <1>1, <1>3, <1>6, <2>1 DEF Healthy, Loading
  <2> QED BY <1>4, <2>1, <2>2 DEF Loading, Pending
<1> QED BY <1>2, <1>5, <1>7, ChangesKeep

\* Other commands leave it alone whether a model is loaded.
LEMMA AskedSound ==
    ASSUME Sound, Inv', NEW t \in Threads,
           synthesize(t) \/ cancelGeneration(t) \/ removeChatterbox(t) \/ cancelledTooLate(t)
    PROVE  Sound'
<1>1. CASE synthesize(t)
  <2> DEFINE w == Order("synthesize", client.service, asked.syntheses + 1)
  <2>1. work[t] = Idle /\ work' = [work EXCEPT ![t] = w] /\ Apart
        /\ client'.state = "generating"
    <3>1. ASSUME NEW v, v = [Command("synthesize") EXCEPT
                                !.child = client.service, !.synthesis = asked.syntheses + 1]
          PROVE  v = w
      BY <3>1, CommandIs DEF Order
    <3>2. work' = [work EXCEPT ![t] = [Command("synthesize") EXCEPT
                      !.child = client.service, !.synthesis = asked.syntheses + 1]]
      BY <1>1 DEF synthesize, Give
    <3> HIDE DEF w
    <3>3. work' = [work EXCEPT ![t] = w]
      BY <3>1, <3>2
    <3> QED BY <1>1, <3>3, ClientFields DEF synthesize, Give, Apart
  <2>0. w = Order("synthesize", client.service, asked.syntheses + 1)
    OBVIOUS
  <2> HIDE DEF w
  <2>2. Changes(t, w) /\ w.command = "synthesize"
    BY <2>0, <2>1, OrderChanges
  <2>3. work[t].command # "prepare"
    BY <2>1 DEF Idle, Nothing
  <2> QED BY <2>1, <2>2, <2>3, OtherChangesKeep
<1>2. CASE cancelGeneration(t)
  <2> DEFINE w == Order("cancel", NoChild, client.active)
  <2>1. work[t] = Idle /\ work' = [work EXCEPT ![t] = w] /\ Apart
        /\ client'.state = "cancelling"
    BY <1>2, Orders, ClientFields DEF cancelGeneration, Give, Apart
  <2>0. w = Order("cancel", NoChild, client.active)
    OBVIOUS
  <2> HIDE DEF w
  <2>2. Changes(t, w) /\ w.command = "cancel"
    BY <2>0, <2>1, OrderChanges
  <2>3. work[t].command # "prepare"
    BY <2>1 DEF Idle, Nothing
  <2> QED BY <2>1, <2>2, <2>3, OtherChangesKeep
<1>3. CASE removeChatterbox(t)
  <2> DEFINE w == Order("remove", NoChild, 0)
  <2>1. work[t] = Idle /\ work' = [work EXCEPT ![t] = w] /\ Apart
        /\ client' = client /\ fresh' = fresh
    BY <1>3, Orders DEF removeChatterbox, Give, Apart, clientVars
  <2>0. w = Order("remove", NoChild, 0)
    OBVIOUS
  <2> HIDE DEF w
  <2>2. Changes(t, w) /\ w.command = "remove"
    BY <2>0, <2>1, OrderChanges
  <2>3. work[t].command # "prepare"
    BY <2>1 DEF Idle, Nothing
  <2> QED BY <2>1, <2>2, <2>3, OtherChangesKeep
<1>4. CASE cancelledTooLate(t)
  <2> DEFINE w == Order("shutdown", client.service, 0)
  <2>1. /\ work[t].command = "cancel" /\ work[t].at = "replied"
        /\ work' = [work EXCEPT ![t] = w] /\ Apart
        /\ client'.state = "stopping"
    BY <1>4, Orders, ClientFields DEF cancelledTooLate, Apart
  <2>0. w = Order("shutdown", client.service, 0)
    OBVIOUS
  <2> HIDE DEF w
  <2>2. Changes(t, w) /\ w.command = "shutdown"
    BY <2>0, <2>1, OrderChanges
  <2> QED BY <2>1, <2>2, OtherChangesKeep
<1> QED BY <1>1, <1>2, <1>3, <1>4

LEMMA AnsweredSound ==
    ASSUME Sound, Inv', NEW t \in Threads,
           \/ synthesized(t) \/ interruptionAnswered(t) \/ startAcknowledged(t)
           \/ serviceStopped(t) \/ generationCancelled(t) \/ chatterboxRemoved(t)
    PROVE  Sound'
<1>1. /\ Take(t) /\ work[t].command \in {"synthesize", "shutdown", "cancel", "remove"}
      /\ fresh \ {t} \subseteq fresh'
  BY DEF synthesized, interruptionAnswered, startAcknowledged, serviceStopped,
     generationCancelled, chatterboxRemoved, Answered, clientVars
<1>2. \/ client' = client
      \/ client' = [client EXCEPT !.sink = client.active, !.active = NoSynthesis,
                                  !.state = "ready"]
      \/ client' = [client EXCEPT !.active = NoSynthesis, !.state = "failed"]
      \/ client' = StoppedBy([client EXCEPT !.request = NoRequest])
  BY DEF synthesized, interruptionAnswered, startAcknowledged, serviceStopped,
     generationCancelled, chatterboxRemoved, clientVars
<1>3. client'.state = "unloaded" => client.state = "unloaded"
  BY <1>2, ClientFields DEF StoppedBy
<1>4. Changes(t, Idle) /\ Apart /\ Idle.command \notin {"prepare", "start"}
  BY <1>1, TakingChanges
<1> QED BY <1>1, <1>3, <1>4, OtherChangesKeep

LEMMA StopSound ==
    ASSUME Sound, Inv', NEW t \in Threads, shutdown(t) \/ startJoined(t)
    PROVE  Sound'
<1>0. Inv
  BY DEF Sound
<1>1. CASE shutdown(t)
  <2> DEFINE c == Invalidated
  <2>1. Stopping(t, c) /\ (work[t] = Idle \/ work' = work)
    BY <1>0, <1>1, ShutdownStops
  <2>2. c = [state |-> client.state, service |-> client.service,
             request |-> client.request, active |-> NoSynthesis, sink |-> NoSynthesis]
    BY <1>0, InvalidatedIs
  <2> HIDE DEF c
  <2>3. c = [state |-> c.state, service |-> c.service, request |-> c.request,
             active |-> c.active, sink |-> c.sink]
    BY <2>2
  <2> QED BY <2>1, <2>3, StopsKeep
<1>2. CASE startJoined(t)
  BY <1>0, <1>2, JoinStops, StopsKeep
<1> QED BY <1>1, <1>2

LEMMA ClientKeeps ==
    ASSUME Sound, Inv', Client
    PROVE  Sound'
<1>1. CASE takeAudioUnit
  <2>1. work' = work /\ Apart /\ fresh' = fresh
        /\ client' = [client EXCEPT !.sink = NoSynthesis]
    BY <1>1 DEF takeAudioUnit, Apart, supervisorVars
  <2> QED BY <2>1, ClientFields, UnchangedKeeps
<1>2. ASSUME NEW t \in Threads, Calls(t) PROVE Sound'
  BY <1>2, StartSound, PrepareSound, AskedSound, StopSound DEF Calls
<1>3. ASSUME NEW t \in Threads, Answers(t) PROVE Sound'
  BY <1>3, StartedSound, PreparedSound, AnsweredSound, AskedSound DEF Answers
<1>4. ASSUME NEW t \in Threads, startJoined(t) PROVE Sound'
  BY <1>4, StopSound
<1> QED BY <1>1, <1>2, <1>3, <1>4 DEF Client

-----------------------------------------------------------------------------
(* Conversations stay apart *)

LEMMA SoundInitially == Init => Sound
<1> SUFFICES ASSUME Init PROVE Sound
  OBVIOUS
<1>1. /\ work = [t \in Threads |-> Idle] /\ slot = NoChild /\ stdout = <<>>
  BY DEF Init, SupervisorInit, ServiceInit
<1>2. \A t \in Threads : /\ work[t].at = "idle" /\ work[t].command = Nothing
                         /\ work[t].reply = Nothing
  BY <1>1 DEF Idle
<1>3. Spoken
  <2> HIDE DEF Frames
  <2> QED BY <1>1 DEF Spoken
<1>4. Orderly
  BY <1>2, <1>3 DEF Orderly, Holding, Preparing, Pending, Operative, Nothing
<1>5. Healthy
  BY <1>1, <1>2 DEF Healthy, Exchanging, Resting, Opened, Sounding, Loading, Unrejected,
     Live, Nothing
<1> QED BY <1>4, <1>5, InvInitially DEF Sound

LEMMA SoundInductive == Sound /\ [Next]_vars => Sound'
<1> SUFFICES ASSUME Sound, [Next]_vars PROVE Sound'
  OBVIOUS
<1>1. Inv'
  BY InvInductive DEF Sound
<1>2. CASE Next
  BY <1>1, <1>2, ServiceKeeps, ThreadsKeep, ClientKeeps DEF Next, Supervisor
<1>3. CASE UNCHANGED vars
  <2>1. Apart /\ work' = work /\ client' = client /\ fresh' = fresh
    BY <1>3 DEF vars, supervisorVars, clientVars, Apart
  <2> QED BY <1>1, <2>1, UnchangedKeeps
<1> QED BY <1>2, <1>3

LEMMA SoundApart == Sound => ConversationsStayApart
BY InvApart DEF Sound, Healthy, Unrejected, ConversationsStayApart,
   HealthyServiceIsNeverRejected

\* As long as nothing goes wrong, whatever is interrupted or comes late, every frame is
\* the one its reader waits for; and old work is never done on a new service.
THEOREM ConversationsAreApart == Spec => []ConversationsStayApart
BY SoundInitially, SoundInductive, SoundApart, PTL DEF Spec

=============================================================================
