---------------------------- MODULE ProcessClient ----------------------------
(***************************************************************************)
(* The narration's handle on the speech service: TtsProcessClient of       *)
(* apps/desktop/src/tts/process-client.ts, over the supervisor and the     *)
(* service it commands, and beside the removal of the optional runtime,    *)
(* which stops the service behind the client's back.                       *)
(*                                                                         *)
(* A call of the client gives the supervisor a command and goes on when    *)
(* its reply is taken, by which time other calls may have been made: a     *)
(* call is fresh until cancel or shutdown invalidates it.                  *)
(*                                                                         *)
(* Left out: the shape of responses, which the supervisor produces well    *)
(* formed, health, and the calls that only ask what is available.          *)
(***************************************************************************)
EXTENDS NativeSupervisor

VARIABLES
    client, \* the client's fields; sink is the synthesis whose sound it retains
    fresh,  \* threads whose command's token is still the client's
    stop,   \* the shutdown under way, and what its interruption was answered
    asked   \* starts and syntheses asked for so far

clientVars == <<client, fresh, stop, asked>>

vars == <<serviceVars, supervisorVars, clientVars>>

NoStop == [at |-> Nothing, heard |-> FALSE, child |-> NoChild]

Init ==
    /\ SupervisorInit
    /\ client = [state |-> "stopped", service |-> NoChild, request |-> NoRequest,
                 active |-> NoSynthesis, sink |-> NoSynthesis]
    /\ fresh = {}
    /\ stop = NoStop
    /\ asked = [starts |-> 0, syntheses |-> 0]

\* A command of the client that has not been answered to it.
Pending(name) == \E t \in Threads : work[t].command = name

\* The reply of a command is there to be taken.
Answered(t, name) == work[t].command = name /\ Take(t)

-----------------------------------------------------------------------------
(* Starting, loading and synthesizing *)

\* The client starts a service when it has none, no stop is under way and the
\* last start was acknowledged.
MayStart ==
    /\ stop = NoStop
    /\ ~Pending("start")
    /\ client.request = NoRequest \/ client.service # NoChild
    /\ client.state \in {"stopped", "failed"}
    /\ asked.starts < MaxStarts

\* The narration asks for a start when everything it asked for before has been
\* answered, the removal of the runtime too, and the last stop was verified.
Joined ==
    /\ \A u \in Threads : work[u] = Idle
    /\ client.state = "stopped" /\ client.service = NoChild

requestStart(t) ==
    /\ asked' = [asked EXCEPT !.starts = @ + 1]
    /\ client' = [client EXCEPT !.request = asked.starts + 1, !.state = "starting"]
    /\ fresh' = fresh \cup {t}
    /\ Give(t, [Command("start") EXCEPT !.request = asked.starts + 1])
    /\ UNCHANGED stop

start(t) == MayStart /\ Joined /\ requestStart(t)

\* The child's identity is kept even by a start that was invalidated.
startService(t) ==
    /\ Answered(t, "start")
    /\ client' =
           [client EXCEPT
               !.service = IF work[t].reply = "ok" THEN work[t].session ELSE @,
               !.state = CASE t \notin fresh -> @
                           [] t \in fresh /\ work[t].reply = "ok" -> "unloaded"
                           [] OTHER -> "failed"]
    /\ fresh' = fresh \ {t}
    /\ UNCHANGED <<stop, asked>>

\* The narration asks for one thing at a time.  The command does not say which
\* service it means; its thread's record does, for the properties.
prepare(t) ==
    /\ client.state = "unloaded"
    /\ ~Pending("prepare")
    /\ fresh' = fresh \cup {t}
    /\ Give(t, [Command("prepare") EXCEPT !.child = client.service])
    /\ UNCHANGED <<client, stop, asked>>

prepared(t) ==
    /\ Answered(t, "prepare")
    /\ client' = [client EXCEPT
                     !.state = IF t \in fresh /\ work[t].reply = "ok" THEN "ready" ELSE @]
    /\ fresh' = fresh \ {t}
    /\ UNCHANGED <<stop, asked>>

synthesize(t) ==
    /\ client.state = "ready"
    /\ client.active = NoSynthesis
    /\ client.sink = NoSynthesis
    /\ asked.syntheses < MaxSyntheses
    /\ asked' = [asked EXCEPT !.syntheses = @ + 1]
    /\ client' = [client EXCEPT !.active = asked.syntheses + 1, !.state = "generating"]
    /\ fresh' = fresh \cup {t}
    /\ Give(t, [Command("synthesize") EXCEPT !.child = client.service,
                                             !.synthesis = asked.syntheses + 1])
    /\ UNCHANGED stop

\* Sound is retained, and an error kept, only for the call still asked for.
synthesized(t) ==
    /\ Answered(t, "synthesize")
    /\ client' =
           IF t \notin fresh \/ client.active # work[t].synthesis
           THEN client
           ELSE IF work[t].reply = "ok"
                THEN [client EXCEPT !.sink = client.active, !.active = NoSynthesis,
                                    !.state = "ready"]
                ELSE [client EXCEPT !.active = NoSynthesis, !.state = "failed"]
    /\ fresh' = fresh \ {t}
    /\ UNCHANGED <<stop, asked>>

takeAudioUnit ==
    /\ client.sink # NoSynthesis
    /\ client' = [client EXCEPT !.sink = NoSynthesis]
    /\ UNCHANGED <<serviceVars, supervisorVars, fresh, stop, asked>>

-----------------------------------------------------------------------------
(* Stopping *)

\* What is under way is invalidated and retained sound released.
Invalidated == [client EXCEPT !.active = NoSynthesis, !.sink = NoSynthesis]

\* The end of a stop, once nothing is left to be acknowledged.
StoppedBy(c) == [c EXCEPT !.state = "stopped", !.service = NoChild]

\* A stop goes on: an unacknowledged start first, then the service.
continueStop(c, t) ==
    CASE c.service = NoChild /\ c.request # NoRequest ->
             /\ Give(t, [Command("shutdown") EXCEPT !.request = c.request])
             /\ stop' = [NoStop EXCEPT !.at = "acknowledging"]
             /\ client' = [c EXCEPT !.state = "stopping"]
      [] c.service # NoChild /\ c.state # "stopped" ->
             /\ Give(t, [Command("shutdown") EXCEPT !.child = c.service])
             /\ stop' = [NoStop EXCEPT !.at = "closing"]
             /\ client' = [c EXCEPT !.state = "stopping"]
      [] OTHER ->
             /\ stop' = NoStop
             /\ client' = StoppedBy(c)
             /\ UNCHANGED <<serviceVars, supervisorVars>>

\* A start under way is interrupted by its request, then waited for.
stopService(c, t) ==
    IF Pending("start")
    THEN /\ Give(t, [Command("shutdown") EXCEPT !.request = c.request])
         /\ stop' = [NoStop EXCEPT !.at = "interrupting"]
         /\ client' = [c EXCEPT !.state = "stopping"]
    ELSE continueStop(c, t)

\* A shutdown joins one under way.
shutdown(t) ==
    /\ stop = NoStop
    /\ fresh' = {}
    /\ stopService(Invalidated, t)
    /\ UNCHANGED asked

\* An interruption refused because there was nothing to interrupt, or because
\* something else runs, is no failure.
interruptionAnswered(t) ==
    /\ stop.at = "interrupting"
    /\ Answered(t, "shutdown")
    /\ stop' = IF work[t].reply \in {"ok", "invalidState", "cancelled"}
               THEN [at |-> "joining", heard |-> work[t].reply = "ok",
                     child |-> work[t].session]
               ELSE NoStop
    /\ UNCHANGED <<client, fresh, asked>>

\* The start has ended, and was acknowledged by the interruption if it was
\* about the same child.
startJoined(t) ==
    /\ stop.at = "joining"
    /\ ~Pending("start")
    /\ continueStop(IF stop.heard /\ client.service \in {NoChild, stop.child}
                    THEN [client EXCEPT !.service = NoChild, !.request = NoRequest]
                    ELSE client, t)
    /\ UNCHANGED <<fresh, asked>>

\* The start is acknowledged; a failure leaves the client stopping.
startAcknowledged(t) ==
    /\ stop.at = "acknowledging"
    /\ Answered(t, "shutdown")
    /\ stop' = NoStop
    /\ client' = IF work[t].reply = "ok"
                 THEN StoppedBy([client EXCEPT !.request = NoRequest])
                 ELSE client
    /\ UNCHANGED <<fresh, asked>>

serviceStopped(t) ==
    /\ stop.at = "closing"
    /\ Answered(t, "shutdown")
    /\ stop' = NoStop
    /\ client' = IF work[t].reply = "ok"
                 THEN StoppedBy([client EXCEPT !.request = NoRequest])
                 ELSE client
    /\ UNCHANGED <<fresh, asked>>

cancelGeneration(t) ==
    /\ client.active # NoSynthesis
    /\ client' = [Invalidated EXCEPT !.state = "cancelling"]
    /\ fresh' = {t}
    /\ Give(t, [Command("cancel") EXCEPT !.synthesis = client.active])
    /\ UNCHANGED <<stop, asked>>

generationCancelled(t) ==
    /\ ~(t \in fresh /\ work[t].reply = "invalidState")
    /\ Answered(t, "cancel")
    /\ fresh' = fresh \ {t}
    /\ client' = IF t \in fresh /\ work[t].reply = "ok"
                 THEN StoppedBy([client EXCEPT !.request = NoRequest])
                 ELSE client
    /\ UNCHANGED <<stop, asked>>

\* A cancel that comes too late goes on as a shutdown, in the same step.
cancelledTooLate(t) ==
    /\ work[t].command = "cancel" /\ work[t].at = "replied"
    /\ t \in fresh /\ work[t].reply = "invalidState"
    /\ fresh' = {}
    /\ client' = [Invalidated EXCEPT !.state = "stopping"]
    /\ stop' = [NoStop EXCEPT !.at = "closing"]
    /\ work' = [work EXCEPT ![t] = [Command("shutdown") EXCEPT !.child = client.service]]
    /\ UNCHANGED <<serviceVars, admission, operation, slot, lifecycle, started, strays,
                   revoked, asked>>

-----------------------------------------------------------------------------
(* The removal of the optional runtime *)

\* It is asked for with the narration stopped or being closed: a book that is
\* being replaced leaves the settings without the narration that still stops.
removeChatterbox(t) ==
    /\ client.state \in {"stopped", "stopping"}
    /\ ~Pending("remove")
    /\ Give(t, Command("remove"))
    /\ UNCHANGED clientVars

chatterboxRemoved(t) ==
    /\ Answered(t, "remove")
    /\ UNCHANGED clientVars

-----------------------------------------------------------------------------

Calls(t) == start(t) \/ prepare(t) \/ synthesize(t) \/ cancelGeneration(t) \/ shutdown(t)
              \/ removeChatterbox(t)

Answers(t) == startService(t) \/ prepared(t) \/ synthesized(t) \/ interruptionAnswered(t)
                \/ startAcknowledged(t) \/ serviceStopped(t)
                \/ generationCancelled(t) \/ cancelledTooLate(t) \/ chatterboxRemoved(t)

Service == ServiceNext /\ UNCHANGED <<supervisorVars, clientVars>>

Supervisor == \E t \in Threads : Step(t) /\ UNCHANGED clientVars

Client == takeAudioUnit \/ \E t \in Threads : Calls(t) \/ Answers(t) \/ startJoined(t)

Next == Service \/ Supervisor \/ Client

\* The service handles what it reads, every thread runs and comes to get the
\* locks it waits for, and the reply of a command reaches its caller.
Fairness ==
    /\ WF_vars(ServiceStep /\ UNCHANGED <<supervisorVars, clientVars>>)
    /\ \A t \in Threads : SF_vars(Step(t) /\ UNCHANGED clientVars)
    /\ \A t \in Threads : WF_vars(Answers(t))
    /\ WF_vars(\E t \in Threads : startJoined(t))

Spec == Init /\ [][Next]_vars

FairSpec == Spec /\ Fairness

-----------------------------------------------------------------------------
(* Properties *)

\* The process of the last child runs on.
Runs(child) == \/ alive /\ started = child
               \/ child \in strays

NothingRuns == ~alive /\ strays = {}

\* Where a thread can be, and what a command can be answered.
Points == {"idle", "entering", "admitting", "configuring", "spawning", "rejected",
           "opening", "claiming", "talking", "deciding", "failed", "failing",
           "cancelling", "looking", "interrupting", "reopening", "stopping",
           "leaving", "retiring", "admitted", "forcing", "removing", "replied"}

Outcomes == {Nothing, "ok", "busy", "invalidState", "invalidInput", "cancelled",
             "timeout", "unavailable", "internalFailure", "protocolRejected"}

\* Types; a thread that talks is at a line of its script.
TypeOK ==
    /\ work \in [Threads ->
           [command : Commands \cup {Nothing}, child : Requests \cup {NoChild},
            request : Requests \cup {NoRequest}, synthesis : 0 .. MaxSyntheses,
            at : Points, line : Nat, session : Requests \cup {NoChild},
            reply : Outcomes]]
    /\ \A t \in Threads :
           work[t].at = "talking" => work[t].line \in 1 .. Len(Script[work[t].command])
    /\ admission \in Threads \cup {Nobody}
    /\ operation \in Threads \cup {Nobody}
    /\ slot \in Requests \cup {NoChild}
    /\ started \in Requests \cup {NoChild}
    /\ lifecycle.contained \in Requests \cup {NoChild}
    /\ lifecycle.rejected \in Requests \cup {NoRequest}
    /\ fresh \subseteq Threads
    /\ client.service \in Requests \cup {NoChild}
    /\ client.request \in Requests \cup {NoRequest}
    /\ faults \in 0 .. MaxFaults

\* A process that runs is the one the supervisor's slot holds: no path, not
\* even one that failed to see it die, forgets a child that still runs.
NoForgottenChild == alive => slot = started

\* A client that is stopped and owes no acknowledgement has left nothing
\* running: neither its service nor a process that escaped its job.
StoppedMeansGone ==
    client.state = "stopped" /\ client.service = NoChild /\ client.request = NoRequest
        => NothingRuns

\* A command that was answered as done names a child that is gone, and a
\* receipt kept for later never names one that still runs.
ContainmentIsTruthful ==
    /\ \A t \in Threads :
           work[t].at = "replied" /\ work[t].command \in {"cancel", "shutdown"}
               /\ work[t].reply = "ok" /\ work[t].session # NoChild
               => ~Runs(work[t].session)
    /\ \A child \in {lifecycle.contained, lifecycle.rejected} \ {NoChild} : ~Runs(child)

\* A process is known of as long as it runs, and what is said of it is true.
NothingRunsUnseen == NoForgottenChild /\ StoppedMeansGone /\ ContainmentIsTruthful

\* A synthesis that was taken back, by a cancel, a shutdown or a removal, is
\* never answered with sound, however late its child completes it.
TakenBackIsNotHeard ==
    \A t \in Threads :
        work[t].at = "replied" /\ work[t].command = "synthesize" /\ work[t].reply = "ok"
            => work[t].synthesis \notin revoked

\* The files of the runtime are removed while no child runs, and no start goes
\* past its admission meanwhile.
RemovalIsExclusive ==
    \A t \in Threads : work[t].at = "removing" =>
        /\ ~alive
        /\ \A u \in Threads : work[u].at \notin {"configuring", "spawning"}

\* What interrupts work is obeyed: no sound after a cancel, a shutdown or a
\* removal, and no process beside a removal of files.
InterruptionsHold == TakenBackIsNotHeard /\ RemovalIsExclusive

\* As long as nothing goes wrong, no frame of the service is ever taken for a
\* violation of the protocol, whatever is interrupted or comes late.
HealthyServiceIsNeverRejected ==
    faults = 0 => \A t \in Threads : work[t].reply # "protocolRejected"

\* Work asked of one service is never done on the one that replaced it.
OldWorkStaysOld ==
    \A t \in Threads :
        work[t].command \in {"prepare", "synthesize"} /\ work[t].session # NoChild
            => work[t].session = work[t].child

\* What is left of one conversation does no harm in the next one, neither as a
\* late frame nor as a command for a service that was replaced.
ConversationsStayApart == HealthyServiceIsNeverRejected /\ OldWorkStaysOld

\* A service that is no more is not recorded as going: the record leaves
\* stopping when the session does.
StopsOnlyLive ==
    slot = NoChild /\ SlotFree => lifecycle.state \in {"stopped", "failed"}

\* Every call of the client returns, and every shutdown ends.
EveryCallReturns ==
    /\ \A t \in Threads : work[t] # Idle ~> work[t] = Idle
    /\ stop # NoStop ~> stop = NoStop

=============================================================================
