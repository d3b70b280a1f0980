--------------------------- MODULE NativeSupervisor ---------------------------
(***************************************************************************)
(* The owner of the speech service: TtsServiceSupervisor of                *)
(* apps/desktop/src-tauri/src/tts_service_supervisor.rs.                   *)
(*                                                                         *)
(* Commands of the application run on threads of their own.  They share    *)
(* four locks: admission and operation, which are only ever tried, and the *)
(* session slot and the lifecycle record, which are waited for.  Short     *)
(* critical sections are one step; the slot (and, by a forced stop, the    *)
(* record as well) is also held while a process is terminated, which takes *)
(* steps of its own: a thread that terminates holds the slot.              *)
(*                                                                         *)
(* A start request starts one child at most, so the number of the request  *)
(* also names the child, its session, its service identity and its         *)
(* process.  A synthesis goes by a number of its own.  Health, the forced  *)
(* stop at exit and starts without a request or a profile, which only      *)
(* diagnostics and tests make, are left out.                               *)
(***************************************************************************)
EXTENDS SpeechService

CONSTANTS
    MaxThreads,     \* bound: commands under way at a time
    MaxStarts,      \* bound: starts asked for
    MaxSyntheses    \* bound: syntheses asked for

ASSUME SupervisorAssumption ==
    /\ MaxThreads \in Nat \ {0}
    /\ MaxStarts \in Nat \ {0}
    /\ MaxSyntheses \in Nat \ {0}

Threads == 1 .. MaxThreads

Nobody == 0

\* Start requests are numbered: their identities are random and never repeat.
Requests == 1 .. MaxStarts

NoRequest == 0

VARIABLES
    work,       \* what each thread does
    admission,  \* the thread that holds the admission lock
    operation,  \* the thread that holds the operation lock
    slot,       \* the session published, 0 if none
    lifecycle,  \* the lifecycle record
    started,    \* the last child published, 0 if none
    strays,     \* children whose job could not be assigned, not seen to die
    revoked     \* syntheses somebody took back

supervisorVars ==
    <<work, admission, operation, slot, lifecycle, started, strays, revoked>>

NoChild == 0

NoSynthesis == 0

Commands == {"start", "prepare", "synthesize", "cancel", "shutdown", "remove"}

\* A thread: its command, the child, the start request and the synthesis the
\* command names, where it is, the session it works on, and its reply.
Idle == [command |-> Nothing, child |-> NoChild, request |-> NoRequest,
         synthesis |-> NoSynthesis, at |-> "idle", line |-> 0, session |-> NoChild,
         reply |-> Nothing]

SupervisorInit ==
    /\ ServiceInit
    /\ work = [t \in Threads |-> Idle]
    /\ admission = Nobody
    /\ operation = Nobody
    /\ slot = NoChild
    /\ lifecycle = [state |-> "stopped", active |-> NoSynthesis, contained |-> NoChild,
                    rejected |-> NoRequest]
    /\ started = NoChild
    /\ strays = {}
    /\ revoked = {}

-----------------------------------------------------------------------------
(* Locks *)

\* While a process is terminated the slot is held.
Terminating == {"failing", "cancelling", "interrupting", "forcing"}

SlotFree == \A t \in Threads : work[t].at \notin Terminating

RecordFree == \A t \in Threads : work[t].at # "forcing"

\* The thread goes on to a point of its command.
Goto(t, at) == work' = [work EXCEPT ![t].at = at]

\* The locks a thread leaves behind.
Release(t) ==
    /\ operation' = IF operation = t THEN Nobody ELSE operation
    /\ admission' = IF admission = t THEN Nobody ELSE admission

\* The command ends with a reply, about a child.
ReplyAbout(t, reply, child) ==
    /\ work' = [work EXCEPT ![t].at = "replied", ![t].reply = reply,
                            ![t].session = child]
    /\ Release(t)

Reply(t, reply) == ReplyAbout(t, reply, NoChild)

\* Whether a start request is already spoken for by a receipt.
retains_start(request) == request \in {lifecycle.contained, lifecycle.rejected}

\* Whether the published session belongs to a start request.
Owns(request) == slot = request

\* Taking back the active synthesis.
Revoked == revoked \cup ({lifecycle.active} \ {NoSynthesis})

-----------------------------------------------------------------------------
(* Talking to the service *)

Send(message) == [does |-> "send", what |-> Message(message)]

Expect(frame) == [does |-> "expect", what |-> frame]

\* An answer in whose place the engine's error is accepted.
ExpectOfEngine(frame) == [does |-> "expectOfEngine", what |-> frame]

\* What is sent and read, line by line.
Script ==
    [start      |-> <<Send("handshake"), Expect(State("handshaking")),
                      Expect(Message("handshakeAccepted")), Expect(State("unloaded")),
                      Expect(Message("capabilities"))>>,
     prepare    |-> <<Send("load"), ExpectOfEngine(State("loading")),
                      ExpectOfEngine(State("warming")), Send("warm"),
                      ExpectOfEngine(State("ready")), Expect(Message("capabilities"))>>,
     synthesize |-> <<Send("synthesize"), ExpectOfEngine(State("generating")),
                      ExpectOfEngine(Message("audioMetadata")),
                      [does |-> "take", what |-> Message("audio")],
                      Expect(Message("completed")), Expect(State("ready"))>>,
     shutdown   |-> <<Send("shutdown"), Expect(State("stopping")),
                      Expect(State("stopped"))>>]

Line(t) == Script[work[t].command][work[t].line]

\* Mutated form: the script is read one line too far.
advance_tooFar(t) ==
    /\ work' = [work EXCEPT ![t].line = @ + 1]
    /\ UNCHANGED <<admission, operation>>

\* The line was carried out.
advance(t) ==
    IF work[t].line < Len(Script[work[t].command])
    THEN /\ work' = [work EXCEPT ![t].line = @ + 1]
         /\ UNCHANGED <<admission, operation>>
    ELSE CASE work[t].command = "synthesize" ->
                  Goto(t, "deciding") /\ UNCHANGED <<admission, operation>>
           [] work[t].command = "shutdown" ->
                  Goto(t, "leaving") /\ UNCHANGED <<admission, operation>>
           [] OTHER -> ReplyAbout(t, "ok", work[t].session)

\* The line failed.  A synthesis first asks whether it was taken back.
abandon(t, failure) ==
    /\ work' = [work EXCEPT
                   ![t].at = IF work[t].command = "synthesize" THEN "deciding" ELSE "failed",
                   ![t].reply = failure]
    /\ UNCHANGED <<admission, operation>>

\* A control is written, if the writer is open and the child reads.  A write
\* that ends after the deadline, or after the writer was closed, has failed,
\* whether or not it reached the child.
write_control(t) ==
    /\ work[t].at = "talking"
    /\ Line(t).does = "send"
    /\ LET written == Append(stdin, Line(t).what.kind)
       IN \/ /\ stdinOpen /\ alive
             /\ \/ stdin' = written /\ advance(t) /\ UNCHANGED faults
                \/ stdin' \in {stdin, written} /\ Fault /\ abandon(t, "timeout")
          \/ /\ ~(stdinOpen /\ alive)
             /\ abandon(t, "unavailable")
             /\ UNCHANGED <<stdin, faults>>
          \/ /\ ~stdinOpen
             /\ stdin' \in IF alive THEN {stdin, written} ELSE {stdin}
             /\ abandon(t, "cancelled")
             /\ UNCHANGED faults
    /\ UNCHANGED <<service, alive, stdinOpen, stdout, slot, lifecycle, started, strays,
                   revoked>>

\* Whether an error of the engine may stand in for the answer awaited.
validContext(expected) ==
    IF lifecycle.active = NoSynthesis
    THEN /\ expected.kind = "state"
         /\ lifecycle.state \in {"unloaded", "loading", "warming"}
    ELSE \/ lifecycle.state = "ready" /\ expected.kind = "state"
         \/ lifecycle.state = "generating" /\ expected.kind = "audioMetadata"

\* What a frame read means for the line.
verdict(frame, line) ==
    CASE frame = EngineError /\ line.does = "expectOfEngine" /\ validContext(line.what) ->
             "internalFailure"
      [] frame.kind = line.what.kind /\ line.what.state \in {Nothing, frame.state} ->
             "ok"
      [] OTHER -> "protocolRejected"

\* A frame is read.  A control of a session that is no longer published counts
\* for nothing; a state announced becomes the lifecycle's, expected or not.
receive_control(t) ==
    /\ work[t].at = "talking"
    /\ Line(t).does # "send"
    /\ stdout # <<>>
    /\ Line(t).does = "take" \/ SlotFree
    /\ stdout' = Tail(stdout)
    /\ LET frame == Head(stdout)
           current == Line(t).does = "take" \/ slot = work[t].session
           found == IF current THEN verdict(frame, Line(t)) ELSE "cancelled"
       IN /\ IF found = "ok" THEN advance(t) ELSE abandon(t, found)
          /\ lifecycle' = IF current /\ frame.kind = "state" /\ Line(t).what.kind = "state"
                          THEN [lifecycle EXCEPT !.state = frame.state]
                          ELSE lifecycle
    /\ UNCHANGED <<service, alive, stdin, stdinOpen, faults, slot, started, strays,
                   revoked>>

\* Mutated form: the end of the child's output is not noticed.
receiveFails_atDeadline(t) ==
    /\ work[t].at = "talking"
    /\ Line(t).does # "send"
    /\ Fault
    /\ abandon(t, "timeout")
    /\ UNCHANGED <<service, alive, stdin, stdinOpen, stdout, slot, lifecycle, started,
                   strays, revoked>>

\* No frame comes: the child is gone, or the deadline passes first.
receiveFails(t) ==
    /\ work[t].at = "talking"
    /\ Line(t).does # "send"
    /\ \/ ~alive /\ stdout = <<>> /\ abandon(t, "unavailable") /\ UNCHANGED faults
       \/ Fault /\ abandon(t, "timeout")
    /\ UNCHANGED <<service, alive, stdin, stdinOpen, stdout, slot, lifecycle, started,
                   strays, revoked>>

-----------------------------------------------------------------------------
(* Ending a process *)

\* The control writer is closed, then the process is killed and waited for.
CloseInput == stdinOpen' = FALSE

\* A termination either sees the process gone or gives up at its deadline.
ProcessGone ==
    /\ alive' = FALSE
    /\ UNCHANGED <<service, stdin, stdinOpen, stdout, faults>>

TerminationUnverified ==
    /\ Fault
    /\ UNCHANGED <<service, alive, stdin, stdinOpen, stdout>>

\* The record after a verified termination of the published session.
record_termination ==
    [lifecycle EXCEPT !.active = NoSynthesis, !.state = "stopped", !.contained = slot]

\* The session failed: it is marked so if it is still the one published.
fail_session(t) ==
    /\ work[t].at = "failed"
    /\ SlotFree
    /\ IF slot # work[t].session
       THEN Reply(t, "cancelled") /\ UNCHANGED <<lifecycle, stdinOpen>>
       ELSE /\ Goto(t, "failing")
            /\ lifecycle' = [lifecycle EXCEPT !.active = NoSynthesis, !.state = "failed"]
            /\ CloseInput
            /\ UNCHANGED <<admission, operation>>
    /\ UNCHANGED <<service, alive, stdin, stdout, faults, slot, started, strays,
                   revoked>>

\* Mutated form: the session is given up whether or not its child was seen to go.
failedSessionEnds_anyway(t) ==
    /\ work[t].at = "failing"
    /\ \/ ProcessGone /\ Reply(t, work[t].reply)
       \/ TerminationUnverified /\ Reply(t, "timeout")
    /\ lifecycle' = [lifecycle EXCEPT !.contained = slot]
    /\ slot' = NoChild
    /\ UNCHANGED <<started, strays, revoked>>

\* Only a session seen to be gone is given up and acknowledged.
failedSessionEnds(t) ==
    /\ work[t].at = "failing"
    /\ \/ /\ ProcessGone
          /\ lifecycle' = [lifecycle EXCEPT !.contained = slot]
          /\ slot' = NoChild
          /\ Reply(t, work[t].reply)
       \/ /\ TerminationUnverified
          /\ Reply(t, "timeout")
          /\ UNCHANGED <<lifecycle, slot>>
    /\ UNCHANGED <<started, strays, revoked>>

-----------------------------------------------------------------------------
(* Starting *)

\* A start request that is spoken for is refused before anything is tried.
start_selected(t) ==
    /\ work[t].at = "entering" /\ work[t].command = "start"
    /\ SlotFree
    /\ IF Owns(work[t].request) \/ retains_start(work[t].request)
       THEN Reply(t, "invalidState")
       ELSE Goto(t, "admitting") /\ UNCHANGED <<admission, operation>>
    /\ UNCHANGED <<serviceVars, slot, lifecycle, started, strays, revoked>>

\* An attempt ends without a child; its locks are given back first.
rejectAttempt(t, failure) ==
    /\ work' = [work EXCEPT ![t].at = "rejected", ![t].reply = failure]
    /\ Release(t)

\* Both locks are tried at once.
admitStart(t) ==
    /\ work[t].at = "admitting"
    /\ IF admission = Nobody /\ operation = Nobody
       THEN /\ Goto(t, "configuring")
            /\ admission' = t
            /\ operation' = t
       ELSE rejectAttempt(t, "busy")
    /\ UNCHANGED <<serviceVars, slot, lifecycle, started, strays, revoked>>

\* The profile is selected, if nothing runs and the record says so; the
\* runtime it names may be missing.
configure_profile_locked(t) ==
    /\ work[t].at = "configuring"
    /\ SlotFree
    /\ IF slot # NoChild \/ lifecycle.state \notin {"stopped", "failed"}
       THEN rejectAttempt(t, "invalidState") /\ UNCHANGED faults
       ELSE \/ /\ Goto(t, "spawning")
               /\ UNCHANGED <<admission, operation, faults>>
            \/ Fault /\ rejectAttempt(t, "unavailable")
    /\ UNCHANGED <<service, alive, stdin, stdinOpen, stdout, slot, lifecycle, started,
                   strays, revoked>>

\* The child is started and published under the slot's lock.
publish(t) ==
    /\ ServiceBorn
    /\ started' = work[t].request
    /\ slot' = work[t].request
    /\ lifecycle' = [lifecycle EXCEPT !.state = "starting", !.contained = NoChild]
    /\ work' = [work EXCEPT ![t].at = "talking", ![t].line = 1,
                            ![t].session = work[t].request]
    /\ admission' = Nobody
    /\ UNCHANGED <<operation, strays, faults>>

\* No process comes of it, or one that could not be put under a job and was
\* seen to die.
spawnFails(t) ==
    /\ Fault
    /\ rejectAttempt(t, "unavailable")
    /\ UNCHANGED <<service, alive, stdin, stdinOpen, stdout, slot, lifecycle, started,
                   strays>>

\* The process could not be put under a job and was not seen to die: no
\* session is published, and no receipt will name it.
processStrays(t) ==
    /\ Fault
    /\ Reply(t, "unavailable")
    /\ strays' = strays \cup {work[t].request}
    /\ UNCHANGED <<service, alive, stdin, stdinOpen, stdout, slot, lifecycle, started>>

start_selected_attempt(t) ==
    /\ work[t].at = "spawning"
    /\ SlotFree
    /\ IF slot # NoChild \/ retains_start(work[t].request)
       THEN /\ rejectAttempt(t, "invalidState")
            /\ UNCHANGED <<serviceVars, slot, lifecycle, started, strays>>
       ELSE publish(t) \/ spawnFails(t) \/ processStrays(t)
    /\ UNCHANGED revoked

\* An attempt that left no child is recorded, so that it can be acknowledged,
\* unless the request came to own a child meanwhile.
recordRejection(t) ==
    /\ work[t].at = "rejected"
    /\ SlotFree
    /\ lifecycle' =
           IF Owns(work[t].request) \/ retains_start(work[t].request)
           THEN lifecycle
           ELSE [lifecycle EXCEPT !.rejected = work[t].request]
    /\ Reply(t, work[t].reply)
    /\ UNCHANGED <<serviceVars, slot, started, strays, revoked>>

-----------------------------------------------------------------------------
(* Loading and synthesis *)

\* One operation at a time.
acquire_operation(t) ==
    /\ work[t].at = "entering"
    /\ work[t].command \in {"prepare", "synthesize"}
    /\ IF operation = Nobody
       THEN /\ Goto(t, "opening")
            /\ operation' = t
            /\ UNCHANGED admission
       ELSE Reply(t, "busy")
    /\ UNCHANGED <<serviceVars, slot, lifecycle, started, strays, revoked>>

\* The operation takes the session published now.
active_session(t) ==
    /\ work[t].at = "opening"
    /\ SlotFree
    /\ IF slot = NoChild
       THEN Reply(t, "invalidState")
       ELSE /\ work' = [work EXCEPT
                   ![t].session = slot, ![t].line = 1,
                   ![t].at = IF work[t].command = "synthesize" THEN "claiming" ELSE "talking"]
            /\ UNCHANGED <<admission, operation>>
    /\ UNCHANGED <<serviceVars, slot, lifecycle, started, strays, revoked>>

\* A synthesis makes itself the active one, of a ready service.
claim(t) ==
    /\ work[t].at = "claiming"
    /\ RecordFree
    /\ IF lifecycle.state # "ready" \/ lifecycle.active # NoSynthesis
       THEN Reply(t, "invalidState") /\ UNCHANGED lifecycle
       ELSE /\ Goto(t, "talking")
            /\ lifecycle' = [lifecycle EXCEPT !.active = work[t].synthesis]
            /\ UNCHANGED <<admission, operation>>
    /\ UNCHANGED <<serviceVars, slot, started, strays, revoked>>

\* Mutated form: nobody asks whether it is still the active one.
decide_unasked(t) ==
    /\ work[t].at = "deciding"
    /\ RecordFree
    /\ lifecycle' = [lifecycle EXCEPT !.active = NoSynthesis]
    /\ IF work[t].reply = Nothing
       THEN Reply(t, "ok")
       ELSE Goto(t, "failed") /\ UNCHANGED <<admission, operation>>
    /\ UNCHANGED <<serviceVars, slot, started, strays, revoked>>

\* Whether it is still the active one decides what a synthesis ends with.
decide(t) ==
    /\ work[t].at = "deciding"
    /\ RecordFree
    /\ IF lifecycle.active # work[t].synthesis
       THEN Reply(t, "cancelled") /\ UNCHANGED lifecycle
       ELSE /\ lifecycle' = [lifecycle EXCEPT !.active = NoSynthesis]
            /\ CASE work[t].reply = Nothing -> Reply(t, "ok")
                 [] work[t].reply = "cancelled" -> Reply(t, "cancelled")
                 [] OTHER -> Goto(t, "failed") /\ UNCHANGED <<admission, operation>>
    /\ UNCHANGED <<serviceVars, slot, started, strays, revoked>>

-----------------------------------------------------------------------------
(* Cancelling *)

\* The active synthesis is taken back first; then its child is told, if it
\* can be, and terminated.  Only the slot's lock is held.
cancel(t) ==
    /\ work[t].at = "entering" /\ work[t].command = "cancel"
    /\ SlotFree
    /\ IF slot = NoChild \/ lifecycle.active # work[t].synthesis
       THEN /\ Reply(t, IF slot = NoChild \/ lifecycle.active = NoSynthesis
                        THEN "invalidState" ELSE "invalidInput")
            /\ UNCHANGED <<lifecycle, revoked, stdin, stdinOpen>>
       ELSE /\ Goto(t, "cancelling")
            /\ lifecycle' = [lifecycle EXCEPT !.active = NoSynthesis, !.state = "cancelling"]
            /\ revoked' = Revoked
            /\ stdin' \in IF stdinOpen THEN {stdin, Append(stdin, "cancel")} ELSE {stdin}
            /\ CloseInput
            /\ UNCHANGED <<admission, operation>>
    /\ UNCHANGED <<service, alive, stdout, faults, slot, started, strays>>

\* The child is gone, or the caller learns that nobody saw it go.
terminated(t, at) ==
    /\ work[t].at = at
    /\ \/ /\ ProcessGone
          /\ lifecycle' = record_termination
          /\ slot' = NoChild
          /\ ReplyAbout(t, "ok", slot)
       \/ /\ TerminationUnverified
          /\ Reply(t, "timeout")
          /\ UNCHANGED <<lifecycle, slot>>
    /\ UNCHANGED <<started, strays, revoked>>

cancelled(t) == terminated(t, "cancelling")

-----------------------------------------------------------------------------
(* Shutting down *)

\* Whether a shutdown that names a child or a start request means a child.
Means(t, child) ==
    /\ work[t].child \in {NoChild, child}
    /\ work[t].request \in {NoRequest, child}

\* Mutated form: the shutdown is orderly whatever else goes on.
shutdown_owned_regardless(t) ==
    /\ work[t].at = "entering" /\ work[t].command = "shutdown"
    /\ RecordFree
    /\ IF work[t].child = NoChild /\ work[t].request # NoRequest
             /\ lifecycle.rejected = work[t].request
       THEN Reply(t, "ok")
       ELSE Goto(t, "looking") /\ operation' = t /\ UNCHANGED admission
    /\ UNCHANGED <<serviceVars, slot, lifecycle, started, strays, revoked>>

\* A rejected start is acknowledged at once; otherwise the operation lock is
\* tried, to shut down in order if nothing else is going on.
shutdown_owned(t) ==
    /\ work[t].at = "entering" /\ work[t].command = "shutdown"
    /\ RecordFree
    /\ IF work[t].child = NoChild /\ work[t].request # NoRequest
             /\ lifecycle.rejected = work[t].request
       THEN Reply(t, "ok")
       ELSE /\ Goto(t, "looking")
            /\ operation' = IF operation = Nobody THEN t ELSE operation
            /\ UNCHANGED admission
    /\ UNCHANGED <<serviceVars, slot, lifecycle, started, strays, revoked>>

\* Nothing runs: only what the receipt names is acknowledged.
acknowledge(t) ==
    IF lifecycle.contained = NoChild
    THEN Reply(t, "invalidState") /\ UNCHANGED lifecycle
    ELSE IF Means(t, lifecycle.contained)
         THEN /\ ReplyAbout(t, "ok", lifecycle.contained)
              /\ lifecycle' = [lifecycle EXCEPT !.state = "stopped"]
         ELSE Reply(t, "cancelled") /\ UNCHANGED lifecycle

\* Something else is going on: the child it means is interrupted.
interrupt(t) ==
    IF Means(t, slot)
    THEN /\ Goto(t, "interrupting")
         /\ lifecycle' = [lifecycle EXCEPT !.active = NoSynthesis, !.state = "stopping"]
         /\ revoked' = Revoked
         /\ CloseInput
         /\ UNCHANGED <<admission, operation>>
    ELSE Reply(t, "cancelled") /\ UNCHANGED <<lifecycle, revoked, stdinOpen>>

lookAtSlot(t) ==
    /\ work[t].at = "looking"
    /\ SlotFree
    /\ CASE slot = NoChild -> acknowledge(t) /\ UNCHANGED <<revoked, stdinOpen>>
         [] slot # NoChild /\ operation # t -> interrupt(t)
         [] OTHER -> /\ Goto(t, "reopening")
                     /\ UNCHANGED <<admission, operation, lifecycle, revoked,
                                    stdinOpen>>
    /\ UNCHANGED <<service, alive, stdin, stdout, faults, slot, started, strays>>

interrupted(t) == terminated(t, "interrupting")

\* The slot was let go and is looked at again.
reopen(t) ==
    /\ work[t].at = "reopening"
    /\ SlotFree
    /\ CASE slot = NoChild -> Reply(t, "invalidState")
         [] slot # NoChild /\ ~Means(t, slot) -> Reply(t, "cancelled")
         [] OTHER -> /\ work' = [work EXCEPT ![t].at = "stopping", ![t].session = slot]
                     /\ UNCHANGED <<admission, operation>>
    /\ UNCHANGED <<serviceVars, slot, lifecycle, started, strays, revoked>>

\* The record says stopping; the slot is not held here.
markStopping(t) ==
    /\ work[t].at = "stopping"
    /\ RecordFree
    /\ work' = [work EXCEPT ![t].at = "talking", ![t].line = 1]
    /\ lifecycle' = [lifecycle EXCEPT !.active = NoSynthesis, !.state = "stopping"]
    /\ revoked' = Revoked
    /\ UNCHANGED <<serviceVars, admission, operation, slot, started, strays>>

\* The writer is closed and the exit waited for, up to the deadline.
wait_for_exit(t) ==
    /\ work[t].at = "leaving"
    /\ CloseInput
    /\ \/ ~alive /\ Goto(t, "retiring") /\ UNCHANGED faults
       \/ Fault /\ work' = [work EXCEPT ![t].at = "failed", ![t].reply = "timeout"]
    /\ UNCHANGED <<service, alive, stdin, stdout, admission, operation, slot, lifecycle,
                   started, strays, revoked>>

\* The session is given up if it is still the one published.
retire(t) ==
    /\ work[t].at = "retiring"
    /\ SlotFree
    /\ IF slot = work[t].session
       THEN lifecycle' = record_termination /\ slot' = NoChild
       ELSE UNCHANGED <<lifecycle, slot>>
    /\ ReplyAbout(t, "ok", work[t].session)
    /\ UNCHANGED <<serviceVars, started, strays, revoked>>

-----------------------------------------------------------------------------
(* The forced stop before the optional runtime is removed *)

\* Removal keeps new starts out first.
stop_for_optional_removal(t) ==
    /\ work[t].at = "entering" /\ work[t].command = "remove"
    /\ IF admission = Nobody
       THEN /\ Goto(t, "admitted")
            /\ admission' = t
            /\ UNCHANGED operation
       ELSE Reply(t, "busy")
    /\ UNCHANGED <<serviceVars, slot, lifecycle, started, strays, revoked>>

\* A forced stop holds the slot and the record.
force_stop(t) ==
    /\ work[t].at = "admitted"
    /\ SlotFree
    /\ Goto(t, "forcing")
    /\ stdinOpen' = (stdinOpen /\ slot = NoChild)
    /\ UNCHANGED <<service, alive, stdin, stdout, faults, admission, operation, slot,
                   lifecycle, started, strays, revoked>>

\* Everything is forgotten, receipts included, once the child is gone.
forced(t) ==
    /\ work[t].at = "forcing"
    /\ \/ /\ IF slot = NoChild THEN UNCHANGED serviceVars ELSE ProcessGone
          /\ slot' = NoChild
          /\ lifecycle' = [state |-> "stopped", active |-> NoSynthesis,
                           contained |-> NoChild, rejected |-> NoRequest]
          /\ revoked' = Revoked
          /\ Goto(t, "removing")
          /\ UNCHANGED <<admission, operation>>
       \/ /\ slot # NoChild
          /\ TerminationUnverified
          /\ Reply(t, "timeout")
          /\ UNCHANGED <<slot, lifecycle, revoked>>
    /\ UNCHANGED <<started, strays>>

\* The files are removed while admission is held.
removed(t) ==
    /\ work[t].at = "removing"
    /\ Reply(t, "ok")
    /\ UNCHANGED <<serviceVars, slot, lifecycle, started, strays, revoked>>

-----------------------------------------------------------------------------
(* Commands come and go *)

Command(name) == [Idle EXCEPT !.command = name, !.at = "entering"]

\* A command is given to an idle thread, the first one.
Give(t, command) ==
    /\ work[t] = Idle
    /\ \A u \in 1 .. t - 1 : work[u] # Idle
    /\ work' = [work EXCEPT ![t] = command]
    /\ UNCHANGED <<serviceVars, admission, operation, slot, lifecycle, started, strays,
                   revoked>>

\* The reply is taken and the thread is free again.
Take(t) ==
    /\ work[t].at = "replied"
    /\ work' = [work EXCEPT ![t] = Idle]
    /\ UNCHANGED <<serviceVars, admission, operation, slot, lifecycle, started, strays,
                   revoked>>

Starting(t) == start_selected(t) \/ admitStart(t) \/ configure_profile_locked(t)
                 \/ start_selected_attempt(t) \/ recordRejection(t)

Talking(t) == write_control(t) \/ receive_control(t) \/ receiveFails(t)

Operating(t) == acquire_operation(t) \/ active_session(t) \/ claim(t) \/ decide(t)

Failing(t) == fail_session(t) \/ failedSessionEnds(t)

Cancelling(t) == cancel(t) \/ cancelled(t)

ShuttingDown(t) == shutdown_owned(t) \/ lookAtSlot(t) \/ interrupted(t) \/ reopen(t)
                     \/ markStopping(t) \/ wait_for_exit(t) \/ retire(t)

Forcing(t) == stop_for_optional_removal(t) \/ force_stop(t) \/ forced(t) \/ removed(t)

Step(t) == Starting(t) \/ Talking(t) \/ Operating(t) \/ Failing(t) \/ Cancelling(t)
             \/ ShuttingDown(t) \/ Forcing(t)

=============================================================================
