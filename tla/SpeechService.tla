---------------------------- MODULE SpeechService ----------------------------
(***************************************************************************)
(* The speech service: the child process that turns text into sound, as    *)
(* ModelFreeTtsService and run_service of                                  *)
(* services/tts/src/voxleaf_tts/service.py write it.                       *)
(*                                                                         *)
(* One service is reachable at a time, through two pipes: stdin, which     *)
(* brings control messages, and stdout, which takes frames back.  A frame  *)
(* is its kind, with the state it announces if it announces one.           *)
(*                                                                         *)
(* Left out: the contents of messages other than their kind, and health,   *)
(* which only diagnostics ask for.  The identities of a frame are left out *)
(* as well: a service serves one request at a time and dies with its       *)
(* session.  A request and its end are two steps, and messages may come    *)
(* between them: so it is with an engine that cannot settle at once; the   *)
(* others take both steps before they read again.                          *)
(***************************************************************************)
EXTENDS Naturals, Sequences

CONSTANT MaxFaults  \* bound: things that go wrong in one behaviour

ASSUME MaxFaultsAssumption == MaxFaults \in Nat

VARIABLES
    service,    \* the service's state
    alive,      \* whether its process runs
    stdin,      \* messages in the pipe to it
    stdinOpen,  \* whether the supervisor's end of that pipe is open
    stdout,     \* frames it has written and nobody has read
    faults      \* what has gone wrong so far

serviceVars == <<service, alive, stdin, stdinOpen, stdout, faults>>

Nothing == "nothing"

State(s) == [kind |-> "state", state |-> s]

Message(kind) == [kind |-> kind, state |-> Nothing]

\* The two errors the supervisor tells apart: one of the engine, and a refusal.
EngineError == Message("engineError")

Refusal == Message("refusal")

ServiceStates ==
    {"starting", "unloaded", "warming", "ready", "generating", "stopped", "failed"}

ServiceInit ==
    /\ service = "stopped"
    /\ alive = FALSE
    /\ stdin = <<>>
    /\ stdinOpen = FALSE
    /\ stdout = <<>>
    /\ faults = 0

\* A process is started with both pipes.
ServiceBorn ==
    /\ service' = "starting"
    /\ alive' = TRUE
    /\ stdin' = <<>>
    /\ stdinOpen' = TRUE
    /\ stdout' = <<>>

\* Something goes wrong.
Fault == faults < MaxFaults /\ faults' = faults + 1

-----------------------------------------------------------------------------
(* What a message makes of the state, and what is written *)

\* What the engine is asked for while a message is handled.
UsesEngine == {"load", "warm", "synthesize", "cancel"}

\* The state in which each message is accepted.
Accepts == [handshake  |-> {"starting"},
            load       |-> {"unloaded"},
            warm       |-> {"warming"},
            synthesize |-> {"ready"},
            cancel     |-> {"generating"},
            shutdown   |-> ServiceStates \ {"stopped", "failed"}]

\* The state each message leads to.
LeadsTo == [handshake  |-> "unloaded",
            load       |-> "warming",
            warm       |-> "ready",
            synthesize |-> "generating",
            cancel     |-> "stopped",
            shutdown   |-> "stopped"]

Says == [handshake  |-> <<State("handshaking"), Message("handshakeAccepted"),
                          State("unloaded"), Message("capabilities")>>,
         load       |-> <<State("loading"), State("warming")>>,
         warm       |-> <<State("ready"), Message("capabilities")>>,
         synthesize |-> <<State("generating")>>,
         cancel     |-> <<State("cancelling"), Message("cancelled"), State("stopped")>>,
         shutdown   |-> <<State("stopping"), State("stopped")>>]

\* The next message, taken out of the pipe.
Reads(message) ==
    /\ alive
    /\ stdin # <<>>
    /\ Head(stdin) = message
    /\ stdin' = Tail(stdin)

\* A message is read and answered.  A stopped service leaves at once.
handle_control(message) ==
    /\ Reads(message)
    /\ service \in Accepts[message]
    /\ service' = LeadsTo[message]
    /\ alive' = (LeadsTo[message] # "stopped")
    /\ stdout' = stdout \o Says[message]
    /\ UNCHANGED <<stdinOpen, faults>>

\* A message that does not fit the state is refused and changes nothing, but a
\* second handshake is a violation of the protocol and ends the process.
refuse(message) ==
    /\ Reads(message)
    /\ service \notin Accepts[message]
    /\ stdout' = Append(stdout, Refusal)
    /\ alive' = (message # "handshake")
    /\ UNCHANGED <<service, stdinOpen, faults>>

\* The engine fails: the error, then the state it leaves.
fail_engine ==
    /\ Fault
    /\ alive
    /\ \/ \E message \in UsesEngine : Reads(message) /\ service \in Accepts[message]
       \/ service = "generating" /\ UNCHANGED stdin
    /\ service' = "failed"
    /\ stdout' = stdout \o <<EngineError, State("failed")>>
    /\ UNCHANGED <<alive, stdinOpen>>

\* The engine ends: metadata, sound, completion and the state, in one write.
settle_active ==
    /\ alive
    /\ service = "generating"
    /\ service' = "ready"
    /\ stdout' = stdout \o <<Message("audioMetadata"), Message("audio"),
                             Message("completed"), State("ready")>>
    /\ UNCHANGED <<alive, stdin, stdinOpen, faults>>

\* The end of stdin ends the service; cleaning up forgets all but a failure.
endOfInput ==
    /\ alive
    /\ stdin = <<>>
    /\ ~stdinOpen
    /\ alive' = FALSE
    /\ service' = IF service = "failed" THEN "failed" ELSE "stopped"
    /\ UNCHANGED <<stdin, stdinOpen, stdout, faults>>

\* The process dies.
crash ==
    /\ alive
    /\ Fault
    /\ alive' = FALSE
    /\ UNCHANGED <<service, stdin, stdinOpen, stdout>>

ServiceStep ==
    \/ \E message \in DOMAIN Accepts : handle_control(message) \/ refuse(message)
    \/ settle_active
    \/ endOfInput

ServiceNext == ServiceStep \/ fail_engine \/ crash

=============================================================================
