------------------------------ MODULE CliInit ------------------------------
(***************************************************************************)
(* `orqis init` (apps/cli/src/cli.ts) with its children: it bootstraps the *)
(* config, forks the web runtime and waits for its ready message, polls    *)
(* its health, starts a tunnel (Tunnel), prints the session and waits for  *)
(* a signal to tear everything down.  The runtime's side of the protocol   *)
(* is apps/web/src/runtime-process.ts.                                     *)
(*                                                                         *)
(* Signals come at any moment: Ctrl-C reaches the whole process group, a   *)
(* SIGTERM only the command.  The command handles them once the session is *)
(* running, each kind once; before that, and after, a signal kills it.     *)
(***************************************************************************)
EXTENDS Tunnel

CONSTANT MaxSignals  \* bound: signals the user sends

ASSUME CliAssumption == MaxSignals \in Nat

VARIABLES
  cli,        \* where the command is
  message,    \* the runtime's message on the IPC channel, not yet delivered
  listening,  \* the signals the command handles (process.once)
  arrived,    \* signals whose handler has yet to run
  signals     \* how many signals the user has sent

vars == <<childVars, tunnelVars, cli, message, listening, arrived, signals>>

-----------------------------------------------------------------------------

\* The phases of startOrqisInitSession, of the teardown, and the ends: runCli
\* returns 0 or 1, and the process exits when nothing keeps it alive.
Phases == {"bootstrap", "starting", "health", "tunnel", "undo", "running",
           "stop_tunnel", "stop_runtime", "done", "failed", "exited", "killed"}

TypeOK ==
  /\ ChildTypeOK /\ TunnelTypeOK
  /\ cli \in Phases
  /\ message \in {"none", "ready", "start_error"}
  /\ listening \in SUBSET {"INT", "TERM"} /\ arrived \subseteq listening
  /\ signals \in 0..MaxSignals

CliAlive == cli \notin {"exited", "killed"}

Init ==
  /\ ChildInit /\ TunnelInit
  /\ cli = "bootstrap"
  /\ message = "none"
  /\ listening = {} /\ arrived = {}
  /\ signals = 0

\* The config is read, or created, or refused; the runtime is forked in the
\* same breath.
Bootstrap ==
  /\ cli = "bootstrap"
  /\ \/ /\ \E raw \in RawOrders : order' = NormalizedOrder(raw)
        /\ Spawn(Runtime)
        /\ cli' = "starting"
     \/ cli' = "failed" /\ UNCHANGED <<order, childVars>>
  /\ UNCHANGED <<env, urlOut, tunnel, deadline, message, listening, arrived, signals>>

-----------------------------------------------------------------------------
(* startWebRuntimeInDedicatedProcess: whichever comes first of the ready   *)
(* message, the start error, the exit and the timeout settles the start.   *)

RuntimeIsReady ==
  /\ cli = "starting" /\ message = "ready"
  /\ cli' = "health" /\ message' = "none" /\ deadline' = FALSE
  /\ UNCHANGED <<childVars, order, env, urlOut, tunnel, listening, arrived, signals>>

\* The runtime reports an error, or the timeout strikes: it is stopped in the
\* background and the command fails at once.
GiveUpStart ==
  /\ cli = "starting"
  /\ \/ message = "start_error" /\ message' = "none"
     \/ deadline /\ UNCHANGED message
  /\ BeginStop(Runtime)
  /\ cli' = "failed"
  /\ UNCHANGED <<seen, tunnelVars, listening, arrived, signals>>

RuntimeIsGone ==
  /\ cli = "starting" /\ seen[Runtime]
  /\ BeginStop(Runtime)
  /\ cli' = "failed"
  /\ UNCHANGED <<seen, tunnelVars, message, listening, arrived, signals>>

-----------------------------------------------------------------------------
(* startOrqisInitSession after the runtime has started.                    *)

\* The health URL answers; the tunnel is started next.
Healthy ==
  /\ cli = "health" /\ os[Runtime] = "serving"
  /\ cli' = "tunnel" /\ BeginTunnel
  /\ UNCHANGED <<childVars, order, deadline, message, listening, arrived, signals>>

Unhealthy ==
  /\ cli = "health" /\ deadline
  /\ BeginStop(Runtime)
  /\ cli' = "undo"
  /\ UNCHANGED <<seen, tunnelVars, message, listening, arrived, signals>>

\* No tunnel: the runtime that was started for it is stopped.
NoTunnel ==
  /\ cli = "tunnel" /\ tunnel.pc = "failed"
  /\ BeginStop(Runtime)
  /\ cli' = "undo"
  /\ UNCHANGED <<seen, tunnelVars, message, listening, arrived, signals>>

Undone ==
  /\ cli = "undo" /\ Settled(Runtime)
  /\ cli' = "failed"
  /\ UNCHANGED <<childVars, tunnelVars, message, listening, arrived, signals>>

\* The session is printed and the command waits for a signal.
Published ==
  /\ cli = "tunnel" /\ tunnel.pc = "session"
  /\ cli' = "running"
  /\ listening' = {"INT", "TERM"}
  /\ UNCHANGED <<childVars, tunnelVars, message, arrived, signals>>

-----------------------------------------------------------------------------
(* composeRuntimeWithTunnel and waitForRuntimeShutdown.                    *)

\* The session's tunnel is a process of its own.
HasTunnelProcess == env[Current] = "start"

\* The tunnel is stopped first; a configured one has nothing to stop.
BeginTeardown ==
  IF HasTunnelProcess
  THEN BeginStop(Current) /\ cli' = "stop_tunnel"
  ELSE BeginStop(Runtime) /\ cli' = "stop_runtime"

\* Then the runtime, even if the stop of the tunnel was rejected.
TunnelStopped ==
  /\ cli = "stop_tunnel" /\ Settled(Current)
  /\ BeginStop(Runtime) /\ cli' = "stop_runtime"
  /\ UNCHANGED <<seen, tunnelVars, message, listening, arrived, signals>>

\* The composed stop settles: both handlers are taken off.
RuntimeStopped ==
  /\ cli = "stop_runtime" /\ Settled(Runtime)
  /\ cli' = IF stop[Runtime] = "error" \/ (HasTunnelProcess /\ stop[Current] = "error")
            THEN "failed" ELSE "done"
  /\ listening' = {} /\ arrived' = {}
  /\ UNCHANGED <<childVars, tunnelVars, message, signals>>

-----------------------------------------------------------------------------
(* The runtime process.                                                    *)

\* Mutant: SIGTERM is not handled.
BareRuntimeReady ==
  /\ os[Runtime] = "running"
  /\ IF CliAlive
     THEN /\ os' = [os EXCEPT ![Runtime] = "serving"]
          /\ message' = "ready"
          /\ handlers' = {"INT"}
          /\ UNCHANGED exit
     ELSE /\ os' = [os EXCEPT ![Runtime] = "dead"]
          /\ exit' = "bad"
          /\ UNCHANGED <<message, handlers>>
  /\ UNCHANGED <<seen, sent, stop, tunnelVars, cli, listening, arrived, signals>>

\* Its server listens: it says so and installs its handlers.  If the command
\* is gone, sending fails and the process with it.
RuntimeReady ==
  /\ os[Runtime] = "running"
  /\ IF CliAlive
     THEN /\ os' = [os EXCEPT ![Runtime] = "serving"]
          /\ message' = "ready"
          /\ handlers' = {"INT", "TERM"}
          /\ UNCHANGED exit
     ELSE /\ os' = [os EXCEPT ![Runtime] = "dead"]
          /\ exit' = "bad"
          /\ UNCHANGED <<message, handlers>>
  /\ UNCHANGED <<seen, sent, stop, tunnelVars, cli, listening, arrived, signals>>

\* The configuration, the store or the port is refused: it says so and exits 1.
RuntimeStartError ==
  /\ os[Runtime] = "running"
  /\ os' = [os EXCEPT ![Runtime] = "dead"]
  /\ exit' = "bad"
  /\ message' = IF CliAlive THEN "start_error" ELSE message
  /\ UNCHANGED <<seen, sent, stop, handlers, tunnelVars, cli, listening, arrived, signals>>

\* The server is closed and the store; a failure of either exits with 1.
RuntimeCloses ==
  /\ os[Runtime] = "closing"
  /\ os' = [os EXCEPT ![Runtime] = "dead"]
  /\ exit' \in {"clean", "bad"}
  /\ UNCHANGED <<seen, sent, stop, handlers, message, tunnelVars, cli, listening, arrived, signals>>

\* Mutant: the end of the command does not concern the runtime.
IgnoreDisconnect == FALSE /\ vars' = vars

\* The channel is closed by the end of the command: "disconnect" is handled
\* like a signal.
SeeDisconnect ==
  /\ ~CliAlive /\ os[Runtime] = "serving"
  /\ os' = [os EXCEPT ![Runtime] = "closing"]
  /\ UNCHANGED <<seen, sent, stop, handlers, exit, message, tunnelVars, cli, listening, arrived, signals>>

-----------------------------------------------------------------------------
(* Signals of the user, deaths and time.                                   *)

\* A signal kills a command that does not listen for it.
Arrive(signal) ==
  /\ CliAlive /\ signals < MaxSignals
  /\ signals' = signals + 1
  /\ IF signal \in listening THEN arrived' = arrived \cup {signal} /\ UNCHANGED cli
     ELSE cli' = "killed" /\ UNCHANGED arrived
  /\ UNCHANGED <<seen, sent, stop, message, tunnelVars, listening>>

Terminate == Arrive("TERM") /\ UNCHANGED <<os, handlers, exit>>

\* Ctrl-C reaches the children as well: a tunnel binary ends in its own time
\* (Die), the runtime as it handles it.
Interrupt ==
  /\ Arrive("INT")
  /\ os' = [os EXCEPT ![Runtime] = AfterSignal(Runtime, "INT")]
  /\ exit' = IF os'[Runtime] # os[Runtime] /\ os'[Runtime] = "dead" THEN "clean" ELSE exit
  /\ handlers' = handlers \ {"INT"}

\* The handler runs: the first signal starts the teardown, a second one of
\* the other kind gets the promise of the same teardown.
HandleSignal ==
  \E signal \in arrived :
    /\ arrived' = arrived \ {signal}
    /\ listening' = listening \ {signal}
    /\ IF cli = "running" THEN BeginTeardown
       ELSE UNCHANGED <<cli, os, sent, stop, handlers, exit>>
    /\ UNCHANGED <<seen, message, tunnelVars, signals>>

\* A wait runs out: the start of the runtime, its health, the discovery.
DeadlinePasses ==
  /\ cli \in {"starting", "health"} \/ tunnel.pc \in {"poll", "fetch"}
  /\ CliAlive /\ ~deadline
  /\ deadline' = TRUE
  /\ UNCHANGED <<childVars, order, env, urlOut, tunnel, cli, message, listening, arrived, signals>>

\* Node ends when nothing keeps its event loop alive: a child that has not
\* exited does, a pending promise does not, so that a command whose children
\* have all died ends although nobody told it to.
Exit ==
  /\ cli \in {"running", "done", "failed"} /\ arrived = {}
  /\ ~AwaitsChildren
  /\ cli' = "exited"
  /\ UNCHANGED <<childVars, tunnelVars, message, listening, arrived, signals>>

-----------------------------------------------------------------------------

CommandStep ==
  \/ Bootstrap \/ RuntimeIsReady \/ GiveUpStart \/ RuntimeIsGone
  \/ Healthy \/ Unhealthy \/ NoTunnel \/ Undone \/ Published
  \/ TunnelStopped \/ RuntimeStopped \/ Exit
  \/ cli = "tunnel" /\ TunnelStep /\ UNCHANGED <<cli, message, listening, arrived, signals>>

\* What the command does about one child in the background.
Background(c) ==
  /\ CliAlive
  /\ StopTimeout(c) \/ SeeExit(c)
  /\ UNCHANGED <<tunnelVars, cli, message, listening, arrived, signals>>

Boot == RuntimeReady \/ RuntimeStartError

OfChild(action) ==
  action /\ UNCHANGED <<tunnelVars, cli, message, listening, arrived, signals>>

Next ==
  \/ CommandStep
  \/ HandleSignal
  \/ \E c \in Children : Background(c)
  \/ Boot \/ RuntimeCloses \/ SeeDisconnect
  \/ Terminate \/ Interrupt
  \/ \E c \in Children : OfChild(Die(c))
  \/ \E c \in Children : OfChild(DieOfKill(c))
  \/ \E p \in Providers : PrintUrl(p) /\ UNCHANGED <<cli, message, listening, arrived, signals>>
  \/ DeadlinePasses

Spec == Init /\ [][Next]_vars

\* The command's promises and handlers run, its timers fire, and a process
\* that was sent SIGKILL dies.  The runtime boots or fails, and closing its
\* server ends, for Node times slow requests out.  Nothing makes a tunnel
\* binary report a URL, or heed SIGTERM.
Fairness ==
  /\ WF_vars(CommandStep) /\ WF_vars(HandleSignal) /\ WF_vars(DeadlinePasses)
  /\ \A c \in Children : WF_vars(Background(c)) /\ WF_vars(OfChild(DieOfKill(c)))
  /\ WF_vars(Boot) /\ WF_vars(RuntimeCloses) /\ WF_vars(SeeDisconnect)

FairSpec == Spec /\ Fairness

-----------------------------------------------------------------------------
(* Properties.                                                             *)

\* A tunnel process runs only while the command is at its provider: it is
\* gone, or was sent SIGKILL, before the next provider is tried, before all
\* of them are given up and before the runtime behind it is stopped, so that
\* a public URL is never left without its runtime by the command's doing.
TunnelsAreSupervised ==
  \A p \in Providers :
    CliAlive /\ os[p] = "running" /\ "KILL" \notin sent[p] =>
      /\ tunnel.pc \in {"poll", "fetch", "cleanup", "session"} /\ p = Current
      /\ sent[Runtime] = {}

\* The command never kills a runtime that has reported ready except by its
\* SIGKILL: the SIGTERM of the teardown always finds a handler, also after
\* Ctrl-C has reached the runtime first, and its store is closed.
GracefulUnlessForced ==
  [][signals' = signals /\ os[Runtime] \in {"serving", "closing"}
       /\ os'[Runtime] = "dead" /\ exit' = "clean" =>
         os[Runtime] = "closing" /\ sent' = sent]_vars

\* Every start ends in a session or in the end of the command, and every
\* teardown in its end, which its children do not survive: neither a silent
\* runtime nor a tunnel that ignores SIGTERM holds it up for ever.
InitSettles == cli # "running" ~> cli \in {"running", "exited", "killed"}

\* A command that is killed, at whatever moment, takes its runtime with it.
RuntimeFollowsCommand == cli = "killed" ~> os[Runtime] \in {"none", "dead"}

=============================================================================
