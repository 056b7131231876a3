---------------------------- MODULE ChildProcess ----------------------------
(***************************************************************************)
(* The child processes of `orqis init`: the web runtime, forked with an    *)
(* IPC channel, and a tunnel binary per provider that is tried.  What the  *)
(* operating system knows of a process, what the command has seen of it,   *)
(* and the procedure both kinds are stopped by: SIGTERM, wait, SIGKILL     *)
(* (stopTunnelProcess in packages/tunnel/src/index.ts and                  *)
(* waitForRuntimeProcessExit in apps/cli/src/cli.ts).                      *)
(***************************************************************************)

CONSTANTS
  Providers,  \* tunnel providers with an adapter; a tunnel process has its name
  Runtime     \* the web runtime process

ASSUME ChildrenAssumption == Runtime \notin Providers

Children == Providers \cup {Runtime}

VARIABLES
  os,        \* os[c]: what the process is doing
  seen,      \* seen[c]: its exit event has been delivered to the command
  sent,      \* sent[c]: the signals the command has sent it
  stop,      \* stop[c]: the stop of the child, a promise that is made once
  handlers,  \* the signals the runtime still handles itself (process.once)
  exit       \* how the runtime ended: "clean" is code 0 or a stop signal

childVars == <<os, seen, sent, stop, handlers, exit>>

\* A tunnel only runs; the runtime is booting while it runs, then serving,
\* then closing its server and its store.
Alive == {"running", "serving", "closing"}

ChildTypeOK ==
  /\ os \in [Children -> Alive \cup {"none", "dead"}]
  /\ seen \in [Children -> BOOLEAN]
  /\ sent \in [Children -> SUBSET {"TERM", "KILL"}]
  /\ stop \in [Children -> {"none", "waiting", "ok", "error"}]
  /\ handlers \in SUBSET {"INT", "TERM"}
  /\ exit \in {"none", "clean", "bad"}

ChildInit ==
  /\ os = [c \in Children |-> "none"]
  /\ seen = [c \in Children |-> FALSE]
  /\ sent = [c \in Children |-> {}]
  /\ stop = [c \in Children |-> "none"]
  /\ handlers = {}
  /\ exit = "none"

\* The child is launched, or the launch fails and the child object says so.
Spawn(c) ==
  /\ \/ os' = [os EXCEPT ![c] = "running"] /\ UNCHANGED <<seen, exit>>
     \/ /\ os' = [os EXCEPT ![c] = "dead"] /\ seen' = [seen EXCEPT ![c] = TRUE]
        /\ exit' = IF c = Runtime THEN "bad" ELSE exit
  /\ UNCHANGED <<sent, stop, handlers>>

Settled(c) == stop[c] \in {"ok", "error"}

\* What a signal does to a process at once: a runtime that handles it starts
\* to close, one that does not dies of it; a tunnel binary takes its time.
AfterSignal(c, signal) ==
  IF c # Runtime \/ os[c] \notin Alive THEN os[c]
  ELSE IF signal \in handlers THEN "closing" ELSE "dead"

\* The stop of a child: nothing is left to do, or SIGTERM is sent and the
\* exit awaited.  It is begun once: later calls return the same promise.
BeginStop(c) ==
  IF seen[c]
  THEN stop' = [stop EXCEPT ![c] = "ok"] /\ UNCHANGED <<os, sent, handlers, exit>>
  ELSE /\ stop' = [stop EXCEPT ![c] = "waiting"]
       /\ sent' = [sent EXCEPT ![c] = @ \cup {"TERM"}]
       /\ os' = [os EXCEPT ![c] = AfterSignal(c, "TERM")]
       /\ handlers' = IF c = Runtime THEN handlers \ {"TERM"} ELSE handlers
       /\ exit' = IF os[Runtime] # os'[Runtime] /\ os'[Runtime] = "dead" THEN "clean" ELSE exit

\* Mutant: the timer rejects and leaves the process alone.
RejectOnly(c) ==
  /\ stop[c] = "waiting"
  /\ stop' = [stop EXCEPT ![c] = "error"]
  /\ UNCHANGED <<os, seen, sent, handlers, exit>>

\* Five seconds after SIGTERM: SIGKILL if the child has not exited, and the
\* stop is rejected either way.
StopTimeout(c) ==
  /\ stop[c] = "waiting"
  /\ sent' = [sent EXCEPT ![c] = @ \cup {"KILL"}]
  /\ stop' = [stop EXCEPT ![c] = "error"]
  /\ UNCHANGED <<os, seen, handlers, exit>>

\* The exit event.  A runtime that ended badly rejects its stop, a tunnel
\* never does.
SeeExit(c) ==
  /\ os[c] = "dead"
  /\ ~seen[c]
  /\ seen' = [seen EXCEPT ![c] = TRUE]
  /\ stop' = [stop EXCEPT ![c] =
                IF @ # "waiting" THEN @
                ELSE IF c = Runtime /\ exit = "bad" THEN "error" ELSE "ok"]
  /\ UNCHANGED <<os, sent, handlers, exit>>

\* A process ends by itself, or of SIGTERM if it is a tunnel.
Die(c) ==
  /\ os[c] \in Alive
  /\ os' = [os EXCEPT ![c] = "dead"]
  /\ exit' = IF c = Runtime THEN "bad" ELSE exit
  /\ UNCHANGED <<seen, sent, stop, handlers>>

\* SIGKILL cannot be handled.
DieOfKill(c) ==
  /\ os[c] \in Alive
  /\ "KILL" \in sent[c]
  /\ os' = [os EXCEPT ![c] = "dead"]
  /\ exit' = IF c = Runtime THEN "clean" ELSE exit
  /\ UNCHANGED <<seen, sent, stop, handlers>>

\* Some children are alive, as far as the command has seen.
AwaitsChildren == \E c \in Children : os[c] # "none" /\ ~seen[c]

=============================================================================
