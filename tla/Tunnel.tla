------------------------------- MODULE Tunnel -------------------------------
(***************************************************************************)
(* startTunnelWithFallback of packages/tunnel: the providers are tried in  *)
(* order until one has a public URL.  An adapter starts its binary and     *)
(* polls for the URL, while the process prints, exits or keeps silent and  *)
(* the deadline passes; a provider that fails is stopped before the next   *)
(* one is tried.                                                           *)
(***************************************************************************)
EXTENDS ChildProcess, Naturals, Sequences, FiniteSets

CONSTANTS
  RawOrders,     \* values of tunnel.providers in the config
  DefaultOrder,  \* the order used when the config names no provider
  OnLocalHost,   \* the runtime listens on a name of the local host
  Blank,         \* an entry that is empty once it is trimmed
  ApiProvider    \* the provider whose URL is also asked for over HTTP: ngrok

ASSUME TunnelAssumption ==
  /\ ApiProvider \in Providers /\ Blank \notin Providers
  /\ OnLocalHost \in BOOLEAN
  /\ RawOrders \subseteq Seq(STRING)
  /\ DefaultOrder \in Seq(Providers)
  /\ \A i, j \in DOMAIN DefaultOrder : DefaultOrder[i] = DefaultOrder[j] => i = j

VARIABLES
  order,     \* the order of this start
  env,       \* env[p]: what the environment variables say of provider p
  urlOut,    \* urlOut[p]: the process has printed or reported a public URL
  tunnel,    \* the call of startTunnelWithFallback: where it is, which provider
  deadline   \* the wait in progress (start, health, discovery) has run out

tunnelVars == <<order, env, urlOut, tunnel, deadline>>

-----------------------------------------------------------------------------

\* Mutant: an entry may come twice.
TrimmedOrder(raw) ==
  LET named == SelectSeq(raw, LAMBDA p : p # Blank)
  IN IF named = <<>> THEN DefaultOrder ELSE named

\* Blank entries are dropped and repetitions after the first; nothing left
\* means the default.
NormalizedOrder(raw) ==
  LET first == {i \in DOMAIN raw : raw[i] # Blank /\ \A j \in 1..(i - 1) : raw[j] # raw[i]}
      nth(k) == CHOOSE i \in first : Cardinality({j \in first : j < i}) = k - 1
  IN IF first = {} THEN DefaultOrder
     ELSE [k \in 1..Cardinality(first) |-> raw[nth(k)]]

\* The provider is switched off, or has a malformed or a good public URL
\* configured, or has to be started.
EnvKinds == {"disabled", "invalid_url", "configured", "start"}

\* URLs as they are found in the output of a process and in the answer of
\* ngrok's API, and the local addresses the tunnels of that answer serve.
Urls == [scheme : {"http", "https", "other"}, host : {"local", "provider", "elsewhere"}]

Addresses == [port : {"ours", "other"}, host : {"ours", "local", "elsewhere", "none"}]

IsCandidate(url) == url.scheme \in {"http", "https"} /\ url.host # "local"

\* A URL in the output of provider p that p itself issues.
IsIssuedBy(p, url) ==
  /\ IsCandidate(url)
  /\ url.host = "provider"
  /\ p = ApiProvider => url.scheme = "https"

\* A bare port is ours, and so is our port on another name of the local host.
TargetsUs(addr) ==
  /\ addr.port = "ours"
  /\ addr.host \in {"ours", "none"} \/ (addr.host = "local" /\ OnLocalHost)

TunnelTypeOK ==
  /\ \A i, j \in DOMAIN order : order[i] # Blank /\ (order[i] = order[j] => i = j)
  /\ env \in [Providers -> EnvKinds]
  /\ urlOut \in [Providers -> BOOLEAN]
  /\ tunnel.pc \in {"idle", "try", "poll", "fetch", "cleanup", "session", "failed"}
  /\ tunnel.at \in 0..(Len(order) + 1)
  /\ deadline \in BOOLEAN

TunnelInit ==
  /\ order = <<>>
  /\ env \in [Providers -> EnvKinds]
  /\ urlOut = [p \in Providers |-> FALSE]
  /\ tunnel = [pc |-> "idle", at |-> 0]
  /\ deadline = FALSE

\* The provider being tried, or that has the session.
Current == order[tunnel.at]

KindOf(p) == IF p \in Providers THEN env[p] ELSE "unregistered"

GoTo(pc) == tunnel' = [tunnel EXCEPT !.pc = pc]

NextProvider == tunnel' = [pc |-> "try", at |-> tunnel.at + 1]

BeginTunnel ==
  /\ tunnel' = [pc |-> "try", at |-> 1]
  /\ UNCHANGED <<env, urlOut>>

\* Nothing to start: no adapter, or one that throws at once.
SkipProvider ==
  /\ tunnel.pc = "try" /\ tunnel.at <= Len(order)
  /\ KindOf(Current) \in {"unregistered", "disabled", "invalid_url"}
  /\ NextProvider
  /\ UNCHANGED <<order, env, urlOut, deadline, childVars>>

\* A configured URL is a session without a process.
UseConfigured ==
  /\ tunnel.pc = "try" /\ tunnel.at <= Len(order)
  /\ KindOf(Current) = "configured"
  /\ GoTo("session")
  /\ UNCHANGED <<order, env, urlOut, deadline, childVars>>

StartTunnelProcess ==
  /\ tunnel.pc = "try" /\ tunnel.at <= Len(order)
  /\ KindOf(Current) = "start"
  /\ Spawn(Current)
  /\ GoTo("poll")
  /\ deadline' = FALSE
  /\ UNCHANGED <<order, env, urlOut>>

\* Every provider has failed: TunnelStartError.
NoProviderLeft ==
  /\ tunnel.pc = "try" /\ tunnel.at > Len(order)
  /\ GoTo("failed")
  /\ UNCHANGED <<order, env, urlOut, deadline, childVars>>

\* Cloudflare looks for the URL first, ngrok at the process first: a process
\* that has printed its URL and died still makes a session of the former.
PollSucceeds ==
  /\ tunnel.pc = "poll"
  /\ urlOut[Current]
  /\ Current = ApiProvider => ~seen[Current]
  /\ GoTo("session")
  /\ UNCHANGED <<order, env, urlOut, deadline, childVars>>

\* Mutant: the next provider is tried while the failed one still stops.
CarelessPollFails ==
  /\ tunnel.pc = "poll"
  /\ seen[Current] \/ deadline
  /\ urlOut[Current] => Current = ApiProvider /\ seen[Current]
  /\ BeginStop(Current)
  /\ NextProvider
  /\ UNCHANGED <<order, env, urlOut, deadline, seen>>

\* The process has exited, or the time is up: the adapter throws after it has
\* stopped the process.
PollFails ==
  /\ tunnel.pc = "poll"
  /\ seen[Current] \/ deadline
  /\ urlOut[Current] => Current = ApiProvider /\ seen[Current]
  /\ BeginStop(Current)
  /\ GoTo("cleanup")
  /\ UNCHANGED <<order, env, urlOut, deadline, seen>>

\* ngrok's local API is asked when neither has happened.
FetchUrl ==
  /\ tunnel.pc = "poll" /\ Current = ApiProvider
  /\ ~seen[Current] /\ ~urlOut[Current] /\ ~deadline
  /\ GoTo("fetch")
  /\ UNCHANGED <<order, env, urlOut, deadline, childVars>>

\* The answer of whatever agent listens there, however our own process is by
\* now: a public URL of a tunnel to our address, or nothing usable, an error,
\* the abort of the request.
FetchReturns ==
  /\ tunnel.pc = "fetch"
  /\ \/ /\ \E url \in Urls, addr \in Addresses : IsCandidate(url) /\ TargetsUs(addr)
        /\ GoTo("session")
        /\ UNCHANGED childVars
     \/ ~deadline /\ GoTo("poll") /\ UNCHANGED childVars
     \/ deadline /\ BeginStop(Current) /\ GoTo("cleanup") /\ UNCHANGED seen
  /\ UNCHANGED <<order, env, urlOut, deadline>>

\* The stop has settled, a rejection is swallowed.
CleanedUp ==
  /\ tunnel.pc = "cleanup"
  /\ Settled(Current)
  /\ NextProvider
  /\ UNCHANGED <<order, env, urlOut, deadline, childVars>>

\* The process prints a URL, its own or another.
PrintUrl(p) ==
  /\ os[p] = "running"
  /\ ~urlOut[p]
  /\ \E url \in Urls : urlOut' = [urlOut EXCEPT ![p] = IsIssuedBy(p, url)]
  /\ UNCHANGED <<order, env, tunnel, deadline, childVars>>

TunnelStep ==
  \/ SkipProvider \/ UseConfigured \/ StartTunnelProcess \/ NoProviderLeft
  \/ PollSucceeds \/ PollFails \/ FetchUrl \/ FetchReturns \/ CleanedUp

=============================================================================
