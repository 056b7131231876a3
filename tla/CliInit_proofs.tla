---------------------------- MODULE CliInit_proofs ----------------------------
(* Theorems about CliInit for any set of providers, any configured order   *)
(* and any number of signals.                                              *)
EXTENDS CliInit, FiniteSetTheorems, WellFoundedInduction, TLAPS

-----------------------------------------------------------------------------
(* The inductive invariant.                                                *)

\* A child that is stopped has exited or has been sent SIGKILL, and nothing
\* is known or asked of one that has not been started.
ChildOk(c) ==
  /\ os[c] = "none" => ~seen[c] /\ sent[c] = {} /\ stop[c] = "none"
  /\ seen[c] => os[c] = "dead"
  /\ stop[c] = "ok" => seen[c]
  /\ stop[c] = "waiting" => "TERM" \in sent[c]
  /\ "KILL" \in sent[c] => "TERM" \in sent[c]

Quiet(p) == os[p] = "running" => "KILL" \in sent[p]

ProviderOk(p) ==
  /\ ChildOk(p)
  /\ os[p] \in {"none", "running", "dead"}
  /\ stop[p] = "error" => Quiet(p)

Working == {"starting", "health", "tunnel", "running", "stop_tunnel"}

\* The runtime handles SIGTERM until it is sent one, and nothing has been sent
\* before the command gives up on it or tears it down.
RuntimeOk ==
  /\ ChildOk(Runtime)
  /\ os[Runtime] \in {"none", "running"} => handlers = {}
  /\ os[Runtime] \in {"serving", "closing"} /\ sent[Runtime] = {} => "TERM" \in handlers
  /\ sent[Runtime] # {} => os[Runtime] \in {"closing", "dead"}
  /\ cli = "bootstrap" => os[Runtime] = "none"
  /\ cli \in Working => os[Runtime] # "none"
  /\ cli \in Working \cup {"bootstrap"} => sent[Runtime] = {}

TunnelStates == {"idle", "try", "poll", "fetch", "cleanup", "session", "failed"}

\* The providers are tried one after the other, each once: what comes later has
\* no process yet, what came before has none that was left alone.
TunnelOk ==
  /\ order \in Seq(Providers \cup STRING)
  /\ tunnel \in [pc : TunnelStates, at : Nat]
  /\ tunnel.pc = "idle" => \A p \in Providers : os[p] = "none"
  /\ tunnel.pc # "idle" => tunnel.at # 0
  /\ tunnel.pc = "failed" => tunnel.at > Len(order)
  /\ tunnel.pc \in {"poll", "fetch", "cleanup", "session"} =>
       /\ tunnel.at <= Len(order) /\ Current \in Providers
       /\ env[Current] = "start" <=> os[Current] # "none"
       /\ tunnel.pc # "session" => env[Current] = "start"
  /\ \A i \in DOMAIN order :
       /\ i > tunnel.at \/ (i = tunnel.at /\ tunnel.pc = "try")
       /\ order[i] \in Providers
       => os[order[i]] = "none"
  /\ \A p \in Providers :
       ~Quiet(p) => tunnel.pc \in {"poll", "fetch", "cleanup", "session"} /\ p = Current

\* How the command and its tunnel keep step.
PhasesAgree ==
  /\ cli = "bootstrap" => order = <<>>
  /\ cli \in {"bootstrap", "starting", "health"} => tunnel.pc = "idle"
  /\ cli \in {"running", "stop_tunnel"} => tunnel.pc = "session"
  /\ cli = "stop_tunnel" => stop[Current] # "none"
  /\ cli \in {"undo", "stop_runtime", "done", "failed"} => \A p \in Providers : Quiet(p)

IInv ==
  /\ TypeOK
  /\ \A p \in Providers : ProviderOk(p)
  /\ RuntimeOk /\ TunnelOk /\ PhasesAgree

\* GracefulUnlessForced, for one step.
Graceful ==
  /\ signals' = signals /\ os[Runtime] \in {"serving", "closing"}
  /\ os'[Runtime] = "dead" /\ exit' = "clean"
  => os[Runtime] = "closing" /\ sent' = sent

-----------------------------------------------------------------------------
(* The order of the providers.                                             *)

\* A set of numbers that is not empty has a least one.
LEMMA LeastOf ==
  ASSUME NEW S, S \subseteq Nat, S # {}
  PROVE  \E i \in S : \A j \in S : i <= j
  <1> DEFINE R == OpToRel(<, Nat)
  <1>1. IsWellFoundedOn(R, Nat)
    BY NatLessThanWellFounded
  <1>2. R = {ss \in Nat \X Nat : ss[1] < ss[2]}
    BY DEF OpToRel
  <1> HIDE DEF R
  <1>3. PICK i \in S : \A j \in S : ~ (<<j, i>> \in R)
    BY <1>1, WFMin
  <1>4. ASSUME NEW j \in S PROVE i <= j
    <2>1. j \in Nat /\ i \in Nat /\ ~(<<j, i>> \in R)
      BY <1>3
    <2>2. ~(j < i)
      BY <1>2, <2>1
    <2> QED
      BY <2>1, <2>2
  <1> QED
    BY <1>4

\* A finite set of numbers has a k-th one for every k up to its size.
LEMMA KthOf ==
  ASSUME NEW S, S \subseteq Nat, IsFiniteSet(S), NEW k \in 1..Cardinality(S)
  PROVE  \E i \in S : Cardinality({j \in S : j < i}) = k - 1
  <1> DEFINE Below(i) == {j \in S : j < i}
             Without == {m \in 1..Cardinality(S) : \A i \in S : Cardinality(Below(i)) # m - 1}
  <1>1. Cardinality(S) \in Nat
    BY FS_CardinalityType
  <1> SUFFICES ASSUME k \in Without PROVE FALSE
    OBVIOUS
  <1>2. PICK m \in Without : \A n \in Without : m <= n
    <2>1. Without \subseteq Nat /\ Without # {}
      BY <1>1
    <2> HIDE DEF Without
    <2> QED
      BY <2>1, LeastOf
  <1>3. m \in 1..Cardinality(S) /\ \A i \in S : Cardinality(Below(i)) # m - 1
    BY DEF Without
  <1>4. ASSUME NEW T, T \subseteq S, IsFiniteSet(T), Cardinality(T) = m - 1,
               \A i \in T, j \in S : j < i => j \in T
        PROVE  FALSE
    <2>1. S \ T # {}
      <3>1. T # S
        BY <1>1, <1>3, <1>4
      <3> QED
        BY <1>4, <3>1
    <2>2. PICK i \in S \ T : \A j \in S \ T : i <= j
      BY <2>1, LeastOf
    <2>3. Below(i) = T
      <3>1. ASSUME NEW j \in Below(i) PROVE j \in T
        BY <2>2, <3>1
      <3>2. ASSUME NEW j \in T PROVE j \in Below(i)
        <4>1. j \in Nat /\ i \in Nat /\ j \in S /\ i \in S /\ j # i
          BY <1>4, <3>2
        <4>2. ~(i < j)
          BY <1>4, <2>2, <3>2
        <4> QED
          BY <4>1, <4>2
      <3> QED
        BY <3>1, <3>2
    <2> QED
      BY <1>3, <1>4, <2>3
  <1>5. CASE m = 1
    <2>1. IsFiniteSet({}) /\ Cardinality({}) = 0
      BY FS_EmptySet
    <2> QED
      BY <1>4, <1>5, <2>1
  <1>6. CASE m # 1
    <2>1. m - 1 \in 1..Cardinality(S) /\ m - 1 \notin Without
      BY <1>1, <1>2, <1>3, <1>6
    <2>2. PICK i \in S : Cardinality(Below(i)) = (m - 1) - 1
      BY <2>1
    <2> DEFINE T == Below(i) \cup {i}
    <2>3. IsFiniteSet(Below(i))
      BY FS_Subset
    <2>4. i \notin Below(i) /\ i \in Nat
      OBVIOUS
    <2>5. IsFiniteSet(T) /\ Cardinality(T) = (m - 1) - 1 + 1
      BY <2>2, <2>3, <2>4, FS_AddElement
    <2>6. \A h \in T, j \in S : j < h => j \in T
      BY <2>4
    <2> HIDE DEF T
    <2>7. T \subseteq S
      BY DEF T
    <2>8. Cardinality(T) = m - 1
      BY <1>1, <1>3, <2>5
    <2> HIDE DEF Without
    <2> QED
      BY <1>4, <2>5, <2>6, <2>7, <2>8
  <1> QED
    BY <1>5, <1>6

\* The order of a start names no provider twice and none that is blank.
LEMMA OrderType ==
  ASSUME NEW raw \in RawOrders
  PROVE  LET o == NormalizedOrder(raw)
         IN /\ o \in Seq(Providers \cup STRING)
            /\ \A i, j \in DOMAIN o : o[i] # Blank /\ (o[i] = o[j] => i = j)
  <1> DEFINE first == {i \in DOMAIN raw : raw[i] # Blank /\ \A j \in 1..(i - 1) : raw[j] # raw[i]}
             rank(i) == Cardinality({j \in first : j < i})
             nth(k) == CHOOSE i \in first : rank(i) = k - 1
             n == Cardinality(first)
             o == [k \in 1..n |-> raw[nth(k)]]
  <1>1. raw \in Seq(STRING)
    BY TunnelAssumption
  <1>2. CASE first = {}
    <2>1. NormalizedOrder(raw) = DefaultOrder
      BY <1>2 DEF NormalizedOrder
    <2>2. DefaultOrder \in Seq(Providers)
      BY TunnelAssumption
    <2>3. \A i \in DOMAIN DefaultOrder : DefaultOrder[i] \in Providers
      BY <2>2
    <2>4. DefaultOrder \in Seq(Providers \cup STRING)
      BY <2>2
    <2> QED
      BY <2>1, <2>3, <2>4, TunnelAssumption
  <1>3. CASE first # {}
    <2>1. NormalizedOrder(raw) = o
      BY <1>3 DEF NormalizedOrder
    <2>2. first \subseteq 1..Len(raw) /\ Len(raw) \in Nat
      BY <1>1
    <2>3. IsFiniteSet(first) /\ first \subseteq Nat /\ n \in Nat
      <3>1. IsFiniteSet(1..Len(raw))
        BY <2>2, FS_Interval
      <3> QED
        BY <2>2, <3>1, FS_Subset, FS_CardinalityType
    <2>4. ASSUME NEW k \in 1..n PROVE nth(k) \in first /\ rank(nth(k)) = k - 1
      <3>1. \E i \in first : rank(i) = k - 1
        BY <2>3, KthOf
      <3> QED
        BY <3>1
    <2>5. \A i, j \in first : raw[i] = raw[j] => i = j
      <3> SUFFICES ASSUME NEW i \in first, NEW j \in first, raw[i] = raw[j], i # j PROVE FALSE
        OBVIOUS
      <3>1. i \in Nat /\ j \in Nat /\ i >= 1 /\ j >= 1
        BY <2>2
      <3>2. i \in 1..(j - 1) \/ j \in 1..(i - 1)
        BY <3>1
      <3> QED
        BY <3>2
    <2>6. \A i \in first : raw[i] \in STRING /\ raw[i] # Blank
      BY <1>1
    <2> HIDE DEF first, rank, n
    <2>7. \A k \in 1..n : nth(k) \in first /\ rank(nth(k)) = k - 1
      BY <2>4
    <2> HIDE DEF nth
    <2>8. \A k, l \in 1..n : raw[nth(k)] = raw[nth(l)] => k = l
      <3> SUFFICES ASSUME NEW k \in 1..n, NEW l \in 1..n, raw[nth(k)] = raw[nth(l)]
                   PROVE  k = l
        OBVIOUS
      <3>1. nth(k) = nth(l)
        BY <2>5, <2>7
      <3>2. rank(nth(k)) = k - 1 /\ rank(nth(l)) = l - 1
        BY <2>7
      <3> QED
        BY <2>3, <3>1, <3>2
    <2>9. o \in Seq(STRING) /\ DOMAIN o = 1..n
      <3>1. \A k \in 1..n : raw[nth(k)] \in STRING
        BY <2>6, <2>7
      <3> QED
        BY <2>3, <3>1
    <2>10. o \in Seq(Providers \cup STRING)
      BY <2>9
    <2> QED
      BY <2>1, <2>6, <2>7, <2>8, <2>9, <2>10
  <1> QED
    BY <1>2, <1>3

-----------------------------------------------------------------------------
(* What steps leave alone.                                                 *)

\* Providers whose processes at most end, or are sent a signal.
LEMMA TunnelStays ==
  ASSUME IInv, UNCHANGED <<order, env, tunnel>>,
         \A p \in Providers : /\ os'[p] = os[p] \/ (os[p] = "running" /\ os'[p] = "dead")
                              /\ sent[p] \subseteq sent'[p]
  PROVE  TunnelOk' /\ \A p \in Providers : Quiet(p) => Quiet(p)'
  <1>1. \A p \in Providers : Quiet(p) => Quiet(p)'
    BY DEF Quiet
  <1>2. \A p \in Providers : os'[p] = "none" <=> os[p] = "none"
    OBVIOUS
  <1>3. tunnel' = tunnel /\ order' = order /\ env' = env /\ Current' = Current
    BY DEF Current
  <1> QED
    BY <1>1, <1>2, <1>3 DEF IInv, TunnelOk

LEMMA ProvidersStay ==
  ASSUME IInv,
         \A p \in Providers : /\ os'[p] = os[p] /\ seen'[p] = seen[p]
                              /\ sent'[p] = sent[p] /\ stop'[p] = stop[p]
  PROVE  \A p \in Providers : ProviderOk(p)'
  BY DEF IInv, ProviderOk, ChildOk, Quiet

LEMMA RuntimeStays ==
  ASSUME IInv, handlers' = handlers,
         os'[Runtime] = os[Runtime], seen'[Runtime] = seen[Runtime],
         sent'[Runtime] = sent[Runtime], stop'[Runtime] = stop[Runtime],
         cli' = "bootstrap" => cli = "bootstrap", cli' \in Working => cli \in Working
  PROVE  RuntimeOk'
  BY DEF IInv, RuntimeOk, ChildOk

-----------------------------------------------------------------------------
(* Stopping a child.                                                       *)

LEMMA StopRuntime ==
  ASSUME IInv, cli \in Working, BeginStop(Runtime), seen' = seen,
         cli' \in {"failed", "undo", "stop_runtime"}
  PROVE  /\ ChildTypeOK' /\ RuntimeOk'
         /\ \A p \in Providers : /\ os'[p] = os[p] /\ seen'[p] = seen[p]
                                 /\ sent'[p] = sent[p] /\ stop'[p] = stop[p]
         /\ os[Runtime] \in {"serving", "closing"} => os'[Runtime] = "closing"
  <1>1. ChildTypeOK /\ RuntimeOk /\ sent[Runtime] = {} /\ os[Runtime] # "none"
    BY DEF IInv, TypeOK, RuntimeOk
  <1>2. Runtime \in Children /\ \A p \in Providers : p \in Children /\ p # Runtime
    BY ChildrenAssumption DEF Children
  <1>3. CASE seen[Runtime]
    <2>1. stop' = [stop EXCEPT ![Runtime] = "ok"] /\ UNCHANGED <<os, sent, handlers, exit>>
      BY <1>3 DEF BeginStop
    <2>2. os[Runtime] = "dead"
      BY <1>1, <1>3 DEF RuntimeOk, ChildOk
    <2>3. ChildTypeOK'
      BY <1>1, <1>2, <2>1 DEF ChildTypeOK
    <2>4. RuntimeOk'
      BY <1>1, <1>2, <1>3, <2>1, <2>2 DEF RuntimeOk, ChildOk, ChildTypeOK, Working
    <2> QED
      BY <1>1, <1>2, <2>1, <2>2, <2>3, <2>4 DEF ChildTypeOK
  <1>4. CASE ~seen[Runtime]
    <2>1. /\ stop' = [stop EXCEPT ![Runtime] = "waiting"]
          /\ sent' = [sent EXCEPT ![Runtime] = @ \cup {"TERM"}]
          /\ os' = [os EXCEPT ![Runtime] = AfterSignal(Runtime, "TERM")]
          /\ handlers' = handlers \ {"TERM"} /\ exit' \in {"clean", exit}
      BY <1>4 DEF BeginStop
    <2>2. /\ AfterSignal(Runtime, "TERM") \in {"closing", "dead"}
          /\ os[Runtime] \in {"serving", "closing"} => AfterSignal(Runtime, "TERM") = "closing"
      BY <1>1, <1>2 DEF AfterSignal, RuntimeOk, ChildTypeOK, Alive
    <2>3. ChildTypeOK'
      BY <1>1, <1>2, <2>1, <2>2 DEF ChildTypeOK, Alive
    <2>4. RuntimeOk'
      BY <1>1, <1>2, <1>4, <2>1, <2>2 DEF RuntimeOk, ChildOk, ChildTypeOK, Working
    <2> QED
      BY <1>1, <1>2, <2>1, <2>2, <2>3, <2>4 DEF ChildTypeOK
  <1> QED
    BY <1>3, <1>4

LEMMA StopProvider ==
  ASSUME IInv, NEW c \in Providers, os[c] # "none", BeginStop(c), seen' = seen
  PROVE  /\ ChildTypeOK' /\ os' = os /\ handlers' = handlers /\ stop'[c] # "none"
         /\ sent'[Runtime] = sent[Runtime] /\ stop'[Runtime] = stop[Runtime]
         /\ \A p \in Providers : ProviderOk(p)' /\ sent[p] \subseteq sent'[p]
  <1>1. ChildTypeOK /\ \A p \in Providers : ProviderOk(p)
    BY DEF IInv, TypeOK
  <1>2. Runtime \in Children /\ c # Runtime /\ c \in Children /\ \A p \in Providers : p \in Children
    BY ChildrenAssumption DEF Children
  <1>3. CASE seen[c]
    <2>1. stop' = [stop EXCEPT ![c] = "ok"] /\ UNCHANGED <<os, sent, handlers, exit>>
      BY <1>3 DEF BeginStop
    <2>2. ChildTypeOK'
      BY <1>1, <1>2, <2>1 DEF ChildTypeOK
    <2>3. \A p \in Providers : ProviderOk(p)'
      BY <1>1, <1>2, <1>3, <2>1 DEF ProviderOk, ChildOk, Quiet, ChildTypeOK
    <2> QED
      BY <1>1, <1>2, <2>1, <2>2, <2>3 DEF ChildTypeOK
  <1>4. CASE ~seen[c]
    <2>1. /\ stop' = [stop EXCEPT ![c] = "waiting"]
          /\ sent' = [sent EXCEPT ![c] = @ \cup {"TERM"}]
          /\ os' = [os EXCEPT ![c] = os[c]]
          /\ handlers' = handlers
      BY <1>2, <1>4 DEF BeginStop, AfterSignal
    <2>2. os' = os
      BY <1>1, <2>1 DEF ChildTypeOK
    <2>3. exit' = exit
      BY <1>4, <2>2 DEF BeginStop
    <2>4. ChildTypeOK'
      BY <1>1, <1>2, <2>1, <2>2, <2>3 DEF ChildTypeOK
    <2>5. \A p \in Providers : ProviderOk(p)'
      BY <1>1, <1>2, <1>4, <2>1, <2>2 DEF ProviderOk, ChildOk, Quiet, ChildTypeOK
    <2> QED
      BY <1>1, <1>2, <2>1, <2>2, <2>4, <2>5 DEF ChildTypeOK
  <1> QED
    BY <1>3, <1>4

-----------------------------------------------------------------------------
(* The command.                                                            *)

LEMMA ArrivalType ==
  ASSUME TypeOK, NEW signal \in {"INT", "TERM"}, Arrive(signal)
  PROVE  /\ cli' \in Phases /\ cli' \in {cli, "killed"} /\ message' = message
         /\ listening' \in SUBSET {"INT", "TERM"} /\ arrived' \subseteq listening'
         /\ signals' \in 0..MaxSignals
  <1>1. signals' \in 0..MaxSignals
    <2>1. signals \in 0..MaxSignals /\ MaxSignals \in Nat /\ signals < MaxSignals
          /\ signals' = signals + 1
      BY CliAssumption DEF TypeOK, Arrive
    <2> QED
      BY <2>1
  <1>2. listening' = listening /\ message' = message
    BY DEF Arrive
  <1>3. arrived' \subseteq listening'
    BY <1>2 DEF TypeOK, Arrive
  <1>4. cli' \in Phases /\ cli' \in {cli, "killed"}
    BY DEF TypeOK, Arrive, Phases
  <1> QED
    BY <1>1, <1>2, <1>3, <1>4 DEF TypeOK

\* Steps that concern no child.
LEMMA SettleIInv ==
  ASSUME IInv, \/ RuntimeIsReady \/ Undone \/ Published \/ RuntimeStopped \/ Exit
               \/ Terminate \/ DeadlinePasses
               \/ \E p \in Providers : PrintUrl(p) /\ UNCHANGED <<cli, message, listening, arrived, signals>>
  PROVE  IInv' /\ Graceful
  <1>1. UNCHANGED <<os, seen, sent, stop, handlers, exit, order, env, tunnel>>
    BY DEF RuntimeIsReady, Undone, Published, RuntimeStopped, Exit, Terminate, Arrive, DeadlinePasses,
       PrintUrl, childVars, tunnelVars
  <1>2. TunnelOk' /\ (\A p \in Providers : ProviderOk(p)' /\ (Quiet(p) => Quiet(p)'))
    BY <1>1, TunnelStays, ProvidersStay
  <1>3. cli' = "bootstrap" => cli = "bootstrap"
    BY DEF RuntimeIsReady, Undone, Published, RuntimeStopped, Exit, Terminate, Arrive, DeadlinePasses
  <1>4. cli' \in Working => cli \in Working
    BY DEF RuntimeIsReady, Undone, Published, RuntimeStopped, Exit, Terminate, Arrive, DeadlinePasses,
       Working
  <1>5. RuntimeOk'
    BY <1>1, <1>3, <1>4, RuntimeStays
  <1>6. TypeOK /\ MaxSignals \in Nat
    BY CliAssumption DEF IInv
  <1>7. ChildTypeOK'
    BY <1>1, <1>6 DEF TypeOK, ChildTypeOK
  <1>8. deadline' \in BOOLEAN /\ urlOut' \in [Providers -> BOOLEAN]
    <2>1. deadline \in BOOLEAN /\ urlOut \in [Providers -> BOOLEAN]
      BY <1>6 DEF TypeOK, TunnelTypeOK
    <2>2. \A p \in Providers : \A url : IsIssuedBy(p, url) \in BOOLEAN
      BY DEF IsIssuedBy
    <2> QED
      BY <2>1, <2>2 DEF RuntimeIsReady, Undone, Published, RuntimeStopped, Exit, Terminate, Arrive,
         DeadlinePasses, PrintUrl, tunnelVars
  <1>9. TunnelTypeOK'
    BY <1>1, <1>6, <1>8 DEF TypeOK, TunnelTypeOK
  <1>10. /\ cli' \in Phases /\ message' \in {"none", "ready", "start_error"}
         /\ listening' \in SUBSET {"INT", "TERM"} /\ arrived' \subseteq listening'
         /\ signals' \in 0..MaxSignals
    <2>1. CASE RuntimeIsReady \/ Undone \/ Published \/ Exit
      BY <1>6, <2>1 DEF TypeOK, RuntimeIsReady, Undone, Published, Exit, Phases
    <2>2. CASE RuntimeStopped
      <3>1. cli' \in {"failed", "done"}
        BY <2>2 DEF RuntimeStopped
      <3> QED
        BY <1>6, <2>2, <3>1 DEF TypeOK, RuntimeStopped, Phases
    <2>3. CASE Terminate
      BY <1>6, <2>3, ArrivalType DEF TypeOK, Terminate
    <2>4. CASE DeadlinePasses \/ \E p \in Providers :
                 PrintUrl(p) /\ UNCHANGED <<cli, message, listening, arrived, signals>>
      BY <1>6, <2>4 DEF TypeOK, DeadlinePasses
    <2> QED
      BY <2>1, <2>2, <2>3, <2>4
  <1>11. PhasesAgree'
    <2>1. PhasesAgree /\ TunnelOk /\ Current' = Current
      BY <1>1 DEF IInv, Current
    <2>2. CASE Undone
      <3>1. cli = "undo" /\ cli' = "failed"
        BY <2>2 DEF Undone
      <3> QED
        BY <1>2, <2>1, <3>1 DEF PhasesAgree
    <2>3. CASE Published
      <3>1. cli = "tunnel" /\ tunnel.pc = "session" /\ cli' = "running"
        BY <2>3 DEF Published
      <3> QED
        BY <1>1, <3>1 DEF PhasesAgree
    <2>4. CASE RuntimeStopped
      <3>1. cli = "stop_runtime" /\ cli' \in {"failed", "done"}
        BY <2>4 DEF RuntimeStopped
      <3> QED
        BY <1>2, <2>1, <3>1 DEF PhasesAgree
    <2>5. CASE RuntimeIsReady
      <3>1. cli = "starting" /\ cli' = "health"
        BY <2>5 DEF RuntimeIsReady
      <3> QED
        BY <1>1, <2>1, <3>1 DEF PhasesAgree
    <2>6. CASE cli' \in {"exited", "killed"}
      BY <2>6 DEF PhasesAgree
    <2>7. CASE cli' = cli
      BY <1>1, <1>2, <2>1, <2>7 DEF PhasesAgree
    <2>8. Exit \/ Terminate => cli' \in {"exited", "killed", cli}
      BY DEF Exit, Terminate, Arrive
    <2>9. DeadlinePasses \/ (\E p \in Providers : PrintUrl(p) /\ UNCHANGED <<cli, message, listening, arrived, signals>>)
          => cli' = cli
      BY DEF DeadlinePasses
    <2> QED
      BY <2>2, <2>3, <2>4, <2>5, <2>6, <2>7, <2>8, <2>9
  <1> QED
    BY <1>1, <1>2, <1>5, <1>7, <1>9, <1>10, <1>11 DEF IInv, TypeOK, Graceful

\* Steps after which the command gives its runtime up, or stops it last.
LEMMA GiveUpIInv ==
  ASSUME IInv, GiveUpStart \/ RuntimeIsGone \/ Unhealthy \/ NoTunnel \/ TunnelStopped
  PROVE  IInv' /\ Graceful
  <1>1. /\ cli \in Working /\ cli' \in {"failed", "undo", "stop_runtime"}
        /\ BeginStop(Runtime) /\ seen' = seen
        /\ UNCHANGED <<tunnelVars, listening, arrived, signals>>
        /\ message' \in {"none", message}
    BY DEF GiveUpStart, RuntimeIsGone, Unhealthy, NoTunnel, TunnelStopped, Working
  <1>2. /\ ChildTypeOK' /\ RuntimeOk'
        /\ \A p \in Providers : /\ os'[p] = os[p] /\ seen'[p] = seen[p]
                                /\ sent'[p] = sent[p] /\ stop'[p] = stop[p]
        /\ os[Runtime] \in {"serving", "closing"} => os'[Runtime] = "closing"
    BY <1>1, StopRuntime
  <1>3. TunnelOk' /\ \A p \in Providers : ProviderOk(p)' /\ (Quiet(p) => Quiet(p)')
    BY <1>1, <1>2, TunnelStays, ProvidersStay DEF tunnelVars
  <1>4. TypeOK'
    BY <1>1, <1>2 DEF IInv, TypeOK, TunnelTypeOK, tunnelVars, Phases
  <1>5. \A p \in Providers : Quiet(p)
    <2>1. TunnelOk /\ PhasesAgree
      BY DEF IInv
    <2>2. CASE GiveUpStart \/ RuntimeIsGone \/ Unhealthy
      BY <2>1, <2>2 DEF GiveUpStart, RuntimeIsGone, Unhealthy, PhasesAgree, TunnelOk
    <2>3. CASE NoTunnel
      BY <2>1, <2>3 DEF NoTunnel, TunnelOk
    <2>4. CASE TunnelStopped
      <3>1. cli = "stop_tunnel" /\ tunnel.pc = "session" /\ Settled(Current)
        BY <2>1, <2>4 DEF TunnelStopped, PhasesAgree
      <3>2. Current \in Providers
        BY <2>1, <3>1 DEF TunnelOk
      <3>3. Quiet(Current)
        BY <3>1, <3>2 DEF IInv, ProviderOk, ChildOk, Settled, Quiet
      <3> QED
        BY <2>1, <3>3 DEF TunnelOk
    <2> QED
      BY <2>2, <2>3, <2>4
  <1>6. PhasesAgree'
    BY <1>1, <1>3, <1>5 DEF PhasesAgree
  <1> QED
    BY <1>2, <1>3, <1>4, <1>6 DEF IInv, Graceful

LEMMA HandleSignalIInv ==
  ASSUME IInv, HandleSignal
  PROVE  IInv' /\ Graceful
  <1>1. PICK signal \in arrived :
          /\ arrived' = arrived \ {signal}
          /\ listening' = listening \ {signal}
          /\ IF cli = "running" THEN BeginTeardown
             ELSE UNCHANGED <<cli, os, sent, stop, handlers, exit>>
          /\ UNCHANGED <<seen, message, tunnelVars, signals>>
    BY DEF HandleSignal
  <1>2. TypeOK /\ TunnelOk /\ PhasesAgree
    BY DEF IInv
  <1>3. UNCHANGED <<order, env, urlOut, tunnel, deadline>> /\ TunnelTypeOK' /\ Current' = Current
    BY <1>1, <1>2 DEF tunnelVars, TypeOK, TunnelTypeOK, Current
  <1>4. listening' \in SUBSET {"INT", "TERM"} /\ arrived' \subseteq listening'
    BY <1>1, <1>2 DEF TypeOK
  <1>5. CASE cli # "running"
    <2>1. UNCHANGED <<cli, os, seen, sent, stop, handlers, exit>>
      BY <1>1, <1>5
    <2>2. TunnelOk' /\ \A p \in Providers : ProviderOk(p)' /\ (Quiet(p) => Quiet(p)')
      BY <1>3, <2>1, TunnelStays, ProvidersStay
    <2>3. RuntimeOk'
      BY <2>1, RuntimeStays
    <2>4. ChildTypeOK'
      BY <1>2, <2>1 DEF TypeOK, ChildTypeOK
    <2>5. PhasesAgree'
      BY <1>2, <1>3, <2>1, <2>2 DEF PhasesAgree
    <2>6. TypeOK'
      BY <1>1, <1>2, <1>3, <1>4, <2>1, <2>4 DEF TypeOK
    <2> QED
      BY <2>1, <2>2, <2>3, <2>5, <2>6 DEF IInv, Graceful
  <1>6. CASE cli = "running" /\ HasTunnelProcess
    <2>1. /\ BeginStop(Current) /\ cli' = "stop_tunnel" /\ seen' = seen /\ tunnel.pc = "session"
      BY <1>1, <1>2, <1>6 DEF BeginTeardown, PhasesAgree
    <2>2. Current \in Providers /\ os[Current] # "none"
      BY <1>2, <1>6, <2>1 DEF TunnelOk, HasTunnelProcess
    <2>3. /\ ChildTypeOK' /\ os' = os /\ handlers' = handlers /\ stop'[Current] # "none"
          /\ sent'[Runtime] = sent[Runtime] /\ stop'[Runtime] = stop[Runtime]
          /\ \A p \in Providers : ProviderOk(p)' /\ sent[p] \subseteq sent'[p]
      BY <2>1, <2>2, StopProvider
    <2>4. TunnelOk'
      BY <1>3, <2>3, TunnelStays
    <2>5. RuntimeOk'
      BY <1>6, <2>1, <2>3, RuntimeStays DEF Working
    <2>6. PhasesAgree'
      BY <1>3, <2>1, <2>3 DEF PhasesAgree
    <2>7. TypeOK'
      BY <1>1, <1>2, <1>3, <1>4, <2>1, <2>3 DEF TypeOK, Phases
    <2> QED
      BY <2>3, <2>4, <2>5, <2>6, <2>7 DEF IInv, Graceful
  <1>7. CASE cli = "running" /\ ~HasTunnelProcess
    <2>1. /\ BeginStop(Runtime) /\ cli' = "stop_runtime" /\ seen' = seen /\ tunnel.pc = "session"
      BY <1>1, <1>2, <1>7 DEF BeginTeardown, PhasesAgree
    <2>2. /\ ChildTypeOK' /\ RuntimeOk'
          /\ \A p \in Providers : /\ os'[p] = os[p] /\ seen'[p] = seen[p]
                                  /\ sent'[p] = sent[p] /\ stop'[p] = stop[p]
          /\ os[Runtime] \in {"serving", "closing"} => os'[Runtime] = "closing"
      BY <1>7, <2>1, StopRuntime DEF Working
    <2>3. TunnelOk' /\ \A p \in Providers : ProviderOk(p)' /\ (Quiet(p) => Quiet(p)')
      BY <1>3, <2>2, TunnelStays, ProvidersStay
    <2>4. Current \in Providers /\ os[Current] = "none"
      BY <1>2, <1>7, <2>1 DEF TunnelOk, HasTunnelProcess
    <2>5. \A p \in Providers : Quiet(p)
      BY <1>2, <2>4 DEF TunnelOk, Quiet
    <2>6. PhasesAgree'
      BY <2>1, <2>3, <2>5 DEF PhasesAgree
    <2>7. TypeOK'
      BY <1>1, <1>2, <1>3, <1>4, <2>1, <2>2 DEF TypeOK, Phases
    <2> QED
      BY <2>2, <2>3, <2>6, <2>7 DEF IInv, Graceful
  <1> QED
    BY <1>5, <1>6, <1>7

LEMMA Spawned ==
  ASSUME ChildTypeOK, NEW c \in Children, os[c] = "none", ~seen[c], sent[c] = {}, stop[c] = "none",
         Spawn(c)
  PROVE  /\ ChildTypeOK' /\ os'[c] \in {"running", "dead"} /\ ChildOk(c)'
         /\ \A d \in Children \ {c} : os'[d] = os[d] /\ seen'[d] = seen[d]
         /\ sent' = sent /\ stop' = stop /\ handlers' = handlers
  <1>1. ChildTypeOK'
    BY DEF ChildTypeOK, Spawn, Alive
  <1> QED
    BY <1>1 DEF ChildTypeOK, Spawn, ChildOk

LEMMA BootstrapIInv ==
  ASSUME IInv, Bootstrap
  PROVE  IInv' /\ Graceful
  <1>1. /\ TypeOK /\ ChildTypeOK /\ RuntimeOk /\ TunnelOk /\ PhasesAgree /\ cli = "bootstrap"
        /\ UNCHANGED <<env, urlOut, tunnel, deadline, message, listening, arrived, signals>>
    BY DEF IInv, TypeOK, Bootstrap
  <1>2. /\ Runtime \in Children /\ \A p \in Providers : p \in Children /\ p # Runtime
        /\ os[Runtime] = "none" /\ ~seen[Runtime] /\ sent[Runtime] = {} /\ stop[Runtime] = "none"
    BY <1>1, ChildrenAssumption DEF Children, RuntimeOk, ChildOk
  <1>3. CASE cli' = "failed" /\ UNCHANGED <<order, childVars>>
    <2>1. UNCHANGED <<order, os, seen, sent, stop, handlers, exit>>
      BY <1>3 DEF childVars
    <2>2. TunnelOk' /\ \A p \in Providers : ProviderOk(p)' /\ (Quiet(p) => Quiet(p)')
      BY <1>1, <2>1, TunnelStays, ProvidersStay
    <2>3. RuntimeOk'
      BY <1>3, <2>1, RuntimeStays DEF Working
    <2>4. \A p \in Providers : Quiet(p)
      BY <1>1 DEF PhasesAgree, TunnelOk, Quiet
    <2>5. PhasesAgree'
      BY <1>3, <2>2, <2>4 DEF PhasesAgree
    <2>6. TypeOK'
      BY <1>1, <1>3, <2>1 DEF TypeOK, ChildTypeOK, TunnelTypeOK, Phases
    <2> QED
      BY <2>1, <2>2, <2>3, <2>5, <2>6 DEF IInv, Graceful
  <1>4. CASE /\ \E raw \in RawOrders : order' = NormalizedOrder(raw)
             /\ Spawn(Runtime)
             /\ cli' = "starting"
    <2>1. /\ order' \in Seq(Providers \cup STRING)
          /\ \A i, j \in DOMAIN order' : order'[i] # Blank /\ (order'[i] = order'[j] => i = j)
      BY <1>4, OrderType
    <2>2. /\ ChildTypeOK' /\ os'[Runtime] \in {"running", "dead"} /\ ChildOk(Runtime)'
          /\ \A p \in Providers : os'[p] = os[p] /\ seen'[p] = seen[p]
          /\ sent' = sent /\ stop' = stop /\ handlers' = handlers
      BY <1>1, <1>2, <1>4, Spawned
    <2>3. \A p \in Providers : os'[p] = "none" /\ Quiet(p)'
      BY <1>1, <2>2 DEF PhasesAgree, TunnelOk, Quiet
    <2>4. tunnel' = tunnel /\ tunnel.pc = "idle"
      BY <1>1 DEF PhasesAgree
    <2>5. TunnelOk'
      BY <1>1, <2>1, <2>3, <2>4 DEF TunnelOk
    <2>6. RuntimeOk'
      BY <1>1, <1>2, <1>4, <2>2 DEF RuntimeOk, Working
    <2>7. \A p \in Providers : ProviderOk(p)'
      BY <2>2, ProvidersStay
    <2>8. PhasesAgree'
      BY <1>4, <2>4 DEF PhasesAgree
    <2>9. TunnelTypeOK'
      <3>1. Len(order') \in Nat /\ order = <<>>
        BY <1>1, <2>1 DEF PhasesAgree
      <3>2. tunnel.at \in 0..(Len(order') + 1)
        BY <1>1, <3>1 DEF TypeOK, TunnelTypeOK
      <3> QED
        BY <1>1, <2>1, <3>2 DEF TypeOK, TunnelTypeOK
    <2>10. TypeOK'
      BY <1>1, <1>4, <2>2, <2>9 DEF TypeOK, Phases
    <2> QED
      BY <1>2, <2>5, <2>6, <2>7, <2>8, <2>10 DEF IInv, Graceful
  <1> QED
    BY <1>3, <1>4 DEF Bootstrap

LEMMA HealthyIInv ==
  ASSUME IInv, Healthy
  PROVE  IInv' /\ Graceful
  <1>1. /\ TypeOK /\ RuntimeOk /\ TunnelOk /\ PhasesAgree /\ cli = "health" /\ cli' = "tunnel"
        /\ tunnel' = [pc |-> "try", at |-> 1]
        /\ UNCHANGED <<os, seen, sent, stop, handlers, exit>>
        /\ UNCHANGED <<order, env, urlOut, deadline, message, listening, arrived, signals>>
    BY DEF IInv, Healthy, BeginTunnel, childVars
  <1>2. tunnel.pc = "idle" /\ \A p \in Providers : os[p] = "none" /\ Quiet(p)
    BY <1>1 DEF PhasesAgree, TunnelOk, Quiet
  <1>3. RuntimeOk' /\ \A p \in Providers : ProviderOk(p)'
    BY <1>1, RuntimeStays, ProvidersStay DEF Working
  <1>4. tunnel'.pc = "try" /\ tunnel'.at = 1 /\ tunnel' \in [pc : TunnelStates, at : Nat]
    BY <1>1 DEF TunnelStates
  <1>5. \A p \in Providers : Quiet(p)' /\ os'[p] = "none"
    BY <1>1, <1>2 DEF Quiet
  <1>6. TunnelOk'
    BY <1>1, <1>4, <1>5 DEF TunnelOk
  <1>7. PhasesAgree'
    BY <1>1 DEF PhasesAgree
  <1>8. ChildTypeOK'
    BY <1>1 DEF TypeOK, ChildTypeOK
  <1>9. TunnelTypeOK'
    <2>1. Len(order) \in Nat
      BY <1>1 DEF TunnelOk
    <2> QED
      BY <1>1, <1>4, <2>1 DEF TypeOK, TunnelTypeOK
  <1>10. TypeOK'
    BY <1>1, <1>8, <1>9 DEF TypeOK, Phases
  <1> QED
    BY <1>1, <1>3, <1>6, <1>7, <1>10 DEF IInv, Graceful

-----------------------------------------------------------------------------
(* The runtime.                                                            *)

\* What concerns the runtime's process alone.
LEMMA OfRuntime ==
  ASSUME IInv, UNCHANGED <<seen, sent, stop, order, env, urlOut, tunnel, deadline>>,
         cli' \in {cli, "killed"}, \A p \in Providers : os'[p] = os[p]
  PROVE  /\ TunnelOk' /\ TunnelTypeOK' /\ PhasesAgree' /\ cli' \in Phases
         /\ \A p \in Providers : ProviderOk(p)'
  <1>1. TunnelOk' /\ \A p \in Providers : ProviderOk(p)' /\ (Quiet(p) => Quiet(p)')
    BY TunnelStays, ProvidersStay
  <1>2. TunnelTypeOK' /\ Current' = Current /\ cli' \in Phases
    BY DEF IInv, TypeOK, TunnelTypeOK, Current, Phases
  <1>3. PhasesAgree'
    BY <1>1, <1>2 DEF IInv, PhasesAgree
  <1> QED
    BY <1>1, <1>2, <1>3

LEMMA RuntimeIInv ==
  ASSUME IInv, Boot \/ RuntimeCloses \/ SeeDisconnect
  PROVE  IInv' /\ Graceful
  <1>1. /\ TypeOK /\ ChildTypeOK /\ RuntimeOk /\ os \in [Children -> Alive \cup {"none", "dead"}]
        /\ UNCHANGED <<seen, sent, stop, order, env, urlOut, tunnel, deadline>>
        /\ UNCHANGED <<cli, listening, arrived, signals>>
    BY DEF IInv, TypeOK, ChildTypeOK, Boot, RuntimeReady, RuntimeStartError, RuntimeCloses,
       SeeDisconnect, tunnelVars
  <1>2. Runtime \in Children /\ \A p \in Providers : p \in Children /\ p # Runtime
    BY ChildrenAssumption DEF Children
  <1>3. ASSUME NEW state \in Alive \cup {"dead"}, os' = [os EXCEPT ![Runtime] = state],
               handlers' \in SUBSET {"INT", "TERM"}, exit' \in {exit, "clean", "bad"},
               message' \in {message, "ready", "start_error"}, RuntimeOk'
        PROVE  IInv'
    <2>1. \A p \in Providers : os'[p] = os[p]
      BY <1>1, <1>2, <1>3
    <2>2. /\ TunnelOk' /\ TunnelTypeOK' /\ PhasesAgree' /\ cli' \in Phases
          /\ \A p \in Providers : ProviderOk(p)'
      BY <1>1, <2>1, OfRuntime
    <2>3. ChildTypeOK'
      BY <1>1, <1>3 DEF ChildTypeOK
    <2>4. TypeOK'
      BY <1>1, <1>3, <2>2, <2>3 DEF TypeOK
    <2> QED
      BY <1>3, <2>2, <2>4 DEF IInv
  <1>4. CASE RuntimeReady
    <2>1. os[Runtime] = "running" /\ handlers = {} /\ sent[Runtime] = {} /\ ~seen[Runtime]
      BY <1>1, <1>4 DEF RuntimeReady, RuntimeOk, ChildOk
    <2>2. CASE CliAlive
      <3>1. /\ os' = [os EXCEPT ![Runtime] = "serving"] /\ message' = "ready"
            /\ handlers' = {"INT", "TERM"} /\ exit' = exit
        BY <1>4, <2>2 DEF RuntimeReady
      <3>2. os'[Runtime] = "serving"
        BY <1>1, <1>2, <3>1
      <3>3. RuntimeOk'
        BY <1>1, <2>1, <3>1, <3>2 DEF RuntimeOk, ChildOk, Working
      <3> QED
        BY <1>3, <2>1, <3>1, <3>3 DEF Alive, Graceful
    <2>3. CASE ~CliAlive
      <3>1. /\ os' = [os EXCEPT ![Runtime] = "dead"] /\ message' = message
            /\ handlers' = handlers /\ exit' = "bad"
        BY <1>4, <2>3 DEF RuntimeReady
      <3>2. os'[Runtime] = "dead"
        BY <1>1, <1>2, <3>1
      <3>3. RuntimeOk'
        BY <1>1, <2>1, <2>3, <3>1, <3>2 DEF RuntimeOk, ChildOk, Working, CliAlive
      <3>4. handlers' \in SUBSET {"INT", "TERM"}
        BY <1>1, <3>1 DEF ChildTypeOK
      <3> QED
        BY <1>3, <2>1, <3>1, <3>3, <3>4 DEF Graceful
    <2> QED
      BY <2>2, <2>3
  <1>5. CASE RuntimeStartError
    <2>1. /\ os[Runtime] = "running" /\ os' = [os EXCEPT ![Runtime] = "dead"]
          /\ message' \in {message, "start_error"} /\ handlers' = handlers /\ exit' = "bad"
      BY <1>5 DEF RuntimeStartError
    <2>2. os'[Runtime] = "dead"
      BY <1>1, <1>2, <2>1
    <2>3. RuntimeOk'
      BY <1>1, <2>1, <2>2 DEF RuntimeOk, ChildOk, Working
    <2>4. handlers' \in SUBSET {"INT", "TERM"}
      BY <1>1, <2>1 DEF ChildTypeOK
    <2> QED
      BY <1>3, <2>1, <2>3, <2>4 DEF Graceful
  <1>6. CASE RuntimeCloses
    <2>1. /\ os[Runtime] = "closing" /\ os' = [os EXCEPT ![Runtime] = "dead"]
          /\ message' = message /\ handlers' = handlers /\ exit' \in {"clean", "bad"}
      BY <1>6 DEF RuntimeCloses
    <2>2. os'[Runtime] = "dead"
      BY <1>1, <1>2, <2>1
    <2>3. RuntimeOk'
      BY <1>1, <2>1, <2>2 DEF RuntimeOk, ChildOk, Working
    <2>4. handlers' \in SUBSET {"INT", "TERM"}
      BY <1>1, <2>1 DEF ChildTypeOK
    <2> QED
      BY <1>1, <1>3, <2>1, <2>3, <2>4 DEF Graceful
  <1>7. CASE SeeDisconnect
    <2>1. /\ os[Runtime] = "serving" /\ os' = [os EXCEPT ![Runtime] = "closing"]
          /\ message' = message /\ handlers' = handlers /\ exit' = exit
      BY <1>7 DEF SeeDisconnect
    <2>2. os'[Runtime] = "closing"
      BY <1>1, <1>2, <2>1
    <2>3. RuntimeOk'
      BY <1>1, <2>1, <2>2 DEF RuntimeOk, ChildOk, Working
    <2>4. handlers' \in SUBSET {"INT", "TERM"}
      BY <1>1, <2>1 DEF ChildTypeOK
    <2> QED
      BY <1>3, <2>1, <2>2, <2>3, <2>4 DEF Graceful, Alive
  <1> QED
    BY <1>4, <1>5, <1>6, <1>7 DEF Boot

LEMMA InterruptIInv ==
  ASSUME IInv, Interrupt
  PROVE  IInv' /\ Graceful
  <1>1. /\ TypeOK /\ ChildTypeOK /\ RuntimeOk /\ os \in [Children -> Alive \cup {"none", "dead"}]
        /\ UNCHANGED <<seen, sent, stop, order, env, urlOut, tunnel, deadline>>
        /\ os' = [os EXCEPT ![Runtime] = AfterSignal(Runtime, "INT")]
        /\ handlers' = handlers \ {"INT"} /\ exit' \in {"clean", exit}
        /\ signals' = signals + 1 /\ Arrive("INT")
    BY DEF IInv, TypeOK, ChildTypeOK, Interrupt, Arrive, tunnelVars
  <1>2. Runtime \in Children /\ \A p \in Providers : p \in Children /\ p # Runtime
    BY ChildrenAssumption DEF Children
  <1>3. /\ cli' \in {cli, "killed"} /\ message' = message
        /\ listening' \in SUBSET {"INT", "TERM"} /\ arrived' \subseteq listening'
        /\ signals' \in 0..MaxSignals
    BY <1>1, ArrivalType
  <1>4. os'[Runtime] = AfterSignal(Runtime, "INT") /\ \A p \in Providers : os'[p] = os[p]
    BY <1>1, <1>2
  <1>5. /\ TunnelOk' /\ TunnelTypeOK' /\ PhasesAgree' /\ cli' \in Phases
        /\ \A p \in Providers : ProviderOk(p)'
    BY <1>1, <1>3, <1>4, OfRuntime
  <1>6. /\ AfterSignal(Runtime, "INT") \in Alive \cup {"none", "dead"}
        /\ AfterSignal(Runtime, "INT") \in {os[Runtime], "closing", "dead"}
        /\ os[Runtime] = "none" <=> AfterSignal(Runtime, "INT") = "none"
        /\ os[Runtime] = "dead" => AfterSignal(Runtime, "INT") = "dead"
        /\ os[Runtime] \in Alive => AfterSignal(Runtime, "INT") \in {"closing", "dead"}
    BY <1>1, <1>2 DEF AfterSignal, Alive
  <1>7. RuntimeOk'
    <2>1. os[Runtime] = "running" => os'[Runtime] = "dead"
      BY <1>1, <1>4 DEF AfterSignal, RuntimeOk, Alive
    <2>2. ChildOk(Runtime)'
      BY <1>1, <1>4, <1>6 DEF RuntimeOk, ChildOk
    <2>3. os'[Runtime] \in {"none", "running"} => handlers' = {}
      BY <1>1, <1>4, <1>6, <2>1 DEF RuntimeOk, Alive
    <2>4. os'[Runtime] \in {"serving", "closing"} /\ sent'[Runtime] = {} => "TERM" \in handlers'
      BY <1>1, <1>4, <1>6, <2>1 DEF RuntimeOk, Alive
    <2>5. sent'[Runtime] # {} => os'[Runtime] \in {"closing", "dead"}
      BY <1>1, <1>4, <1>6 DEF RuntimeOk, Alive
    <2>6. cli' = "bootstrap" => os'[Runtime] = "none"
      BY <1>1, <1>3, <1>4, <1>6 DEF RuntimeOk
    <2>7. /\ cli' \in Working => os'[Runtime] # "none"
          /\ cli' \in Working \cup {"bootstrap"} => sent'[Runtime] = {}
      BY <1>1, <1>3, <1>4, <1>6 DEF RuntimeOk, Working
    <2> QED
      BY <2>2, <2>3, <2>4, <2>5, <2>6, <2>7 DEF RuntimeOk
  <1>8. ChildTypeOK'
    BY <1>1, <1>6 DEF ChildTypeOK
  <1>9. TypeOK'
    BY <1>1, <1>3, <1>5, <1>8 DEF TypeOK
  <1>10. signals' # signals
    BY <1>1, CliAssumption DEF TypeOK
  <1> QED
    BY <1>5, <1>7, <1>9, <1>10 DEF IInv, Graceful

-----------------------------------------------------------------------------
(* Children end and are stopped.                                           *)

\* What a step that concerns the one child c has to keep.
LEMMA OneChild ==
  ASSUME IInv, NEW c \in Children, ChildTypeOK',
         UNCHANGED <<handlers, tunnelVars, cli, message, listening, arrived, signals>>,
         os'[c] = os[c] \/ (os[c] \in Alive /\ os'[c] = "dead"),
         sent[c] \subseteq sent'[c], sent[c] = {} => sent'[c] = {}, ChildOk(c)',
         c \in Providers /\ stop'[c] = "error" => Quiet(c)',
         stop[c] # "none" => stop'[c] # "none",
         \A d \in Children \ {c} : /\ os'[d] = os[d] /\ seen'[d] = seen[d]
                                   /\ sent'[d] = sent[d] /\ stop'[d] = stop[d]
  PROVE  IInv'
  <1>1. /\ TypeOK /\ RuntimeOk /\ PhasesAgree /\ TunnelOk
        /\ Runtime \in Children /\ \A p \in Providers : p \in Children /\ p # Runtime
    BY ChildrenAssumption DEF IInv, Children
  <1>2. \A p \in Providers : /\ os'[p] = os[p] \/ (os[p] = "running" /\ os'[p] = "dead")
                            /\ sent[p] \subseteq sent'[p]
    BY <1>1 DEF IInv, ProviderOk, Alive
  <1>3. TunnelOk' /\ (\A p \in Providers : Quiet(p) => Quiet(p)') /\ Current' = Current
    BY <1>2, TunnelStays DEF tunnelVars, Current
  <1>4. \A p \in Providers : ProviderOk(p)'
    <2> SUFFICES ASSUME NEW p \in Providers PROVE ProviderOk(p)'
      OBVIOUS
    <2>1. CASE p = c
      BY <1>2, <2>1 DEF IInv, ProviderOk
    <2>2. CASE p # c
      BY <1>1, <2>2 DEF IInv, ProviderOk, ChildOk, Quiet
    <2> QED
      BY <2>1, <2>2
  <1>5. RuntimeOk'
    <2>1. CASE c = Runtime
      BY <1>1, <2>1 DEF RuntimeOk, Alive
    <2>2. CASE c # Runtime
      BY <1>1, <2>2, RuntimeStays
    <2> QED
      BY <2>1, <2>2
  <1>6. PhasesAgree'
    <2>1. cli = "stop_tunnel" => stop'[Current] # "none"
      <3> SUFFICES ASSUME cli = "stop_tunnel" PROVE stop'[Current] # "none"
        OBVIOUS
      <3>1. Current \in Children /\ stop[Current] # "none"
        BY <1>1 DEF PhasesAgree, TunnelOk
      <3> QED
        BY <3>1
    <2> QED
      BY <1>1, <1>3, <2>1 DEF PhasesAgree, tunnelVars
  <1>7. TypeOK'
    BY <1>1 DEF TypeOK, TunnelTypeOK, tunnelVars
  <1> QED
    BY <1>3, <1>4, <1>5, <1>6, <1>7 DEF IInv

LEMMA ChildIInv ==
  ASSUME IInv, NEW c \in Children, Background(c) \/ OfChild(Die(c)) \/ OfChild(DieOfKill(c))
  PROVE  IInv' /\ Graceful
  <1>1. /\ ChildTypeOK /\ ChildOk(c) /\ Runtime \in Children
        /\ UNCHANGED <<tunnelVars, cli, message, listening, arrived, signals>>
    BY DEF IInv, TypeOK, ProviderOk, RuntimeOk, Children, Background, OfChild
  <1>2. CASE StopTimeout(c)
    <2>1. /\ stop[c] = "waiting"
          /\ sent' = [sent EXCEPT ![c] = @ \cup {"KILL"}]
          /\ stop' = [stop EXCEPT ![c] = "error"]
          /\ UNCHANGED <<os, seen, handlers, exit>>
      BY <1>2 DEF StopTimeout
    <2>2. ChildTypeOK'
      BY <1>1, <2>1 DEF ChildTypeOK
    <2>3. ChildOk(c)' /\ sent[c] # {} /\ Quiet(c)'
      BY <1>1, <2>1 DEF ChildOk, ChildTypeOK, Quiet
    <2>4. /\ sent[c] \subseteq sent'[c] /\ stop'[c] = "error"
          /\ \A d \in Children \ {c} : sent'[d] = sent[d] /\ stop'[d] = stop[d]
      BY <1>1, <2>1 DEF ChildTypeOK
    <2>5. IInv'
      BY <1>1, <2>1, <2>2, <2>3, <2>4, OneChild
    <2> QED
      BY <2>1, <2>5 DEF Graceful
  <1>3. CASE SeeExit(c)
    <2>1. /\ os[c] = "dead" /\ ~seen[c]
          /\ seen' = [seen EXCEPT ![c] = TRUE]
          /\ stop'[c] \in {stop[c], "error", "ok"} /\ stop' \in [Children -> {"none", "waiting", "ok", "error"}]
          /\ \A d \in Children \ {c} : stop'[d] = stop[d]
          /\ stop[c] = "none" => stop'[c] = "none"
          /\ stop[c] # "waiting" => stop'[c] = stop[c]
          /\ UNCHANGED <<os, sent, handlers, exit>>
      BY <1>1, <1>3 DEF SeeExit, ChildTypeOK
    <2>2. ChildTypeOK'
      BY <1>1, <2>1 DEF ChildTypeOK
    <2>3. ChildOk(c)' /\ Quiet(c)'
      BY <1>1, <2>1 DEF ChildOk, ChildTypeOK, Quiet
    <2>4. \A d \in Children \ {c} : seen'[d] = seen[d]
      BY <1>1, <2>1 DEF ChildTypeOK
    <2>5. IInv'
      BY <1>1, <2>1, <2>2, <2>3, <2>4, OneChild
    <2> QED
      BY <2>1, <2>5 DEF Graceful
  <1>4. CASE Die(c) \/ DieOfKill(c)
    <2>1. /\ os[c] \in Alive /\ os' = [os EXCEPT ![c] = "dead"]
          /\ UNCHANGED <<seen, sent, stop, handlers>> /\ exit' \in {exit, "clean", "bad"}
      BY <1>4 DEF Die, DieOfKill
    <2>2. ChildTypeOK'
      BY <1>1, <2>1 DEF ChildTypeOK
    <2>3. os'[c] = "dead" /\ \A d \in Children \ {c} : os'[d] = os[d]
      BY <1>1, <2>1 DEF ChildTypeOK
    <2>4. ChildOk(c)' /\ Quiet(c)'
      BY <1>1, <2>1, <2>3 DEF ChildOk, Quiet, Alive
    <2>5. IInv'
      BY <1>1, <2>1, <2>2, <2>3, <2>4, OneChild
    <2>6. Graceful
      <3> SUFFICES ASSUME os[Runtime] \in {"serving", "closing"}, os'[Runtime] = "dead",
                          exit' = "clean"
                   PROVE  os[Runtime] = "closing" /\ sent' = sent
        BY DEF Graceful
      <3>1. c = Runtime
        BY <1>1, <2>3
      <3>2. DieOfKill(c)
        BY <1>4, <3>1 DEF Die
      <3>3. sent[Runtime] # {}
        BY <3>1, <3>2 DEF DieOfKill
      <3> QED
        BY <2>1, <3>3 DEF IInv, RuntimeOk
    <2> QED
      BY <2>5, <2>6
  <1> QED
    BY <1>2, <1>3, <1>4 DEF Background, OfChild

-----------------------------------------------------------------------------
(* The tunnel.                                                             *)

\* What a step of the tunnel has to keep.
LEMMA TunnelMoves ==
  ASSUME IInv, cli = "tunnel", UNCHANGED <<cli, message, listening, arrived, signals>>,
         UNCHANGED <<order, env, urlOut>>, deadline' \in {FALSE, deadline},
         os'[Runtime] = os[Runtime], seen'[Runtime] = seen[Runtime],
         sent'[Runtime] = sent[Runtime], stop'[Runtime] = stop[Runtime], handlers' = handlers,
         ChildTypeOK', TunnelOk', tunnel'.at <= Len(order) + 1,
         \A p \in Providers : ProviderOk(p)'
  PROVE  IInv' /\ Graceful
  <1>1. RuntimeOk'
    BY RuntimeStays
  <1>2. PhasesAgree'
    BY DEF PhasesAgree
  <1>3. tunnel'.pc \in TunnelStates /\ tunnel'.at \in Nat /\ Len(order) \in Nat
    BY DEF IInv, TunnelOk
  <1>4. TunnelTypeOK'
    <2>1. tunnel'.at \in 0..(Len(order') + 1)
      BY <1>3
    <2> QED
      BY <1>3, <2>1 DEF IInv, TypeOK, TunnelTypeOK, TunnelStates
  <1>5. TypeOK'
    BY <1>4 DEF IInv, TypeOK
  <1> QED
    BY <1>1, <1>2, <1>5 DEF IInv, Graceful

\* The state of the tunnel changes, the children do not.
LEMMA GoToIInv ==
  ASSUME IInv, cli = "tunnel", UNCHANGED <<cli, message, listening, arrived, signals>>,
         UNCHANGED <<order, env, urlOut, deadline, childVars>>,
         TunnelOk', tunnel'.at <= Len(order) + 1
  PROVE  IInv' /\ Graceful
  <1>1. UNCHANGED <<os, seen, sent, stop, handlers, exit>>
    BY DEF childVars
  <1>2. \A p \in Providers : ProviderOk(p)'
    BY <1>1, ProvidersStay
  <1>3. ChildTypeOK'
    BY <1>1 DEF IInv, TypeOK, ChildTypeOK
  <1> QED
    BY <1>1, <1>2, <1>3, TunnelMoves

LEMMA Moves ==
  ASSUME TunnelOk, NEW pc \in TunnelStates, GoTo(pc)
  PROVE  /\ tunnel' \in [pc : TunnelStates, at : Nat]
         /\ tunnel'.pc = pc /\ tunnel'.at = tunnel.at
         /\ order' = order => Current' = Current
  BY DEF TunnelOk, GoTo, Current

\* The next provider is tried when none before it is left alone.
LEMMA AdvanceIInv ==
  ASSUME IInv, cli = "tunnel", UNCHANGED <<cli, message, listening, arrived, signals>>,
         UNCHANGED <<order, env, urlOut, deadline, childVars>>,
         NextProvider, tunnel.pc # "idle", tunnel.at <= Len(order),
         \A p \in Providers : Quiet(p)
  PROVE  IInv' /\ Graceful
  <1>1. /\ tunnel.at \in Nat /\ Len(order) \in Nat
        /\ tunnel'.pc = "try" /\ tunnel'.at = tunnel.at + 1
        /\ tunnel' \in [pc : TunnelStates, at : Nat]
    BY DEF IInv, TunnelOk, NextProvider, TunnelStates
  <1>2. \A i \in DOMAIN order : i \in Nat
    BY DEF IInv, TunnelOk
  <1>3. \A i \in DOMAIN order' :
          /\ i > tunnel'.at \/ (i = tunnel'.at /\ tunnel'.pc = "try")
          /\ order'[i] \in Providers
          => os'[order'[i]] = "none"
    BY <1>1, <1>2 DEF IInv, TunnelOk, childVars
  <1>4. \A p \in Providers : Quiet(p)'
    BY DEF Quiet, childVars
  <1>5. TunnelOk'
    BY <1>1, <1>3, <1>4 DEF IInv, TunnelOk
  <1>6. tunnel'.at <= Len(order) + 1
    BY <1>1
  <1> QED
    BY <1>5, <1>6, GoToIInv

\* The provider being tried is stopped.
LEMMA CleanupIInv ==
  ASSUME IInv, cli = "tunnel", UNCHANGED <<cli, message, listening, arrived, signals>>,
         UNCHANGED <<order, env, urlOut, deadline, seen>>,
         tunnel.pc \in {"poll", "fetch"}, BeginStop(Current), GoTo("cleanup")
  PROVE  IInv' /\ Graceful
  <1>1. TunnelOk /\ Current \in Providers /\ os[Current] # "none" /\ env[Current] = "start"
        /\ tunnel.at <= Len(order) /\ tunnel.at \in Nat /\ Len(order) \in Nat /\ tunnel.at # 0
    BY DEF IInv, TunnelOk
  <1>2. /\ ChildTypeOK' /\ os' = os /\ handlers' = handlers /\ stop'[Current] # "none"
        /\ sent'[Runtime] = sent[Runtime] /\ stop'[Runtime] = stop[Runtime]
        /\ \A p \in Providers : ProviderOk(p)' /\ sent[p] \subseteq sent'[p]
    BY <1>1, StopProvider
  <1>3. /\ tunnel' \in [pc : TunnelStates, at : Nat]
        /\ tunnel'.pc = "cleanup" /\ tunnel'.at = tunnel.at /\ Current' = Current
    BY <1>1, Moves DEF TunnelStates
  <1>4. \A p \in Providers : Quiet(p) => Quiet(p)'
    BY <1>2 DEF Quiet
  <1>5. TunnelOk'
    BY <1>1, <1>2, <1>3, <1>4 DEF TunnelOk
  <1>6. tunnel'.at <= Len(order) + 1
    BY <1>1, <1>3
  <1> QED
    BY <1>2, <1>5, <1>6, TunnelMoves

LEMMA StartProcessIInv ==
  ASSUME IInv, cli = "tunnel", UNCHANGED <<cli, message, listening, arrived, signals>>,
         StartTunnelProcess
  PROVE  IInv' /\ Graceful
  <1>1. /\ TunnelOk /\ tunnel.pc = "try" /\ tunnel.at <= Len(order) /\ KindOf(Current) = "start"
        /\ Spawn(Current) /\ GoTo("poll") /\ deadline' = FALSE
        /\ UNCHANGED <<order, env, urlOut>>
        /\ tunnel.at \in Nat /\ Len(order) \in Nat /\ tunnel.at # 0
    BY DEF IInv, TunnelOk, StartTunnelProcess
  <1>2. PICK c \in Providers : c = Current /\ env[c] = "start"
    BY <1>1 DEF KindOf
  <1>3. tunnel.at \in DOMAIN order /\ os[c] = "none"
    BY <1>1, <1>2 DEF TunnelOk, Current
  <1>4. ~seen[c] /\ sent[c] = {} /\ stop[c] = "none"
    BY <1>2, <1>3 DEF IInv, ProviderOk, ChildOk
  <1>5. /\ Runtime \in Children /\ Runtime # c /\ c \in Children
        /\ \A p \in Providers : p \in Children
    BY <1>2, ChildrenAssumption DEF Children
  <1>6. /\ ChildTypeOK' /\ os'[c] \in {"running", "dead"} /\ ChildOk(c)'
        /\ \A d \in Children \ {c} : os'[d] = os[d] /\ seen'[d] = seen[d]
        /\ sent' = sent /\ stop' = stop /\ handlers' = handlers
    <2>1. ChildTypeOK /\ Spawn(c)
      BY <1>1, <1>2 DEF IInv, TypeOK
    <2> QED
      BY <1>3, <1>4, <1>5, <2>1, Spawned
  <1>7. /\ tunnel' \in [pc : TunnelStates, at : Nat]
        /\ tunnel'.pc = "poll" /\ tunnel'.at = tunnel.at /\ Current' = Current
    BY <1>1, Moves DEF TunnelStates
  <1>8. \A p \in Providers : ProviderOk(p)'
    <2> SUFFICES ASSUME NEW p \in Providers PROVE ProviderOk(p)'
      OBVIOUS
    <2>1. CASE p = c
      BY <1>4, <1>6, <2>1 DEF ProviderOk
    <2>2. CASE p # c
      BY <1>5, <1>6, <2>2 DEF IInv, ProviderOk, ChildOk, Quiet
    <2> QED
      BY <2>1, <2>2
  <1>9. \A p \in Providers : ~Quiet(p)' => p = c
    BY <1>1, <1>2, <1>5, <1>6 DEF TunnelOk, Quiet
  <1>10. \A i \in DOMAIN order' :
           /\ i > tunnel'.at \/ (i = tunnel'.at /\ tunnel'.pc = "try")
           /\ order'[i] \in Providers
           => os'[order'[i]] = "none"
    <2> SUFFICES ASSUME NEW i \in DOMAIN order, i > tunnel.at, order[i] \in Providers
                 PROVE  os'[order[i]] = "none"
      BY <1>1, <1>7
    <2>1. os[order[i]] = "none" /\ i # tunnel.at
      BY <1>1, <1>3 DEF TunnelOk
    <2>2. order[i] # c
      BY <1>2, <1>3, <2>1 DEF IInv, TypeOK, TunnelTypeOK, Current
    <2> QED
      BY <1>5, <1>6, <2>1, <2>2
  <1>11. TunnelOk'
    BY <1>1, <1>2, <1>6, <1>7, <1>9, <1>10 DEF TunnelOk
  <1>12. tunnel'.at <= Len(order) + 1
    BY <1>1, <1>7
  <1> QED
    BY <1>1, <1>5, <1>6, <1>8, <1>11, <1>12, TunnelMoves

LEMMA TunnelStepIInv ==
  ASSUME IInv, cli = "tunnel", TunnelStep, UNCHANGED <<cli, message, listening, arrived, signals>>
  PROVE  IInv' /\ Graceful
  <1>1. /\ TunnelOk /\ tunnel.at \in Nat /\ Len(order) \in Nat
        /\ \A p \in Providers : ~Quiet(p) =>
             tunnel.pc \in {"poll", "fetch", "cleanup", "session"} /\ p = Current
    BY DEF IInv, TunnelOk
  <1>2. CASE SkipProvider
    BY <1>1, <1>2, AdvanceIInv DEF SkipProvider
  <1>3. CASE UseConfigured
    <2>1. /\ tunnel.pc = "try" /\ tunnel.at <= Len(order) /\ KindOf(Current) = "configured"
          /\ GoTo("session") /\ UNCHANGED <<order, env, urlOut, deadline, childVars>>
          /\ tunnel.at # 0
      BY <1>1, <1>3 DEF UseConfigured, TunnelOk
    <2>2. Current \in Providers /\ env[Current] = "configured" /\ tunnel.at \in DOMAIN order
      BY <1>1, <2>1 DEF KindOf, TunnelOk
    <2>3. os[Current] = "none" /\ \A p \in Providers : Quiet(p)
      BY <1>1, <2>1, <2>2 DEF TunnelOk, Current
    <2>4. /\ tunnel' \in [pc : TunnelStates, at : Nat]
          /\ tunnel'.pc = "session" /\ tunnel'.at = tunnel.at /\ Current' = Current
      BY <1>1, <2>1, Moves DEF TunnelStates
    <2>5. os' = os /\ \A p \in Providers : Quiet(p)'
      BY <2>1, <2>3 DEF Quiet, childVars
    <2>6. TunnelOk'
      BY <1>1, <2>1, <2>2, <2>3, <2>4, <2>5 DEF TunnelOk
    <2>7. tunnel'.at <= Len(order) + 1
      BY <1>1, <2>1, <2>4
    <2> QED
      BY <2>1, <2>6, <2>7, GoToIInv
  <1>4. CASE StartTunnelProcess
    BY <1>4, StartProcessIInv
  <1>5. CASE NoProviderLeft
    <2>1. /\ tunnel.pc = "try" /\ tunnel.at > Len(order)
          /\ GoTo("failed") /\ UNCHANGED <<order, env, urlOut, deadline, childVars>>
      BY <1>5 DEF NoProviderLeft
    <2>2. /\ tunnel' \in [pc : TunnelStates, at : Nat]
          /\ tunnel'.pc = "failed" /\ tunnel'.at = tunnel.at
      BY <1>1, <2>1, Moves DEF TunnelStates
    <2>3. os' = os /\ \A p \in Providers : Quiet(p)'
      BY <1>1, <2>1 DEF Quiet, childVars
    <2>4. TunnelOk'
      BY <1>1, <2>1, <2>2, <2>3 DEF TunnelOk
    <2>5. tunnel'.at <= Len(order) + 1
      BY <2>2 DEF IInv, TypeOK, TunnelTypeOK
    <2> QED
      BY <2>1, <2>4, <2>5, GoToIInv
  <1>6. ASSUME NEW pc \in {"poll", "fetch", "session"}, tunnel.pc \in {"poll", "fetch"}, GoTo(pc),
               UNCHANGED <<order, env, urlOut, deadline, childVars>>
        PROVE  IInv' /\ Graceful
    <2>1. /\ tunnel' \in [pc : TunnelStates, at : Nat]
          /\ tunnel'.pc = pc /\ tunnel'.at = tunnel.at /\ Current' = Current
      BY <1>1, <1>6, Moves DEF TunnelStates
    <2>2. tunnel.at <= Len(order) /\ Current \in Providers /\ env[Current] = "start"
          /\ os[Current] # "none" /\ tunnel.at # 0
      BY <1>1, <1>6 DEF TunnelOk
    <2>3. os' = os /\ \A p \in Providers : Quiet(p) => Quiet(p)'
      BY <1>6 DEF Quiet, childVars
    <2>4. TunnelOk'
      BY <1>1, <1>6, <2>1, <2>2, <2>3 DEF TunnelOk
    <2>5. tunnel'.at <= Len(order) + 1
      BY <1>1, <2>1, <2>2
    <2> QED
      BY <1>6, <2>4, <2>5, GoToIInv
  <1>7. CASE PollSucceeds \/ FetchUrl
    BY <1>6, <1>7 DEF PollSucceeds, FetchUrl
  <1>8. CASE PollFails
    BY <1>8, CleanupIInv DEF PollFails
  <1>9. CASE FetchReturns
    BY <1>6, <1>9, CleanupIInv DEF FetchReturns
  <1>10. CASE CleanedUp
    <2>1. /\ tunnel.pc = "cleanup" /\ Settled(Current) /\ NextProvider
          /\ UNCHANGED <<order, env, urlOut, deadline, childVars>>
      BY <1>10 DEF CleanedUp
    <2>2. Current \in Providers /\ tunnel.at <= Len(order)
      BY <1>1, <2>1 DEF TunnelOk
    <2>3. Quiet(Current)
      BY <2>1, <2>2 DEF IInv, ProviderOk, ChildOk, Settled, Quiet
    <2> QED
      BY <1>1, <2>1, <2>2, <2>3, AdvanceIInv
  <1> QED
    BY <1>2, <1>3, <1>4, <1>5, <1>7, <1>8, <1>9, <1>10 DEF TunnelStep

-----------------------------------------------------------------------------
(* The theorems.                                                           *)

LEMMA InitIInv == Init => IInv
  <1> SUFFICES ASSUME Init PROVE IInv
    OBVIOUS
  <1>1. /\ order = <<>> /\ env \in [Providers -> EnvKinds] /\ deadline = FALSE
        /\ urlOut = [p \in Providers |-> FALSE] /\ tunnel = [pc |-> "idle", at |-> 0]
        /\ os = [c \in Children |-> "none"] /\ seen = [c \in Children |-> FALSE]
        /\ sent = [c \in Children |-> {}] /\ stop = [c \in Children |-> "none"]
        /\ handlers = {} /\ exit = "none"
        /\ cli = "bootstrap" /\ message = "none" /\ listening = {} /\ arrived = {} /\ signals = 0
    BY DEF Init, ChildInit, TunnelInit
  <1>2. Runtime \in Children /\ \A p \in Providers : p \in Children
    BY DEF Children
  <1>3. ChildTypeOK
    BY <1>1 DEF ChildTypeOK
  <1>4. TunnelTypeOK
    <2>1. /\ DOMAIN order = {} /\ Len(order) = 0
          /\ tunnel.pc = "idle" /\ tunnel.at = 0
      BY <1>1
    <2>2. urlOut \in [Providers -> BOOLEAN] /\ tunnel.at \in 0..(Len(order) + 1)
      BY <1>1, <2>1
    <2> QED
      BY <1>1, <2>1, <2>2 DEF TunnelTypeOK
  <1>5. TypeOK
    BY <1>1, <1>3, <1>4, CliAssumption DEF TypeOK, Phases
  <1>6. \A c \in Children : ChildOk(c) /\ Quiet(c)
    BY <1>1 DEF ChildOk, Quiet
  <1>7. \A p \in Providers : ProviderOk(p)
    BY <1>1, <1>2, <1>6 DEF ProviderOk
  <1>8. RuntimeOk
    BY <1>1, <1>2, <1>6 DEF RuntimeOk, Working
  <1>9. TunnelOk
    <2>1. tunnel \in [pc : TunnelStates, at : Nat] /\ tunnel.pc = "idle"
      BY <1>1 DEF TunnelStates
    <2>2. order \in Seq(Providers \cup STRING) /\ DOMAIN order = {}
      BY <1>1
    <2> QED
      BY <1>1, <1>2, <1>6, <2>1, <2>2 DEF TunnelOk
  <1>10. PhasesAgree
    BY <1>1 DEF PhasesAgree
  <1> QED
    BY <1>5, <1>7, <1>8, <1>9, <1>10 DEF IInv

LEMMA StutterIInv ==
  ASSUME IInv, UNCHANGED vars
  PROVE  IInv' /\ Graceful
  <1>1. /\ UNCHANGED <<os, seen, sent, stop, handlers, exit, order, env, urlOut, tunnel, deadline>>
        /\ UNCHANGED <<cli, message, listening, arrived, signals>>
    BY DEF vars, childVars, tunnelVars
  <1>2. TunnelOk' /\ TunnelTypeOK' /\ PhasesAgree' /\ \A p \in Providers : ProviderOk(p)'
    BY <1>1, OfRuntime
  <1>3. RuntimeOk'
    BY <1>1, RuntimeStays
  <1>4. TypeOK'
    BY <1>1, <1>2 DEF IInv, TypeOK, ChildTypeOK
  <1> QED
    BY <1>1, <1>2, <1>3, <1>4 DEF IInv, Graceful

LEMMA NextIInv == IInv /\ [Next]_vars => IInv' /\ Graceful
  <1> SUFFICES ASSUME IInv, [Next]_vars PROVE IInv' /\ Graceful
    OBVIOUS
  <1>1. CASE CommandStep
    BY <1>1, BootstrapIInv, HealthyIInv, GiveUpIInv, SettleIInv, TunnelStepIInv DEF CommandStep
  <1>2. CASE HandleSignal \/ Boot \/ RuntimeCloses \/ SeeDisconnect \/ Terminate \/ Interrupt
             \/ DeadlinePasses
    BY <1>2, HandleSignalIInv, RuntimeIInv, SettleIInv, InterruptIInv
  <1>3. ASSUME NEW c \in Children, Background(c) \/ OfChild(Die(c)) \/ OfChild(DieOfKill(c))
        PROVE  IInv' /\ Graceful
    BY <1>3, ChildIInv
  <1>4. CASE \E p \in Providers : PrintUrl(p) /\ UNCHANGED <<cli, message, listening, arrived, signals>>
    BY <1>4, SettleIInv
  <1>5. CASE UNCHANGED vars
    BY <1>5, StutterIInv
  <1> QED
    BY <1>1, <1>2, <1>3, <1>4, <1>5 DEF Next

\* The inductive invariant holds throughout.
THEOREM Invariance == Spec => []IInv
  BY InitIInv, NextIInv, PTL DEF Spec

\* Processes, tunnel and command keep values of their types, and the order
\* names no provider twice whatever the config lists.
THEOREM TypeCorrect == Spec => []TypeOK
  <1>1. IInv => TypeOK
    BY DEF IInv
  <1> QED
    BY <1>1, Invariance, PTL

\* Whatever order is configured and whatever signals and deaths come when, no
\* tunnel process is left alone by the command's doing.
THEOREM TunnelsStaySupervised == Spec => []TunnelsAreSupervised
  <1>1. IInv => TunnelsAreSupervised
    <2> SUFFICES ASSUME IInv, NEW p \in Providers, CliAlive, os[p] = "running", "KILL" \notin sent[p]
                 PROVE  /\ tunnel.pc \in {"poll", "fetch", "cleanup", "session"} /\ p = Current
                        /\ sent[Runtime] = {}
      BY DEF TunnelsAreSupervised
    <2>1. tunnel.pc \in {"poll", "fetch", "cleanup", "session"} /\ p = Current /\ ~Quiet(p)
      BY DEF IInv, TunnelOk, Quiet
    <2>2. cli \in Working \cup {"bootstrap"}
      BY <2>1 DEF IInv, TypeOK, Phases, PhasesAgree, CliAlive, Working
    <2> QED
      BY <2>1, <2>2 DEF IInv, RuntimeOk
  <1> QED
    BY <1>1, Invariance, PTL

\* The command ends a runtime that has reported ready by nothing but its
\* SIGKILL, in whatever order the signals of user and command reach it.
THEOREM StopsAreGraceful == Spec => GracefulUnlessForced
  <1>1. IInv /\ [Next]_vars => [signals' = signals /\ os[Runtime] \in {"serving", "closing"}
                               /\ os'[Runtime] = "dead" /\ exit' = "clean" =>
                                 os[Runtime] = "closing" /\ sent' = sent]_vars
    BY NextIInv DEF Graceful
  <1> QED
    BY <1>1, Invariance, PTL DEF Spec, GracefulUnlessForced

=============================================================================
