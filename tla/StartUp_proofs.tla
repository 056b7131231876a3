--------------------------- MODULE StartUp_proofs ---------------------------
(* Theorems about StartUp for any number of migrations, settings, agents   *)
(* and outside events.                                                     *)
EXTENDS StartUp, FiniteSetTheorems, WellFoundedInduction, TLAPS

-----------------------------------------------------------------------------
(* The inductive invariant.                                                *)

\* The file on the disk and the configuration in hand keep what the user has
\* set; a truncated file is about to be written, or has been torn by a kill.
FileKept ==
  /\ file \in Files => chosen \subseteq Own(file)
  /\ file = Absent => chosen = {}
  /\ file = Torn => At("writing") \/ "file" \in torn
  /\ At("truncating") \/ At("writing") => chosen \subseteq Own(config)

\* The tables of the first n migrations are there, and no others.
FirstTables(n) == tables = [i \in 1..Scripts |-> IF i <= n THEN "whole" ELSE "none"]

\* A database of a version before there was a ledger.
OldDatabase == \E n \in {0} \cup Sentinels : FirstTables(n)

\* No script has left anything in the database that the ledger does not know.
NoRemains(S) == \A i \in S : tables[i] = "none"

\* What is recorded is there; what is not recorded has left nothing, but for
\* the script in hand and for the damage of a kill.
LedgerTrue ==
  /\ ledger = None =>
       OldDatabase /\ pc \in {"down", "refused", "reading", "truncating", "writing", "opening"}
  /\ ledger # None => \A i \in ledger : tables[i] = "whole"
  /\ At("recognising") => OldDatabase
  /\ At("finishing") => Missing # {} /\ tables[Least(Missing)] = "part"
  /\ At("marking") => Missing # {} /\ tables[Least(Missing)] = "whole"
  /\ ledger # None /\ "database" \notin torn =>
       CASE At("recognising") -> TRUE
         [] At("finishing") \/ At("marking") -> NoRemains(Missing \ {Least(Missing)})
         [] OTHER -> NoRemains(Missing)
  /\ pc \in {"counting", "seeding", "listening"} => ledger = 1..Scripts

\* The rows of the agents are none, or a configuration that hangs together.
AgentsWhole ==
  /\ agents = NoRows \/ Normal(agents)
  /\ saved # None => agents = saved /\ Normal(agents)
  /\ At("seeding") => ~Seeded(agents)
  /\ At("listening") => Normal(agents)

\* A start is refused for a reason that is still there.
RefusedForCause ==
  At("refused") =>
    torn # {} \/ (file \in Files /\ \E s \in Settings : file.values[s] = "bad")

IInv == TypeOK /\ FileKept /\ LedgerTrue /\ AgentsWhole /\ RefusedForCause

-----------------------------------------------------------------------------
(* Lemmas about the operators.                                             *)

USE DEF At, GoTo

\* A set of numbers that is not empty has a least one.
LEMMA LeastOf ==
  ASSUME NEW S, S \subseteq Nat, S # {}
  PROVE  Least(S) \in S /\ \A j \in S : Least(S) <= j
  <1> DEFINE R == OpToRel(<, Nat)
  <1>1. IsWellFoundedOn(R, Nat)
    BY NatLessThanWellFounded
  <1>2. R = {ss \in Nat \X Nat : ss[1] < ss[2]}
    BY DEF OpToRel
  <1> HIDE DEF R
  <1>3. PICK i \in S : \A j \in S : ~ (<<j, i>> \in R)
    BY <1>1, WFMin
  <1>4. ASSUME NEW j \in S PROVE i <= j
    <2>1. j \in Nat /\ i \in Nat /\ ~(<<j, i>> \in R)
      BY <1>3
    <2>2. ~(j < i)
      BY <1>2, <2>1
    <2> QED
      BY <2>1, <2>2
  <1> QED
    BY <1>4 DEF Least

\* The next migration to run is one that is not recorded.
LEMMA NextScript ==
  ASSUME Missing # {}
  PROVE  Least(Missing) \in 1..Scripts /\ Least(Missing) \notin ledger
  <1>1. Missing \subseteq Nat
    BY DEF Missing
  <1>2. Least(Missing) \in Missing
    BY <1>1, LeastOf
  <1> QED
    BY <1>2 DEF Missing

\* What a partial function is.
LEMMA Partial ==
  ASSUME NEW S, NEW T
  PROVE  /\ \A f \in PartialFunctions(S, T) : DOMAIN f \subseteq S /\ f \in [DOMAIN f -> T]
         /\ \A D \in SUBSET S : \A f \in [D -> T] : f \in PartialFunctions(S, T)
  BY DEF PartialFunctions

LEMMA NoRowsType == NoRows \in Drafts /\ ~Seeded(NoRows)
  <1>1. \A T : <<>> \in [{} -> T]
    OBVIOUS
  <1>2. \A S, T : <<>> \in PartialFunctions(S, T)
    BY <1>1, Partial
  <1> QED
    BY <1>2 DEF NoRows, Drafts, Seeded

\* The defaults are a configuration that hangs together.
LEMMA DefaultType == DefaultConfiguration \in Drafts /\ Normal(DefaultConfiguration)
  <1> DEFINE p == CHOOSE p \in Providers : TRUE
             m == CHOOSE m \in Models : TRUE
             models == [x \in {m} |-> p]
             roles == [r \in AgentRoles |-> m]
  <1>1. p \in Providers /\ m \in Models
    BY AgentAssumption
  <1> HIDE DEF p, m
  <1>2. models \in [{m} -> Providers] /\ roles \in [AgentRoles -> Models]
    BY <1>1
  <1>3. models \in PartialFunctions(Models, Providers) /\ roles \in PartialFunctions(AgentRoles, Models)
    BY <1>1, <1>2, Partial
  <1>4. DefaultConfiguration = [providers |-> {p}, models |-> models, roles |-> roles]
    BY DEF DefaultConfiguration, p, m
  <1>5. DefaultConfiguration \in Drafts
    BY <1>1, <1>3, <1>4 DEF Drafts
  <1>6. DOMAIN models = {m} /\ Range(models) = {p} /\ models # <<>>
    BY DEF Range
  <1>7. /\ DOMAIN roles = AgentRoles /\ Range(roles) \subseteq {m}
        /\ "project_manager" \in AgentRoles
    BY DEF Range, AgentRoles
  <1>8. Cardinality(AgentRoles) >= 2
    <2>1. Cardinality(Specialists) \in Nat /\ Cardinality(Specialists) # 0
      BY AgentAssumption, FS_CardinalityType, FS_EmptySet
    <2>2. Cardinality(AgentRoles) = Cardinality(Specialists) + 1
      BY AgentAssumption, FS_AddElement DEF AgentRoles
    <2> QED
      BY <2>1, <2>2
  <1> HIDE DEF models, roles
  <1> QED
    BY <1>4, <1>5, <1>6, <1>7, <1>8 DEF Normal, NormalProviders, NormalModels, NormalRoles

LEMMA NormalIsSeeded ==
  ASSUME NEW d, Normal(d)
  PROVE  Seeded(d)
  BY DEF Normal, NormalProviders, NormalModels, NormalRoles, Seeded

\* A configuration that hangs together is enough for the planner.
LEMMA NormalPlans ==
  ASSUME NEW d \in Drafts, Normal(d)
  PROVE  CanPlan(d)
  <1> DEFINE S == DOMAIN d.roles \ {"project_manager"}
  <1>1. /\ DOMAIN d.roles \subseteq AgentRoles /\ DOMAIN d.models \subseteq Models
        /\ \A command : PlannedRoles(command, d) = SelectedRoles(command, S)
    BY Partial DEF Drafts, PlannedRoles, Normal, NormalRoles
  <1>2. S # {}
    <2>1. IsFiniteSet(AgentRoles)
      BY AgentAssumption, FS_AddElement DEF AgentRoles
    <2>2. IsFiniteSet(DOMAIN d.roles) /\ Cardinality(DOMAIN d.roles) >= 2
      BY <1>1, <2>1, FS_Subset DEF Normal, NormalRoles
    <2>3. Cardinality(S) = Cardinality(DOMAIN d.roles) - 1
      BY <2>2, FS_RemoveElement DEF Normal, NormalRoles
    <2>4. Cardinality(S) # 0
      BY <2>2, <2>3, FS_CardinalityType
    <2> QED
      BY <2>4, FS_EmptySet
  <1>3. \A command \in Commands : SelectedRoles(command, S) \subseteq S
    BY DEF Commands, SelectedRoles, Integrators
  <1>4. SelectedRoles("plan", S) # {} /\ SelectedRoles("integrate", S) # {}
    BY <1>2 DEF SelectedRoles
  <1>5. ASSUME NEW r \in S
        PROVE  d.roles[r] \in DOMAIN d.models /\ d.models[d.roles[r]] \in d.providers
    BY <1>5 DEF Normal, NormalRoles, NormalModels, Range
  <1> QED
    BY <1>1, <1>3, <1>4, <1>5 DEF CanPlan

-----------------------------------------------------------------------------
(* Initial states.                                                         *)

LEMMA InitIInv == Init => IInv
  <1> SUFFICES ASSUME Init PROVE IInv
    OBVIOUS
  <1> USE StartUpAssumption, FilesAssumption
  <1>1. DefaultFile \in Files
    BY DEF DefaultFile, Files, Values
  <1>2. file \in Files \cup {Absent} /\ chosen \subseteq Settings
    BY DEF Init, Files, Values, Own
  <1>3. PICK n \in {0} \cup Sentinels :
          FirstTables(n) /\ agents \in IF n >= 2 THEN {NoRows, DefaultConfiguration} ELSE {NoRows}
    BY DEF Init, FirstTables
  <1>4. TypeOK
    <2>1. tables \in [1..Scripts -> {"none", "part", "whole"}]
      BY <1>3 DEF FirstTables
    <2>2. agents \in Drafts
      BY <1>3, NoRowsType, DefaultType
    <2>3. /\ config \in Files /\ pc \in Steps /\ events \in 0..MaxEvents
          /\ ledger = None /\ saved = None /\ torn = {}
      BY <1>1 DEF Init, Steps
    <2> QED
      BY <1>2, <2>1, <2>2, <2>3 DEF TypeOK
  <1>5. FileKept
    <2>1. file \in Files => chosen = Own(file)
      <3>1. Absent \notin Files
        OBVIOUS
      <3> QED
        BY <3>1 DEF Init
    <2>2. file = Absent => chosen = {}
      <3>1. ASSUME NEW v \in 0..Target, NEW vals \in [Settings -> {"unset", "own"}],
                   file = [version |-> v, values |-> vals]
            PROVE  file \in Files
        BY <3>1 DEF Files, Values
      <3> QED
        BY <3>1 DEF Init
    <2>3. file # Torn /\ pc = "down"
      BY <1>2 DEF Init
    <2> QED
      BY <2>1, <2>2, <2>3 DEF FileKept
  <1>6. LedgerTrue
    BY <1>3 DEF Init, LedgerTrue, OldDatabase
  <1>7. AgentsWhole /\ RefusedForCause
    BY <1>3, DefaultType DEF Init, AgentsWhole, RefusedForCause
  <1> QED
    BY <1>4, <1>5, <1>6, <1>7 DEF IInv

-----------------------------------------------------------------------------
(* Types.                                                                  *)

\* What a start makes of a file of the right type is one.
LEMMA MergedType ==
  ASSUME NEW f \in Files
  PROVE  Merged(Migrated(f)) \in Files /\ Own(f) \subseteq Own(Merged(Migrated(f)))
  <1> USE StartUpAssumption
  <1>1. Migrated(f) \in Files /\ Migrated(f).values = f.values
    BY DEF Migrated, Files, ExistingVersion
  <1>2. ASSUME NEW g \in Files
        PROVE  Merged(g) \in Files /\ Own(g) \subseteq Own(Merged(g))
    BY DEF Merged, Files, Values, Own
  <1> QED
    BY <1>1, <1>2 DEF Own

\* An edit leaves a file of the right type, or none.
LEMMA EditedType ==
  ASSUME TypeOK, EditFile
  PROVE  file' \in Files \cup {Absent}
  <1>1. ASSUME NEW s \in Settings, NEW v \in Values, file \in Files,
               file' = [file EXCEPT !.values[s] = v]
        PROVE  file' \in Files
    BY <1>1 DEF Files
  <1>2. ASSUME NEW v \in {"unset", "own"},
               file' = [version |-> 0, values |-> [s \in Settings |-> v]]
        PROVE  file' \in Files
    BY <1>2, StartUpAssumption DEF Files, Values
  <1> QED
    BY <1>1, <1>2 DEF EditFile

LEMMA TypeStep ==
  ASSUME TypeOK, LedgerTrue, [Next]_vars
  PROVE  TypeOK'
  <1> USE StartUpAssumption DEF disk, History
  <1>1. CASE Begin
    BY <1>1 DEF TypeOK, Begin, Steps
  <1>2. CASE ReadFile
    <2>1. DefaultFile \in Files
      BY DEF DefaultFile, Files, Values
    <2>2. config' \in Files
      BY <1>2, <2>1, MergedType DEF TypeOK, ReadFile
    <2>3. pc' \in Steps
      BY <1>2 DEF ReadFile, Steps
    <2> QED
      BY <1>2, <2>2, <2>3 DEF TypeOK, ReadFile
  <1>3. CASE Truncate \/ WriteFile
    BY <1>3 DEF TypeOK, Truncate, WriteFile, Steps
  <1>4. CASE OpenLedger
    BY <1>4 DEF TypeOK, OpenLedger, Steps
  <1>5. CASE Recognise
    <2>1. CASE Unrecognised = {}
      BY <1>5, <2>1 DEF TypeOK, Recognise, Steps
    <2>2. CASE Unrecognised # {}
      <3>1. Unrecognised \subseteq 1..Scripts /\ Unrecognised \subseteq Nat
        BY DEF Unrecognised
      <3>2. Least(Unrecognised) \in 1..Scripts
        BY <2>2, <3>1, LeastOf
      <3>3. ledger' \in SUBSET (1..Scripts)
        BY <1>5, <2>2, <3>2 DEF TypeOK, Recognise, LedgerTrue
      <3> QED
        BY <1>5, <2>2, <3>3 DEF TypeOK, Recognise
    <2> QED
      BY <2>1, <2>2
  <1>6. CASE Execute \/ Finish
    <2>1. CASE Execute /\ Missing = {}
      BY <2>1 DEF TypeOK, Execute, Steps
    <2>2. CASE Missing # {} /\ Execute
      BY <2>2, NextScript DEF TypeOK, Execute, Steps
    <2>3. CASE Finish
      BY <2>3 DEF TypeOK, Finish, Steps, LedgerTrue
    <2> QED
      BY <1>6, <2>1, <2>2, <2>3
  <1>7. CASE Mark
    <2>1. Least(Missing) \in 1..Scripts /\ ledger \in SUBSET (1..Scripts)
      BY <1>7, NextScript DEF TypeOK, Mark, LedgerTrue
    <2> QED
      BY <1>7, <2>1 DEF TypeOK, Mark, Steps
  <1>8. CASE CountRows \/ Seed
    BY <1>8, DefaultType DEF TypeOK, CountRows, Seed, Steps
  <1>9. ASSUME NEW draft \in Drafts, SaveAgentConfiguration(draft)
        PROVE  TypeOK'
    BY <1>9 DEF TypeOK, SaveAgentConfiguration, Spend
  <1>10. CASE EditFile
    <2>1. file' \in Files \cup {Absent}
      BY <1>10, EditedType
    <2>2. chosen' \subseteq Settings
      BY <1>10 DEF EditFile, Own
    <2> QED
      BY <1>10, <2>1, <2>2 DEF TypeOK, EditFile, Spend, Steps
  <1>11. CASE Kill
    BY <1>11 DEF TypeOK, Kill, HalfDone, Spend, Steps
  <1>12. CASE UNCHANGED vars
    BY <1>12 DEF TypeOK, vars
  <1> QED
    BY <1>1, <1>2, <1>3, <1>4, <1>5, <1>6, <1>7, <1>8, <1>9, <1>10, <1>11, <1>12 DEF Next, Start

-----------------------------------------------------------------------------
(* The configuration file.                                                 *)

LEMMA FileStep ==
  ASSUME TypeOK, FileKept, [Next]_vars
  PROVE  FileKept'
  <1> USE StartUpAssumption, FilesAssumption DEF disk, History
  <1>1. CASE ReadFile
    <2>1. CASE file = Absent
      BY <1>1, <2>1 DEF ReadFile, FileKept
    <2>2. CASE file = Torn
      BY <1>1, <2>2 DEF ReadFile, FileKept
    <2>3. CASE file \in Files
      BY <1>1, <2>3, MergedType DEF ReadFile, FileKept
    <2> QED
      BY <2>1, <2>2, <2>3 DEF TypeOK
  <1>2. CASE Truncate
    BY <1>2 DEF FileKept, Truncate, Own
  <1>3. CASE WriteFile
    <2>1. file' = config /\ config \in Files /\ pc' = "opening" /\ chosen' = chosen
      BY <1>3 DEF WriteFile, TypeOK
    <2>2. chosen \subseteq Own(config) /\ file' \notin {Absent, Torn}
      BY <1>3, <2>1 DEF FileKept, WriteFile
    <2> QED
      BY <2>1, <2>2 DEF FileKept, Own
  <1>4. CASE EditFile
    <2>1. file' # Torn
      BY <1>4, EditedType
    <2>2. chosen' = IF file' = Absent THEN {} ELSE Own(file')
      BY <1>4 DEF EditFile
    <2>3. pc' \notin {"truncating", "writing"}
      BY <1>4 DEF EditFile
    <2> QED
      BY <2>1, <2>2, <2>3 DEF FileKept, Own
  <1>5. CASE Kill
    BY <1>5 DEF FileKept, Kill, HalfDone
  <1>6. ASSUME UNCHANGED <<file, config, chosen, torn>>,
               pc' \notin {"truncating", "writing"}, pc # "writing"
        PROVE  FileKept'
    BY <1>6 DEF FileKept, Own
  <1>7. CASE Begin \/ OpenLedger \/ Recognise \/ Execute \/ Finish \/ Mark \/ CountRows \/ Seed
    BY <1>6, <1>7 DEF Begin, OpenLedger, Recognise, Execute, Finish, Mark, CountRows, Seed
  <1>8. ASSUME NEW draft \in Drafts, SaveAgentConfiguration(draft)
        PROVE  FileKept'
    BY <1>6, <1>8 DEF SaveAgentConfiguration
  <1>9. CASE UNCHANGED vars
    BY <1>9 DEF FileKept, vars, Own
  <1> QED
    BY <1>1, <1>2, <1>3, <1>4, <1>5, <1>7, <1>8, <1>9 DEF Next, Start

-----------------------------------------------------------------------------
(* The agent configuration.                                                *)

LEMMA AgentsStep ==
  ASSUME TypeOK, AgentsWhole, [Next]_vars
  PROVE  AgentsWhole'
  <1> USE StartUpAssumption DEF disk, History
  <1>1. CASE CountRows
    BY <1>1, NoRowsType, NormalIsSeeded DEF CountRows, AgentsWhole
  <1>2. CASE Seed
    <2>1. saved = None
      BY <1>2, NormalIsSeeded DEF Seed, AgentsWhole
    <2> QED
      BY <1>2, <2>1, DefaultType DEF Seed, AgentsWhole
  <1>3. ASSUME NEW draft \in Drafts, SaveAgentConfiguration(draft)
        PROVE  AgentsWhole'
    BY <1>3 DEF SaveAgentConfiguration, AgentsWhole
  <1>4. ASSUME UNCHANGED <<agents, saved>>, pc' \notin {"seeding", "listening"} \/ pc' = pc
        PROVE  AgentsWhole'
    BY <1>4 DEF AgentsWhole
  <1>5. CASE \/ Begin \/ ReadFile \/ Truncate \/ WriteFile \/ OpenLedger \/ Recognise
             \/ Execute \/ Finish \/ Mark \/ EditFile \/ Kill
    BY <1>4, <1>5 DEF Begin, ReadFile, Truncate, WriteFile, OpenLedger, Recognise, Execute,
                      Finish, Mark, EditFile, Kill
  <1>6. CASE UNCHANGED vars
    BY <1>4, <1>6 DEF vars
  <1> QED
    BY <1>1, <1>2, <1>3, <1>5, <1>6 DEF Next, Start

-----------------------------------------------------------------------------
(* The migrations.                                                         *)

\* Steps that leave the tables and the ledger alone.
LEMMA SameSchema ==
  ASSUME LedgerTrue, UNCHANGED <<tables, ledger>>, torn' = torn \/ torn' = torn \ {"file"},
         \/ pc' = pc
         \/ /\ pc \in {"down", "refused", "reading", "truncating", "writing"}
            /\ pc' \in {"down", "refused", "reading", "truncating", "writing", "opening"}
         \/ /\ pc \in {"counting", "seeding"}
            /\ pc' \in {"counting", "seeding", "listening"}
  PROVE  LedgerTrue'
  BY DEF LedgerTrue, OldDatabase, FirstTables, NoRemains, Missing

LEMMA OpenLedgerTrue ==
  ASSUME TypeOK, LedgerTrue, OpenLedger
  PROVE  LedgerTrue'
  <1> USE StartUpAssumption
  <1>1. CASE ledger # None
    BY <1>1 DEF TypeOK, OpenLedger, LedgerTrue, NoRemains, Missing, History
  <1>2. CASE ledger = None
    <2>1. PICK n \in {0} \cup Sentinels : FirstTables(n)
      BY <1>2 DEF LedgerTrue, OldDatabase
    <2>2. n \in 0..Scripts
      BY <2>1
    <2>3. HasTable(1) <=> n >= 1
      BY <2>1, <2>2 DEF HasTable, FirstTables
    <2>4. ~HasTable(1) => NoRemains(1..Scripts)
      BY <2>1, <2>2, <2>3 DEF NoRemains, FirstTables
    <2>5. /\ ledger' = {} /\ Missing' = 1..Scripts /\ UNCHANGED <<tables, torn>>
          /\ pc' = IF HasTable(1) THEN "recognising" ELSE "executing"
      BY <1>2 DEF OpenLedger, Missing, History
    <2>6. OldDatabase'
      BY <2>1, <2>5 DEF OldDatabase, FirstTables
    <2> QED
      BY <2>4, <2>5, <2>6 DEF LedgerTrue, NoRemains
  <1> QED
    BY <1>1, <1>2

\* All that an old database has is recorded once nothing is left to recognise.
LEMMA OldRecognised ==
  ASSUME OldDatabase, Unrecognised = {}
  PROVE  NoRemains(Missing)
  <1> USE StartUpAssumption
  <1>1. PICK n \in {0} \cup Sentinels : FirstTables(n)
    BY DEF OldDatabase
  <1>2. \A i \in 1..Scripts : tables[i] = IF i <= n THEN "whole" ELSE "none"
    BY <1>1 DEF FirstTables
  <1>3. ASSUME NEW i \in Missing
        PROVE  tables[i] = "none"
    <2>1. i \in 1..Scripts /\ i \notin ledger
      BY DEF Missing
    <2>2. i <= n => i \in Sentinels
      BY <2>1
    <2> QED
      BY <1>2, <2>1, <2>2 DEF Unrecognised, HasTable
  <1> QED
    BY <1>3 DEF NoRemains

LEMMA RecogniseTrue ==
  ASSUME TypeOK, LedgerTrue, Recognise
  PROVE  LedgerTrue'
  <1> USE StartUpAssumption
  <1>1. PICK n \in {0} \cup Sentinels : FirstTables(n)
    BY DEF Recognise, LedgerTrue, OldDatabase
  <1>2. ledger # None /\ ledger \subseteq 1..Scripts /\ UNCHANGED <<tables, torn>>
    BY DEF Recognise, LedgerTrue, TypeOK, History
  <1>3. \A i \in 1..Scripts : tables[i] = IF i <= n THEN "whole" ELSE "none"
    BY <1>1 DEF FirstTables
  <1>4. CASE Unrecognised = {}
    <2>1. NoRemains(Missing)
      BY <1>4, OldRecognised DEF Recognise, LedgerTrue
    <2>2. pc' = "executing" /\ ledger' = ledger
      BY <1>4 DEF Recognise
    <2> QED
      BY <1>2, <2>1, <2>2 DEF LedgerTrue, NoRemains, Missing
  <1>5. CASE Unrecognised # {}
    <2>1. Unrecognised \subseteq Nat
      BY DEF Unrecognised
    <2>2. Least(Unrecognised) \in Unrecognised
      BY <1>5, <2>1, LeastOf
    <2>3. tables[Least(Unrecognised)] = "whole" /\ Least(Unrecognised) \in 1..Scripts
      BY <1>3, <2>2 DEF Unrecognised, HasTable
    <2>4. pc' = "recognising" /\ ledger' = ledger \cup {Least(Unrecognised)}
      BY <1>5 DEF Recognise
    <2>5. \A i \in ledger' : tables'[i] = "whole"
      BY <1>2, <2>3, <2>4 DEF LedgerTrue
    <2>6. ledger' # None /\ OldDatabase'
      BY <1>1, <1>2, <2>3, <2>4 DEF OldDatabase, FirstTables
    <2> QED
      BY <2>4, <2>5, <2>6 DEF LedgerTrue
  <1> QED
    BY <1>4, <1>5

LEMMA ExecuteTrue ==
  ASSUME TypeOK, LedgerTrue, Execute
  PROVE  LedgerTrue'
  <1> USE StartUpAssumption DEF History
  <1>1. ledger # None /\ ledger \in SUBSET (1..Scripts) /\ UNCHANGED <<ledger, torn>>
    BY DEF Execute, LedgerTrue, TypeOK
  <1>2. "database" \notin torn => NoRemains(Missing)
    BY <1>1 DEF LedgerTrue, Execute
  <1>3. CASE Missing = {}
    BY <1>1, <1>3 DEF LedgerTrue, Execute, Missing, NoRemains
  <1>4. CASE Missing # {} /\ HasTable(Least(Missing))
    BY <1>1, <1>2, <1>4 DEF LedgerTrue, Execute, Missing, NoRemains
  <1>5. CASE Missing # {} /\ ~HasTable(Least(Missing))
    <2> DEFINE next == Least(Missing)
    <2>1. next \in 1..Scripts /\ next \notin ledger
      BY <1>5, NextScript
    <2>2. tables' = [tables EXCEPT ![next] = "part"] /\ pc' = "finishing"
      BY <1>5 DEF Execute
    <2>3. Missing' = Missing
      BY <1>1 DEF Missing
    <2> HIDE DEF next
    <2>4. tables'[next] = "part" /\ \A i \in 1..Scripts : i # next => tables'[i] = tables[i]
      BY <2>1, <2>2 DEF TypeOK
    <2>5. \A i \in ledger : tables'[i] = "whole"
      BY <1>1, <2>1, <2>4 DEF LedgerTrue
    <2>6. "database" \notin torn => \A i \in Missing \ {next} : tables'[i] = "none"
      BY <1>2, <2>4 DEF NoRemains, Missing
    <2>7. next = Least(Missing)
      BY DEF next
    <2> QED
      BY <1>1, <1>5, <2>2, <2>3, <2>4, <2>5, <2>6, <2>7 DEF LedgerTrue, NoRemains
  <1> QED
    BY <1>3, <1>4, <1>5

LEMMA FinishTrue ==
  ASSUME TypeOK, LedgerTrue, Finish
  PROVE  LedgerTrue'
  <1> USE StartUpAssumption DEF History
  <1> DEFINE next == Least(Missing)
  <1>1. ledger # None /\ ledger \in SUBSET (1..Scripts) /\ UNCHANGED <<ledger, torn>>
    BY DEF Finish, LedgerTrue, TypeOK
  <1>2. Missing # {} /\ next \in 1..Scripts /\ next \notin ledger
    BY NextScript DEF Finish, LedgerTrue
  <1>3. tables' = [tables EXCEPT ![next] = "whole"] /\ pc' = "marking"
    BY DEF Finish
  <1>4. Missing' = Missing /\ next' = next
    BY <1>1 DEF Missing, Least
  <1>5. "database" \notin torn => NoRemains(Missing \ {next})
    BY <1>1 DEF LedgerTrue, Finish
  <1>6. next = Least(Missing)
    OBVIOUS
  <1> HIDE DEF next
  <1>7. tables'[next] = "whole" /\ \A i \in 1..Scripts : i # next => tables'[i] = tables[i]
    BY <1>2, <1>3 DEF TypeOK
  <1>8. \A i \in ledger : tables'[i] = "whole"
    BY <1>1, <1>2, <1>7 DEF LedgerTrue
  <1>9. "database" \notin torn => \A i \in Missing \ {next} : tables'[i] = "none"
    BY <1>5, <1>7 DEF NoRemains, Missing
  <1> QED
    BY <1>1, <1>2, <1>3, <1>4, <1>6, <1>7, <1>8, <1>9 DEF LedgerTrue, NoRemains

LEMMA MarkTrue ==
  ASSUME TypeOK, LedgerTrue, Mark
  PROVE  LedgerTrue'
  <1> USE StartUpAssumption DEF History
  <1> DEFINE next == Least(Missing)
  <1>1. ledger # None /\ ledger \in SUBSET (1..Scripts) /\ UNCHANGED <<tables, torn>>
    BY DEF Mark, LedgerTrue, TypeOK
  <1>2. tables[next] = "whole" /\ next \in 1..Scripts
    BY NextScript DEF Mark, LedgerTrue
  <1>3. ledger' = ledger \cup {next} /\ pc' = "executing"
    BY DEF Mark
  <1>4. "database" \notin torn => NoRemains(Missing \ {next})
    BY <1>1 DEF LedgerTrue, Mark
  <1> HIDE DEF next
  <1>5. ledger' # None /\ Missing' = Missing \ {next}
    BY <1>1, <1>2, <1>3 DEF Missing
  <1>6. \A i \in ledger' : tables'[i] = "whole"
    BY <1>1, <1>2, <1>3 DEF LedgerTrue
  <1> QED
    BY <1>1, <1>3, <1>4, <1>5, <1>6 DEF LedgerTrue, NoRemains

\* A kill inside a window counts as damage; anywhere else it leaves nothing
\* that the ledger does not know.
LEMMA KillTrue ==
  ASSUME TypeOK, LedgerTrue, Kill
  PROVE  LedgerTrue'
  <1> USE StartUpAssumption DEF disk
  <1>1. pc' = "down" /\ UNCHANGED <<tables, ledger>> /\ torn' = torn \cup HalfDone
    BY DEF Kill
  <1>2. Missing' = Missing
    BY <1>1 DEF Missing
  <1>3. ASSUME ledger # None, "database" \notin torn'
        PROVE  NoRemains(Missing)
    <2>1. "database" \notin torn /\ "database" \notin HalfDone
      BY <1>1, <1>3
    <2>2. pc \notin {"finishing", "marking"}
      BY <2>1 DEF HalfDone
    <2>3. CASE pc = "recognising"
      BY <2>1, <2>3, OldRecognised DEF HalfDone, LedgerTrue
    <2>4. CASE pc # "recognising"
      BY <1>3, <2>1, <2>2, <2>4 DEF LedgerTrue
    <2> QED
      BY <2>3, <2>4
  <1> QED
    BY <1>1, <1>2, <1>3 DEF LedgerTrue, OldDatabase, FirstTables, NoRemains

LEMMA LedgerStep ==
  ASSUME TypeOK, LedgerTrue, [Next]_vars
  PROVE  LedgerTrue'
  <1> USE DEF disk, History
  <1>1. CASE Begin \/ ReadFile \/ Truncate \/ WriteFile \/ CountRows \/ Seed \/ EditFile
    BY <1>1, SameSchema DEF Begin, ReadFile, Truncate, WriteFile, CountRows, Seed, EditFile
  <1>2. ASSUME NEW draft \in Drafts, SaveAgentConfiguration(draft)
        PROVE  LedgerTrue'
    BY <1>2, SameSchema DEF SaveAgentConfiguration
  <1>3. CASE UNCHANGED vars
    BY <1>3, SameSchema DEF vars
  <1> QED
    BY <1>1, <1>2, <1>3, OpenLedgerTrue, RecogniseTrue, ExecuteTrue, FinishTrue, MarkTrue,
       KillTrue DEF Next, Start

\* The start that is refused finds a bad setting, a torn file or a script that
\* was begun and not recorded.
LEMMA RefusedStep ==
  ASSUME IInv, [Next]_vars
  PROVE  RefusedForCause'
  <1> USE StartUpAssumption, FilesAssumption DEF disk, History
  <1>1. CASE ReadFile
    <2>1. CASE file = Torn
      BY <1>1, <2>1 DEF ReadFile, IInv, FileKept, RefusedForCause
    <2>2. CASE file \in Files /\ ~IsSupported(file)
      <3>1. \E s \in Settings : file.values[s] = "bad"
        BY <2>2 DEF IsSupported, Files
      <3> QED
        BY <1>1, <2>2, <3>1 DEF ReadFile, RefusedForCause
    <2>3. CASE file = Absent \/ (file \in Files /\ IsSupported(file))
      BY <1>1, <2>3 DEF ReadFile, RefusedForCause
    <2> QED
      BY <2>1, <2>2, <2>3 DEF IInv, TypeOK
  <1>2. CASE Execute
    <2>1. ASSUME Missing # {}, HasTable(Least(Missing))
          PROVE  "database" \in torn
      <3>1. ledger # None /\ Least(Missing) \in Missing
        BY <1>2, <2>1, NextScript DEF IInv, LedgerTrue, Execute, Missing
      <3> QED
        BY <1>2, <2>1, <3>1 DEF IInv, LedgerTrue, Execute, NoRemains, HasTable
    <2> QED
      BY <1>2, <2>1 DEF Execute, RefusedForCause
  <1>3. CASE \/ Begin \/ Truncate \/ WriteFile \/ OpenLedger \/ Recognise \/ Finish \/ Mark
             \/ CountRows \/ Seed \/ EditFile \/ Kill
    BY <1>3 DEF Begin, Truncate, WriteFile, OpenLedger, Recognise, Finish, Mark, CountRows,
                Seed, EditFile, Kill, RefusedForCause
  <1>4. ASSUME NEW draft \in Drafts, SaveAgentConfiguration(draft)
        PROVE  RefusedForCause'
    BY <1>4 DEF SaveAgentConfiguration, RefusedForCause
  <1>5. CASE UNCHANGED vars
    BY <1>5 DEF vars, IInv, RefusedForCause
  <1> QED
    BY <1>1, <1>2, <1>3, <1>4, <1>5 DEF Next, Start

-----------------------------------------------------------------------------
(* The theorems.                                                           *)

\* The inductive invariant holds throughout.
THEOREM Invariance == Spec => []IInv
  <1>1. IInv /\ [Next]_vars => IInv'
    BY TypeStep, FileStep, LedgerStep, AgentsStep, RefusedStep DEF IInv
  <1> QED
    BY <1>1, InitIInv, PTL DEF Spec

\* The disk and the start in hand keep values of their types.
THEOREM TypeCorrect == Spec => []TypeOK
  <1>1. IInv => TypeOK
    BY DEF IInv
  <1> QED
    BY <1>1, Invariance, PTL

\* Whatever a kill leaves outside the three windows is made good by the next
\* start, for any number of migrations, starts and kills; a start that gets
\* through has every migration in place and recorded and agents that can plan.
THEOREM StartsMadeGood == Spec => []StartsAreMadeGood
  <1>1. IInv => StartsAreMadeGood
    <2> SUFFICES ASSUME IInv PROVE StartsAreMadeGood
      OBVIOUS
    <2>1. At("refused") =>
            torn # {} \/ (file \in Files /\ \E s \in Settings : file.values[s] = "bad")
      BY DEF IInv, RefusedForCause
    <2>2. At("listening") =>
            /\ ledger = 1..Scripts /\ \A i \in 1..Scripts : tables[i] = "whole"
            /\ CanPlan(agents)
      BY StartUpAssumption, NormalPlans DEF IInv, TypeOK, LedgerTrue, AgentsWhole
    <2> QED
      BY <2>1, <2>2 DEF StartsAreMadeGood
  <1> QED
    BY <1>1, Invariance, PTL

\* No start, kill, upgrade or seed, in any number and order, loses a setting of
\* the user's that is in a readable file, or the agents saved last.
THEOREM ChoicesKept == Spec => []ChoicesSurvive
  <1>1. IInv => ChoicesSurvive
    BY DEF IInv, FileKept, AgentsWhole, ChoicesSurvive
  <1> QED
    BY <1>1, Invariance, PTL

=============================================================================
