------------------------------ MODULE StartUp ------------------------------
(***************************************************************************)
(* What `orqis init` does to the disk before it serves, and what a kill    *)
(* between two steps leaves for the next start: the configuration file     *)
(* (apps/cli/src/config.ts), the schema of the database with the ledger of *)
(* its migrations, and the seed of the agent configuration                 *)
(* (apps/web/src/persistence.ts).  A start is killed by the user, by the   *)
(* system, or by the command itself when the runtime takes too long to     *)
(* come up.  One start at a time.                                          *)
(*                                                                         *)
(* Writing a file truncates it first.  A migration is a script of          *)
(* statements that each commit by themselves; the ledger is another one.   *)
(* A save of the agent configuration is one transaction.                   *)
(***************************************************************************)
EXTENDS AgentConfiguration

CONSTANTS
  Settings,    \* leaves of the configuration that have a default
  Target,      \* the schema version this CLI writes
  Scripts,     \* the migrations are 1 to this number
  Sentinels,   \* the first migrations, which a database without a ledger may have had
  MaxEvents,   \* bound: kills, edits and saves
  Absent, Torn, \* a file that is not there, or truncated and not written
  None

ASSUME StartUpAssumption ==
  /\ Target \in Nat \ {0} /\ Scripts \in Nat \ {0} /\ MaxEvents \in Nat
  /\ \E last \in 0..Scripts : Sentinels = 1..last
  /\ None \notin Drafts /\ \A records \in SUBSET (1..Scripts) : records # None
  /\ Absent # Torn

VARIABLES
  file,    \* config.json
  config,  \* the configuration the start has in hand
  tables,  \* how much of each migration is in the database
  ledger,  \* the recorded migrations, or None before there is a ledger
  agents,  \* the rows of the agent configuration
  pc,      \* where the start is
  chosen,  \* history: settings the user has set
  saved,   \* history: the agent configuration the user has saved
  torn,    \* history: what kills at the wrong moment have damaged
  events   \* how many outside events there have been

disk == <<file, tables, ledger, agents>>

vars == <<file, config, tables, ledger, agents, pc, chosen, saved, torn, events>>

-----------------------------------------------------------------------------

\* A setting is missing, of the wrong shape, the default or the user's own.
Values == {"unset", "bad", "default", "own"}

\* Version 0 stands for a file without one, which is read as the baseline.
Files == [version : 0..Target, values : [Settings -> Values]]

ASSUME FilesAssumption == {Absent, Torn} \cap Files = {}

Steps ==
  {"down", "refused", "reading", "truncating", "writing", "opening", "recognising",
   "executing", "finishing", "marking", "counting", "seeding", "listening"}

TypeOK ==
  /\ file \in Files \cup {Absent, Torn} /\ config \in Files
  /\ tables \in [1..Scripts -> {"none", "part", "whole"}]
  /\ ledger \in {None} \cup SUBSET (1..Scripts)
  /\ agents \in Drafts
  /\ pc \in Steps
  /\ chosen \subseteq Settings /\ saved \in Drafts \cup {None}
  /\ torn \subseteq {"file", "database"} /\ events \in 0..MaxEvents

DefaultFile == [version |-> Target, values |-> [s \in Settings |-> "default"]]

Own(f) == {s \in Settings : f.values[s] = "own"}

\* A first start, one with a file of an older CLI, and databases from before
\* there was a ledger: they have the tables of some sentinels, in order, and
\* with those of the second an agent configuration.
Init ==
  /\ \/ file = Absent /\ chosen = {}
     \/ \E v \in 0..Target, vals \in [Settings -> {"unset", "own"}] :
          file = [version |-> v, values |-> vals] /\ chosen = Own(file)
  /\ config = DefaultFile
  /\ \E n \in {0} \cup Sentinels :
       /\ tables = [i \in 1..Scripts |-> IF i <= n THEN "whole" ELSE "none"]
       /\ agents \in IF n >= 2 THEN {NoRows, DefaultConfiguration} ELSE {NoRows}
  /\ ledger = None
  /\ pc = "down" /\ saved = None /\ torn = {} /\ events = 0

At(step) == pc = step

GoTo(step) == pc' = step

History == <<chosen, saved, torn, events>>

-----------------------------------------------------------------------------
(* The configuration file.                                                 *)

\* assertCompleteMigrationChain has passed: the command begins.
Begin ==
  /\ At("down") \/ At("refused")
  /\ GoTo("reading")
  /\ UNCHANGED <<disk, config, History>>

\* parseSchemaVersion
ExistingVersion(f) == IF f.version = 0 THEN 1 ELSE f.version

\* Mutant: the last migration is run once more.
MigratedOnceMore(f) == [f EXCEPT !.version = ExistingVersion(f) + 1]

\* applySchemaMigrations: a file at the target is not touched, one without a
\* version neither, unless there is something to migrate.
Migrated(f) == IF ExistingVersion(f) < Target THEN [f EXCEPT !.version = Target] ELSE f

\* Mutant: the defaults are laid over the file.
OverwrittenByDefaults(f) == DefaultFile

\* mergeMissingDefaults; the version has its default too.
Merged(f) ==
  [version |-> IF f.version = 0 THEN Target ELSE f.version,
   values |-> [s \in Settings |-> IF f.values[s] = "unset" THEN "default" ELSE f.values[s]]]

\* validateExistingConfigShape, and a version this CLI does not know.
IsSupported(f) ==
  f.version <= Target /\ \A s \in Settings : f.values[s] # "bad"

ReadFile ==
  /\ At("reading")
  /\ \/ file = Absent /\ config' = DefaultFile /\ GoTo("truncating")
     \/ file = Torn /\ GoTo("refused") /\ UNCHANGED config
     \/ /\ file \in Files
        /\ IF IsSupported(file)
           THEN /\ config' = Merged(Migrated(file))
                /\ GoTo(IF config' # file THEN "truncating" ELSE "opening")
           ELSE GoTo("refused") /\ UNCHANGED config
  /\ UNCHANGED <<disk, History>>

Truncate ==
  /\ At("truncating")
  /\ file' = Torn /\ GoTo("writing")
  /\ UNCHANGED <<config, tables, ledger, agents, History>>

WriteFile ==
  /\ At("writing")
  /\ file' = config /\ GoTo("opening")
  /\ UNCHANGED <<config, tables, ledger, agents, History>>

-----------------------------------------------------------------------------
(* The schema.                                                             *)

HasTable(i) == tables[i] # "none"

\* Opens the database and creates the ledger if it is missing; only then are
\* the migrations of an older database recognised.
OpenLedger ==
  /\ At("opening")
  /\ ledger' = IF ledger = None THEN {} ELSE ledger
  /\ GoTo(IF ledger = None /\ HasTable(1) THEN "recognising" ELSE "executing")
  /\ UNCHANGED <<file, config, tables, agents, History>>

\* Mutant: only the first tables are known to be older than the ledger.
UnrecognisedProjects == {i \in Sentinels \cap {1} : HasTable(i) /\ i \notin ledger}

Unrecognised == {i \in Sentinels : HasTable(i) /\ i \notin ledger}

Least(S) == CHOOSE i \in S : \A j \in S : i <= j

\* seedLegacySchemaMigrations, one record at a time.
Recognise ==
  /\ At("recognising")
  /\ IF Unrecognised = {} THEN GoTo("executing") /\ UNCHANGED ledger
     ELSE ledger' = ledger \cup {Least(Unrecognised)} /\ UNCHANGED pc
  /\ UNCHANGED <<file, config, tables, agents, History>>

Missing == (1..Scripts) \ ledger

\* The first statement of the next script creates a table, or finds it there.
Execute ==
  /\ At("executing")
  /\ IF Missing = {} THEN GoTo("counting") /\ UNCHANGED tables
     ELSE IF HasTable(Least(Missing)) THEN GoTo("refused") /\ UNCHANGED tables
     ELSE tables' = [tables EXCEPT ![Least(Missing)] = "part"] /\ GoTo("finishing")
  /\ UNCHANGED <<file, config, ledger, agents, History>>

Finish ==
  /\ At("finishing")
  /\ tables' = [tables EXCEPT ![Least(Missing)] = "whole"]
  /\ GoTo("marking")
  /\ UNCHANGED <<file, config, ledger, agents, History>>

\* markSchemaMigrationApplied
Mark ==
  /\ At("marking")
  /\ ledger' = ledger \cup {Least(Missing)}
  /\ GoTo("executing")
  /\ UNCHANGED <<file, config, tables, agents, History>>

-----------------------------------------------------------------------------
(* The store.                                                              *)

CountRows ==
  /\ At("counting")
  /\ GoTo(IF Seeded(agents) THEN "listening" ELSE "seeding")
  /\ UNCHANGED <<disk, config, History>>

Seed ==
  /\ At("seeding")
  /\ agents' = DefaultConfiguration /\ GoTo("listening")
  /\ UNCHANGED <<file, config, tables, ledger, History>>

Start ==
  \/ Begin \/ ReadFile \/ Truncate \/ WriteFile \/ OpenLedger \/ Recognise
  \/ Execute \/ Finish \/ Mark \/ CountRows \/ Seed

Spend == events < MaxEvents /\ events' = events + 1

\* PUT /api/settings/agent-configuration
SaveAgentConfiguration(draft) ==
  /\ Spend
  /\ At("listening") /\ Normal(draft) /\ draft # agents
  /\ agents' = draft /\ saved' = draft
  /\ UNCHANGED <<file, config, tables, ledger, pc, chosen, torn>>

-----------------------------------------------------------------------------
(* The user and the system.                                                *)

\* The user sets a setting, drops one or mistypes it, writes a broken or
\* missing file anew, or deletes it; not while a start rewrites the file.
EditFile ==
  /\ Spend
  /\ pc \in {"down", "refused", "listening"}
  /\ \/ \E s \in Settings, v \in Values \ {"default"} :
          /\ file \in Files /\ file.values[s] # v
          /\ file' = [file EXCEPT !.values[s] = v]
     \/ \E v \in {"unset", "own"} :
          /\ file \in {Torn, Absent}
          /\ file' = [version |-> 0, values |-> [s \in Settings |-> v]]
     \/ file # Absent /\ file' = Absent
  /\ chosen' = IF file' = Absent THEN {} ELSE Own(file')
  /\ torn' = torn \ {"file"}
  /\ pc' = IF At("refused") THEN "down" ELSE pc
  /\ UNCHANGED <<config, tables, ledger, agents, saved>>

\* What is half done: a file truncated and not written, a script begun and not
\* recorded, a database recognised in part.
HalfDone ==
  (IF At("writing") THEN {"file"} ELSE {}) \cup
  (IF At("finishing") \/ At("marking") \/ (At("recognising") /\ Unrecognised # {})
   THEN {"database"} ELSE {})

\* The process ends at any step, or the runtime is stopped.
Kill ==
  /\ Spend
  /\ pc \notin {"down", "refused"}
  /\ GoTo("down")
  /\ torn' = torn \cup HalfDone
  /\ chosen' = IF At("writing") THEN {} ELSE chosen
  /\ UNCHANGED <<disk, config, saved>>

Next ==
  \/ Start
  \/ \E draft \in Drafts : SaveAgentConfiguration(draft)
  \/ EditFile
  \/ Kill

Spec == Init /\ [][Next]_vars

-----------------------------------------------------------------------------
(* Properties.                                                             *)

\* A start is refused only for a setting the user has to mend or for the damage
\* of a kill inside one of the three windows; a kill anywhere else, in any number
\* of starts, is made good by the next start.  A start that is not refused ends
\* with every migration in place and recorded, and with a runtime that can plan.
StartsAreMadeGood ==
  /\ At("refused") =>
       torn # {} \/ (file \in Files /\ \E s \in Settings : file.values[s] = "bad")
  /\ At("listening") =>
       /\ ledger = 1..Scripts /\ \A i \in 1..Scripts : tables[i] = "whole"
       /\ CanPlan(agents)

\* What the user has set is still there after any number of starts, kills,
\* upgrades and seeds: the settings of the file, unless a kill has torn it, and
\* the agent configuration that was saved last.
ChoicesSurvive ==
  /\ file \in Files => chosen \subseteq Own(file)
  /\ saved # None => agents = saved

=============================================================================
