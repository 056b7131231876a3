# A TLA+ verification of orqis

orqis runs a team of agents under a project manager: a goal is planned into a
run with one task for each specialist, agents check tasks out, hand in output,
and a user approves, rejects or sends it back. The state of all that lives in
one SQLite database behind a small HTTP runtime, which a CLI starts together
with a public tunnel. This directory holds TLA+ modules that model the system
from its source, TLC configurations that model-check them, and TLAPS proofs.

`PROJECT.json` is the index: components, runs, mutants, the map from
definitions to source lines, hazards, findings and theorems. Paths below are
relative to the repository.

    tlc -config TaskWorkflowSafety.cfg MCTaskWorkflow    # and so on, see "Runs"
    tlapm TaskWorkflow_proofs.tla

## 1. Inventory

| component | source | state | operations | how it meets the others |
|---|---|---|---|---|
| Workspace store, task workflow | `apps/web/src/persistence.ts` 1614-2111, 2214-2463, 2517-3060; `packages/db/migrations/0001*.sql`, `0003*.sql` | rows of `runs`, `tasks`, `task_assignments`, `approvals` | create a plan, claim, release, submit output, decide an approval | called by the HTTP handlers; calls the claim service, the guarded-transition service and the run lifecycle |
| Task claim service | `packages/core/src/task-claim-service.ts` | none of its own; the claim columns of a task, through a repository | claim, release | compare-and-swap on a repository, suspended at every await |
| Approval-guarded transition service | `packages/core/src/approval-guarded-transition-service.ts` | none; task state, run status and approvals through a repository | transition a task, transition a run | as above |
| Run lifecycle | `packages/core/src/run-lifecycle.ts` | none | the table of allowed transitions | consulted by the two above |
| Project-manager planner | `packages/core/src/project-manager-planner-service.ts` | none | goal and roles to tasks | called by the store |
| Shared connection | `persistence.ts` 1248-1290 | one better-sqlite3 connection, its open transaction | BEGIN, statements, COMMIT, ROLLBACK | every operation of the store; claim, submission and decision hold a transaction across awaits |
| Projects, messages, agent configuration | `persistence.ts` 1293-1500, 2113-2212, 3071-3345 | rows of `projects`, `workspaces`, `messages`, `provider_configs`, `model_configs`, `agent_profiles` | create, append, save, list | one synchronous transaction each |
| Audit trail | `persistence.ts` 659-703; `packages/db/src/audit-sql-context.ts`; triggers in the migrations | `audit_events`; the current audit context | append by trigger | the context is a variable read by SQL functions |
| Schema migrations | `persistence.ts` 1040-1137; `packages/db/src/migrations.ts` | `orqis_schema_migrations` and the schema | apply on start | before anything else |
| HTTP runtime, sessions | `apps/web/src/index.ts` 164-223, 4857-6225 | map of sessions | routes | calls the store with the session's actor |
| Web client | `apps/web/src/index.ts` 239-3625 | selection, lists, drafts in the page | loads and posts | fetches from the runtime |
| Runtime process | `apps/web/src/runtime-process.ts` | stop promise | start, stop on signal or disconnect | messages to the CLI |
| Tunnel | `packages/tunnel/src/index.ts` | child process per provider | start with fallback, discover URL, stop | started by the CLI |
| CLI | `apps/cli/src/cli.ts` | the init session | start runtime, health check, tunnel, shut down | signals |
| CLI configuration, configuration editor, adapter registry, schema types | `apps/cli/src/config.ts`, `apps/web/src/agent-configuration-editor.ts`, `packages/core/src/specialist-agent-adapter-registry.ts`, `packages/db/src/schema.ts` | none, or a map | parse, validate, register | sequential |

What is hard in them, and what makes them correct:

- **Workflow.** Three tables written by separate statements must tell one story
  through any number of revisions: a task and its approval agree, a run waits
  exactly while one of its approvals is unresolved, and ends as its tasks do.
  Any run of the workspace may be named in a claim, so a task can be checked
  out under a run that is not its own. While a run waits, its other tasks are
  stuck; a refusal of the guarded run transition is swallowed
  (`persistence.ts:2044`). Nothing may pass the approval gate.
- **Claims.** One run and one owner hold a task, for good (DECISIONS.md D-008);
  the optimistic loop retries three times on fresh reads; no false success, no
  false contention.
- **Shared connection.** A transaction held across awaits is visible to, and
  can swallow, what another request does on the same connection.
- **Guarded transitions.** The service reads the approvals, awaits, and swaps on
  the state alone; it loses swaps to other writers and starts over. What it
  reports must have been so at some moment of the call, and it must not pass an
  approval it could have seen.
- **Audit.** Every change is attributed to whoever made it.
- **Start.** The configuration file, the schema and the seed are written by many
  small steps; a kill between any two of them should be made good by the next
  start, and never cost the user a choice.
- **Runtime, tunnel, CLI.** Ready messages, URLs, exits, deadlines and signals
  race; whatever comes first, a tunnel has its runtime behind it, the teardown
  is graceful unless it must be forced, and everything ends.
- **Sessions.** A handler looks up the session, then awaits the body; the
  session may be gone, replaced, or the runtime stopping, by the time it acts.
- **Client.** Loads overlap with clicks: an answer may find another project
  selected, another view open, a restored context it must not overwrite, or a
  flag another load has set.

The hazards, each at its line, are listed in `PROJECT.json`.

## 2. Modules

| module | role |
|---|---|
| `TaskLock` | abstract specification: what checking out a task promises |
| `TaskWorkflow` | the workflow of a workspace: one action per operation of the store |
| `MCTaskWorkflow` | symmetry set for model checking `TaskWorkflow` |
| `TaskClaim` | the claim service: callers interleaved at every await |
| `StoreConnection` | operations of the store interleaved at their awaits on the one connection; composes `TaskWorkflow` |
| `MCStoreConnection` | symmetry set for model checking `StoreConnection` |
| `WorkflowStates` | the states of runs, tasks and approvals, and the transition table of runs |
| `ApprovalGuard`, `MCApprovalGuard` | the guarded-transition service on its own: calls interleaved at every await with the writers of what it reads |
| `ChildProcess` | a child of the command: what the system knows, what the command has seen, and the procedure that stops it |
| `Tunnel` | fallback over the providers, and the discovery of a URL; extends `ChildProcess` |
| `CliInit`, `MCCliInit` | `orqis init` with its runtime process, its tunnel and signals; composes the two above |
| `WebRuntime` | sessions, routes and shutdown of the HTTP runtime |
| `WebClient` | the script of the page: one tab with overlapping handlers |
| `WebWorkspace`, `MCWebWorkspace` | composes page and runtime with another tab, another client and a lossy network |
| `AgentConfiguration` | the agent configuration as the store accepts it and the planner reads it |
| `StartUp` | the disk through starts and kills: configuration file, migrations, seed |
| `TaskWorkflow_proofs`, `TaskClaim_proofs`, `StoreConnection_proofs`, `ApprovalGuard_proofs`, `StartUp_proofs`, `CliInit_proofs`, `WebWorkspace_proofs` | theorems about the modules they are named for |
| `WebPage_proofs` | theorems about the page of `WebWorkspace` |

**TaskWorkflow.** `runs`, `tasks` and `approvals` are functions from ids to
rows; a row that is not in the table yet is `NoRun`, `NoTask` or `NoApproval`.
Of a timestamp column only NULL / not NULL is kept. An owner is a pair of a type and an
id in the code and a member of one of three disjoint sets of ids here. The
actions are the five operations that write these tables. An operation opens a
transaction, validates, writes and commits, or rolls back: an accepted
operation is one step, a refused one is none. The steps inside an operation are
operators named for the functions of the store (`RunAfterClaim` is
`markRunRunningAfterClaim`, and so on), and an operation composes them in the
code's order: `SubmitTaskOutput` claims the task on the way, which starts the
run named in the request, and then makes the task's own run wait, which may be
another one; `DecideTaskApproval` updates the approval first, checks the guard
on the updated table, and lets the run of the approval follow.

Not in this module: the timeline messages the operations append (nothing reads
them back), the projects and workspaces (every operation is confined to one
workspace), and the overlap of operations at their awaits (`StoreConnection`).

**TaskClaim.** One row of the claim columns and a call per caller. `Begin`
reads the row; `Refuse`, `Already` and `GiveUp` end the call on what was read;
`Swap` is the UPDATE whose WHERE clause names every column of the snapshot;
`Reread` is the fresh read after a lost swap. `SubmitOutput` and `Decide` are
the other two writers of the same columns. `met` and `moved` are history
variables for the properties: they are never read by a guard.

**StoreConnection.** The tables as a statement on the connection sees them
(`runs`, `tasks`, `approvals`), the tables as last committed (`saved`), whose
transaction is open (`tx`), and what each caller is doing (`calls`). An
operation is a chain of actions, each of which runs from one await to the next:
a claim is `BeginClaim`, `Swap` (`Reread` after a lost one), `FinishClaim`; a
submission ends in `FinishSubmit`; a decision is `BeginDecide`, `MoveTask`,
`FinishDecide`; `Refuse` and `HandleFailure` are the ways out. `Plan` has no
await. The row operators are those of `TaskWorkflow`, which is instantiated
three times: on the visible tables, on the committed ones (`Committed`), and on
the tables as a call has read them (`Seen`), whose task row may be out of date.
A release has no transaction of its own, so `Autocommit` makes its swap part of
whichever is open. The number of attempts of the claim loop is left to
`TaskClaim`: here a lost swap is retried or given up, as it comes.

**ApprovalGuard.** `state` of a task or run, the approvals, and a call per
caller. `Begin` reads the entity; `Conflict` and `Already` end the call there;
`List` reads the approvals one await later, `Blocked` ends it, `Swap` moves the
entity if it is still in the from-state, and `Reread` starts the next of three
attempts after a lost swap. `transitionTask` and `transitionRun` are the same
text apart from the transition table, and one set of actions here. `Claim`,
`Submit` and `Decide` are what the store does to the same rows in the meantime.
`facts` and `late` are history: what was true at some moment of a call, and the
approvals requested since it last read its entity.

**ChildProcess, Tunnel, CliInit.** `os`, `seen` and `stop` keep apart what a
process does, what the command has been told of it, and the promise of its stop:
`BeginStop` sends SIGTERM, `StopTimeout` sends SIGKILL, `SeeExit` delivers the
exit event. `Tunnel` walks the normalised order of providers: `SkipProvider`,
`UseConfigured`, `StartTunnelProcess`, then `PollSucceeds`, `PollFails` or the
API query `FetchUrl`/`FetchReturns`, and `CleanedUp` before the next one. The
phases of `CliInit` are those of `startOrqisInitSession` and of the teardown;
`RuntimeReady`, `RuntimeCloses` and `SeeDisconnect` are `runtime-process.ts` at
the other end of the IPC channel. `Interrupt` (Ctrl-C) reaches the whole process
group, `Terminate` only the command. One `deadline` stands for the wait in
progress, as the code never has two.

**WebRuntime, WebClient, WebWorkspace.** A request with a body is handled in two
parts, `Arrive` (session captured, body awaited) and the operation of its route;
`Expire`, `Stop` and `Closed` come in between. The store is reduced to which
projects exist and which have tasks; it may `Refuse` at any time, which also
stands for a body that does not parse. On the page a handler is a list of the
fetches it has still to make (`todo`): `Run` goes to the next fetch, `Deliver`
applies an answer to the page *as it is then*. `SelectProject`, `SetActiveView`,
`Press`, `SubmitWork`, `SignInHere` and `Reload` are the clicks that start one.
`Finally` is the `finally` block of the two submissions. `context` is what
`persistWorkspaceContext` writes to the URL and to the local storage alike; that
another tab writes the storage, too, is not modelled.
`WebWorkspace` adds the outside world and bounds it (`MaxEvents`).

**AgentConfiguration, StartUp.** A configuration is a set of providers, a
function from models to providers and one from roles to models. `Normal` is
what a save accepts, `Seeded` what a start leaves alone, `SelectedRoles` whom
the planner sends a workflow command to. `StartUp` walks one start after the
other: `ReadFile`, `Truncate` and `WriteFile` for `config.json`; `OpenLedger`,
`Recognise`, `Execute`, `Finish` and `Mark` for the migrations, each a statement
that commits by itself; `CountRows` and `Seed`. `Kill` may come at any step,
`EditFile` and `SaveAgentConfiguration` between starts and while the runtime
listens. `chosen`, `saved` and `torn` are history.

**TaskLock.** `phase`, `holder` and `executing`. Two modules
are shown to implement it: `TaskClaim` with the row as the lock, `TaskWorkflow`
once for each task.

Operators whose comment says "Mutant" are slips the properties are tested
against (each is swapped in for the operator it stands next to); no definition
of the model uses them.

## 3. Runs

| run | instance | what it shows |
|---|---|---|
| `workflow_safety` | 2 runs, 3 tasks, 3 approvals, 2 roles, 1 user; 354,636 states up to symmetry | types, agreement of the tables, lock, decision and time records; ownership is permanent, what is settled stays, the gate is never bypassed; each task refines `TaskLock` |
| `workflow_liveness` | 2 runs, 2 tasks, no symmetry; 88,869 states | every plan ends |
| `workflow_revision` | 1 run, 2 tasks | violation: see "Findings" |
| `store_connection` | 2 callers, 1 run, 2 tasks, 2 approvals, 2 roles, 1 user; 1,883,045 states up to symmetry | committed tables agree, committed steps are legal, what is acknowledged under BEGIN is committed |
| `store_connection_free` | 2 callers, 2 runs, 2 tasks, 1 approval, users as owners, no symmetry; 739,049 states | every transaction ends, also when a run that waits or has ended refuses the claim |
| `store_connection_conflict` | 2 callers, 1 run, 1 task | violation: see "Findings" |
| `approval_guard` | 2 callers, 1 task, 1 run, 1 approval, 6 moves; 400,751 states | verdicts are real, only late requests are passed, calls return |
| `cli_init` | 2 providers, 4 orders, every environment, up to 3 signals; 201,448 states | tunnels are supervised, teardown is graceful unless forced, every start settles, the runtime follows the command |
| `web_workspace` | 2 handlers, 2 projects, 2 users, 2 sessions, 3 views, 3 outside events; 7,063,603 states up to symmetry | a page at rest is usable, a refresh restores it, no operation crosses workspaces, users or the closing of the store |
| `web_timeline` | 2 handlers, 1 session, 1 outside event | violation: see "Findings" |
| `start_up` | 3 migrations with 2 sentinels, 2 settings, 2 models, 3 roles, 6 events; 50,837 states | starts are made good outside three windows, choices survive |
| `claim_service` | 2 callers, 2 runs, 1 actor, 2 time stamps, 1 row; 276,124 states | no false success or contention, first claim recorded, calls return, refinement of `TaskLock` |

Bounds. Tables are finite because the sets of ids are, and a task may go through
revisions without limit; the one guard of the store's modules that is a bound is
`ApprovalIdLeft`, which keeps a submission from beginning when there is no id
left for its approval. Two runs are what it
takes for a task to be checked out under a foreign run; three tasks give a run
with two tasks next to one with one, or a run with as many siblings as there
are roles, and let decisions on siblings meet in every order. There are as many
approval ids as tasks; that one per task is enough is the first part of
`ApprovalAgreesWithTask` and is proved for any number. A second user would only
be another value of a column no guard reads. In the claim service a caller's
swap is lost to the other caller and to the submissions and decisions, which is
what three lost attempts take; owners are the actor and the two runs. Tasks,
approvals, runs and roles are each symmetric in `TaskWorkflow` (no definition
singles one out), and symmetry is used only where no liveness is checked.

On the connection two callers are enough for every pair of operations to
overlap, and only a release can overlap with another operation's transaction, so
a third caller would only add a second release. Safety is checked with two tasks
of one run, where a sibling under review makes the run refuse a claim, liveness
with two tasks of two runs: a claim may name the other run, which may be planned,
running, waiting or at its end, so that every way `FinishClaim` and
`FinishSubmit` commit or roll back is taken. To keep that graph small without
symmetry, `UsersNext` leaves out agents and runs as owners (two runs already
compete for a task under one owner) and there is one approval id, so that one
task at a time can go through review while the other is claimed and released.

In `approval_guard` one task, one run and one approval that may be requested
again are enough for an approval to appear before, between and after the two
reads; the moves are the one the store asks for, and one of each kind the
service tells apart. In `cli_init` the four orders are the default, one with
blanks and repetitions, one without an adapter and one that names nobody; three
signals are one handled, its repetition, and one of the other kind. In
`web_workspace` two handlers are every pair of overlapping clicks, and three
outside events (clicks, the other tab, the other client, losses, expiry, stop
and restart all count) are what a stale answer needs: start a load, change the
page, and one disturbance. Thread and file views are left out of the instance:
the thread shares the timeline's loads and the files pane loads nothing. In `start_up` a
third migration is one no sentinel knows, and six events allow several
kills, an edit after them and a save before.

Deadlock is not checked for the workflow and the connection: when every id is used up and every
run has ended nothing is left to do. Nor is it for the page, the command and
the starts, which stop when the bounded outside world has spent its events or the command has
exited. The claim service and the guarded-transition service always can begin a call,
and there deadlock is checked.

Fairness. The store schedules nothing, so the liveness of a plan rests on
people and agents: for each task, somebody who can submit its output does in
the end, and the reviewer who can settle it (approve or reject, not ask for a
revision for ever) does. Both are enabled only from time to time, because
siblings take turns while the run waits, hence strong fairness. What
the run then shows is the code's part: the mutual blocking of siblings never
wedges a plan. It is stated for behaviours in which tasks are checked out under
their own runs; a plan whose task was checked out under a run that has ended
meanwhile is stuck, which the repository neither promises nor forbids. For the
claim service weak fairness of a caller's own steps says that a resolved
promise is resumed. On the connection it is the same: weak fairness of each
caller's next segment, never of the beginning of an operation, and for the
guarded-transition service likewise. `cli_init` assumes that the event loop of
the command runs what is ready, that a timer fires, that the system delivers an
exit and obeys SIGKILL, and that a runtime boots (or fails to) and closes once
it was told to; a tunnel binary is not assumed to report a URL or to heed SIGTERM, and a signal is
never bound to come. The page and the starts have no liveness property.

Mutants. Every property of every passing run is violated by a mutant of the
code it is about.

## 4. Findings

`RevisionCanBeResubmitted` (run `workflow_revision`): a task handed back for
revision stays `in_progress`, but when a sibling is then rejected the run fails
(`persistence.ts:2824`) and every claim and submission under a failed run is
refused (`persistence.ts:2734`). TODO.md:247 and README.md:96 promise the
resubmission. The shortest trace: plan two tasks, submit one, ask for a
revision of it, submit the other, reject it.

`CompetingClaimsGetConflictCodes` (run `store_connection_conflict`): README.md:95
promises deterministic conflict codes for competing claims. Two claims that
overlap at an await meet before the claim service does: the second one's BEGIN
fails inside the first one's transaction (`persistence.ts:1644`), and the error
is passed on without a code (`persistence.ts:927`). It takes two calls in one
process that overlap between awaits; a retry is answered as promised.

`TimelineIsOfSelection` (run `web_timeline`): README.md:103 promises timeline
loading for the selected project. `reloadTimeline` (`index.ts:2995`) renders the
answer it gets; with two loads pending and their answers reversed, the page at
rest shows the timeline of the project the user has left. The loads of other
panes have the same shape; operations sent from such a page are harmless
(`WorkStaysInItsWorkspace`).

`StartsAreMadeGood` names three windows in which a kill has lasting effect,
and no document promises otherwise: between truncating and writing
`config.json`; inside a migration script or between it and its record
(`persistence.ts:1134`), after which every start fails because the table is
there; and between creating the ledger and recognising a database older than
it, as only a start that finds no ledger looks for one. The command itself kills a
runtime that has not reported ready in time.

`OnlyLateRequestsArePassed` states the full extent of the window between listing
approvals and swapping (`approval-guarded-transition-service.ts:374`); the
store closes it with a write transaction.

Next to the second finding, and promised by nobody: a release that runs inside another call's
transaction is acknowledged at once and undone if that call rolls back. This is
why `AcknowledgedIsCommitted` leaves releases out.

## 5. Proofs

Every safety property of the passing runs, invariant or action property, is
proved for all values of the constants. Each proof module extends the module it
is about, states an inductive invariant (`IInv`; `PInv` for the page) that
implies the properties, and proves `Init => IInv`, that every action preserves
it, one step per action, and what follows from it.

The assumptions are those of the modules; TLC evaluates them in the runs.

| assumption | says |
|---|---|
| `TaskWorkflow`, `StoreConnection` | NULL is not an id; the three types of owner do not overlap; NULL is no caller |
| `TaskClaim` | runs and actors do not overlap; NULL is no caller, id or time |
| `ApprovalGuard` | tasks and runs do not overlap; NULL is no caller, entity or state; the moves are pairs of states |
| `AgentConfiguration` | there are providers and models, finitely many specialists, and the project manager is not one of them |
| `StartUp` | there is at least one version and one migration; the sentinels of old databases are the first migrations; an absent file is not a torn one |
| `ChildProcess`, `Tunnel`, `CliInit` | the runtime is no provider; the default order names each provider once; what the environment configures is a sequence of strings |
| `WebRuntime`, `WebClient`, `WebWorkspace` | NULL is no user, session or project; the bounds are numbers; the timeline view exists; the handlers of the page and the other client are senders |

**TaskWorkflow_proofs.** `TypeCorrect` is inductive on its own. The three
invariants that relate the tables are not: from `ApprovalAgreesWithTask` alone a
plan could reuse a task that a stray row refers to, and a submission could
hand an approval to a run that does not exist. `IInv` adds `PlansComplete` (a
task is inserted with its run, a run with a task, an unused approval refers to
nothing) and takes the three together: that a run waits exactly for its
unresolved approvals is what makes `RunOutcomeFollowsTasks` survive a decision
whose run transition is refused, and the outcome is what keeps a claim away
from a run that has ended. From it follow `ApprovalsAgree`, `RunsWait`,
`RunsFollowTasks`, `NoBypassOfTheGate` and `SettledForGood`.
`LockConsistent` is inductive next to `TypeOK`, and gives `LocksAreConsistent`,
`OwnersKeepTheirTasks` and `WorkflowImplementsLocks`, the refinement: a claim
maps to `Acquire`, a release to `Pause` or a stutter, a submission to `HandIn`,
a decision to `Review`, and a plan and everything that happens to other tasks
to a stutter. `RecordsStayTrue` needs both: the timestamps of a run agree with
its status only because no transition leads out of an end, and the columns of a
decision stay with the approval that the next round of a review reopens.

**TaskClaim_proofs.** `IInv` strengthens the properties by what the loop
relies on: a snapshot that meets the request was the row at some moment of the
call (`SeenIsMet`), every lost attempt, and the one about to be lost because
the snapshot is out of date, has been paid for by a change of the row under the
call (`LossesCounted`), and a call under way has passed validation
(`CallsValid`). From it follow `SuccessesAreReal`, `ContentionsAreReal`,
`FirstClaimIsRecorded`, `TypeCorrect` and the refinement `ClaimImplementsLock`.

**StoreConnection_proofs.** The workflow's invariants do not hold of the tables
as they are seen: half way through a decision the approval is decided and the
task still waits. They hold of the committed tables and of the *base*, the
tables as seen but for the approval and the task of a decision under way, which
are as last committed. `TaskWorkflow_proofs` is instantiated on both (`Saved`,
`Base`), so that its lemmas about the actions are used again: a claim and a
release are small steps of the base that disturb no workflow invariant (*quiet*
steps), a plan and the last step of a submission or of a decision are whole
steps of `TaskWorkflow`. `TransactionOk` says how base and committed tables
differ while a transaction is open (`Kept`: no checkout changes hands, nothing
that waits or is settled moves), and `CallOk` what a call relies on after an
await: the row of a claim is as it was read but for a release, and a decision
has changed one approval and one task. A commit then takes the base, a rollback
the saved tables. From `IInv` follow `CommittedAgree`, `StepsAreLegal` (the action
properties of the workflow, for the step from one commit to the next, whatever
lies between) and `AcknowledgedAreCommitted`.

**ApprovalGuard_proofs.** The history is monotonic: a step adds facts to every
call under way, and only the caller that reads starts afresh (`Observed`).
`CallReal` says for every point of the loop which fact the call has met,
`CallValid` that it has passed validation and has an attempt left, and
`CallMissed` that a call about to swap past the gate has missed only the
approvals in `late`. `VerdictsHold` is `CallReal` at the end of a call, and
`OnlyTheWindowIsOpen` is `CallMissed` at the swap.

**StartUp_proofs.** `FileKept` follows what the user has set from the file to
the configuration in hand and back; a truncated file is about to be written or
has been torn. `LedgerTrue` ties ledger, tables and program counter: what is
recorded is whole, what is not recorded has left nothing behind, but for the
script in hand and for the damage of a kill. `AgentsWhole` says that the rows
are none or a configuration that a save would accept, `RefusedForCause` that
the reason of a refusal is still there. That a next migration exists rests on
the least element of a set of numbers, from the library's theorem on
well-founded relations. From these follow `StartsMadeGood` and `ChoicesKept`.

**CliInit_proofs.** `ChildOk` keeps what the command knows of a child and what
it has sent it in step with the process. `TunnelOk` says that the providers
are tried one after the other, each once: what comes later in the order has no
process yet, what came before none that was left alone. This needs that the
normalised order names no provider twice, for an environment variable that may
name anything any number of times (`OrderType`: the order takes the k-th of the
positions at which a name occurs first, and a finite set of numbers has a
k-th, `KthOf`). `RuntimeOk` and
`PhasesAgree` say what a phase of the command allows its runtime and its tunnel.
From them follow `TunnelsStaySupervised` and `StopsAreGraceful`.

**WebWorkspace_proofs.** `RequestOk` says what a request carries at its stage:
a handler that awaits a body has captured the session of the cookie it came
with, and a session once issued keeps its actor. `StoreOk` ties the store to
the stages of the server's stop. `WorkKeepsToItsWorkspace`,
`UsersKeepToThemselves` and `StoreOutlives` follow for any number of sessions,
and whatever handlers of the page overlap.

**WebPage_proofs.** `PInv` holds next to the `IInv` of `WebWorkspace_proofs`.
`HandlersOk` lists the chains of fetches a handler may still have before it, and
says that what it waits for is the first of its chain; the lemmas on chains say
what is left after a step (`ChainTails`). `FlagsOk`: a loading flag that is set
has a request under way that will clear it, or a handler about to make one. That
of the audit pane is the exception: `setActiveView` sets it ahead of the load,
and it may be left over while no project is selected or another view is open,
which the next load mends. `ButtonsOk`: a page that shows tasks has its buttons,
but for the time of a load of the tasks or of a submission. `SelectionOk`: the
selection is one of the listed projects, those exist, and the context in URL and
storage is that of the page. `RestoreOk`: while a refresh is under way the
context is still the one to restore, the handler that loads the projects prefers
its project, and every list the server answers contains it. A page at rest has
no handler left, so that its flags are clear and its buttons enabled
(`SettledPagesAreUsable`); the answer with the list keeps the context because
the preferred project is in it (`RefreshesRestore`). TLC has confirmed the five
parts on the instance of `web_workspace`.

`WorkflowStates` holds the transition table that the proofs of the workflow and
`ApprovalGuard` use; `TaskWorkflow` extends it.

**Only model-checked.** The liveness properties `PlanEventuallyEnds`,
`CallsReturn`, `TransactionsEnd`, `InitSettles` and `RuntimeFollowsCommand`:
liveness under fairness is out of the prover's reach. The violations of section 4
are counterexamples that TLC finds.

## 6. Plan

Every part named in section 1 is modelled, but for those of section 7, and what
the runs check of safety is proved. What would come next:

1. The hazards of the page, the connection and the tunnel that no
   property covers yet (each has its reason in `PROJECT.json`).
2. `ChildProcess` and `Tunnel` have no theorems of their own: what is proved of
   them is proved of their composition in `CliInit`.

## 7. Not modelled, and why

Markup, styling and rendering of the page, the filters of its audit pane and the
form that edits the agent configuration; wording of messages and errors; slugs;
the adapter registry (a map); the drizzle schema (declarations that mirror the
migrations). Parsing of request bodies is folded into `Refuse`; parsing of
cookies and environment variables is pure. SQLite, Node's event loop and the
tunnel binaries are external and appear as the assumptions above.

The audit trail: triggers append rows nothing reads back, under a context that
is set and reset within synchronous code, so that no other actor's step fits in
between; its correctness is that each statement names the right actor, which a
test reaches.

Of `orqis init`: the source mode that runs the runtime inside the command; a
kill() that fails for a live child of one's own; a tunnel process that survives
a command killed by a signal sent to the command alone (it is not supervised
then, and no property claims it is). Of a cloudflare tunnel, that it dies just
after it has printed its URL is modelled, but nothing is claimed of the session.

Of the start: an edit of `config.json` between its reading and its writing (the
edit is lost), two starts on one home at a time (both read, migrate and seed on
their own), file permissions, a version written by a newer CLI (refused), and
configurations saved by two tabs (the last one wins).
