----------------------------- MODULE WebRuntime -----------------------------
(***************************************************************************)
(* The HTTP runtime (apps/web/src/index.ts): its sessions, its routes and  *)
(* its shutdown.  A request with a body is handled in two parts: on arrival *)
(* the session is looked up and captured, then the body is awaited, and    *)
(* only after it the store is called.  Between the two the session may     *)
(* expire or end, and the runtime may be told to stop.                     *)
(*                                                                         *)
(* The store is reduced to what the pages tell apart: the projects, in the *)
(* order of their creation and one workspace each, and which of them have  *)
(* tasks.  What its operations do is in TaskWorkflow and StoreConnection;  *)
(* here they may refuse at any time.                                       *)
(***************************************************************************)
EXTENDS Integers, FiniteSets

CONSTANTS
  Actors,       \* actor ids that sign in
  Sessions,     \* session ids; bound: sign-ins of a behaviour
  Senders,      \* who may have a request under way
  MaxProjects,  \* bound: projects that are created
  None

ASSUME RuntimeAssumption ==
  /\ MaxProjects \in Nat
  /\ None \notin Actors \cup Sessions \cup Nat

VARIABLES
  sessions,  \* the session map, with the ids it no longer or never held
  server,    \* the HTTP server
  storeOpen, \* the workspace store has not been closed
  projects,  \* projects in the database: 1 to this number
  planned,   \* projects with tasks
  requests   \* the requests under way, with their answers until they are read

runtimeVars == <<sessions, server, storeOpen, projects, planned, requests>>

-----------------------------------------------------------------------------

\* The GETs, and the operations that come with a body.
Reads == {"session", "projects", "tasks", "messages", "audit", "configuration"}

OnTasks == {"checkout", "release", "output", "approval"}

Writes == OnTasks \cup
  {"sign_in", "create_project", "save_configuration", "post_message", "plan"}

\* Owners a body may name: a user by id, the user of the session (no id), an
\* agent or a run.
Owners == Actors \cup {"self", "delegate"}

Projects == 1..MaxProjects

Session == [state : {"unissued", "live", "ended"}, actor : Actors \cup {None}]

Request ==
  [by : Senders, route : Reads \cup Writes \cup {"sign_out"},
   cookie : Sessions \cup {None},
   ws : Projects \cup {None},     \* the workspace of the URL, named by its project
   task : Projects \cup {None},   \* whose task it names
   owner : Owners \cup {None},
   phase : {"sent", "reading", "answered"},
   live : BOOLEAN,                \* history: the cookie's session was live on arrival
   caller : Sessions \cup {None}, \* the session the handler captured
   status : {"none", "ok", "refused", "lost"},
   user : Actors \cup {None},     \* the user the answer or the record names
   issued : Sessions \cup {None}, \* the session a sign-in created
   list : SUBSET Projects]        \* the projects an answer is about

RuntimeTypeOK ==
  /\ sessions \in [Sessions -> Session]
  /\ server \in {"listening", "closing", "closed"} /\ storeOpen \in BOOLEAN
  /\ projects \in 0..MaxProjects /\ planned \subseteq 1..projects
  /\ \A q \in requests : q \in Request

NewRequest(by, route, cookie, ws, task, owner) ==
  [by |-> by, route |-> route, cookie |-> cookie, ws |-> ws, task |-> task,
   owner |-> owner, phase |-> "sent", live |-> FALSE, caller |-> None,
   status |-> "none", user |-> None, issued |-> None, list |-> {}]

RuntimeInit ==
  /\ \E id \in Sessions, a \in Actors :
       sessions = [s \in Sessions |-> IF s = id THEN [state |-> "live", actor |-> a]
                                      ELSE [state |-> "unissued", actor |-> None]]
  /\ server = "listening" /\ storeOpen = TRUE
  /\ \E n \in {0, MaxProjects} : projects = n /\ planned = 1..n
  /\ requests = {}

-----------------------------------------------------------------------------
(* The session store.  Ids are random and never come back; a session that  *)
(* has expired is as good as deleted, whether a lookup has dropped it or   *)
(* the next sign-in has yet to purge it.                                   *)

IsLive(id) == id \in Sessions /\ sessions[id].state = "live"

\* getSession
GetSession(id) == IF IsLive(id) THEN id ELSE None

\* deleteSession
Ended(id) ==
  [s \in Sessions |-> IF s = id THEN [sessions[s] EXCEPT !.state = "ended"] ELSE sessions[s]]

\* createSession
Created(id, actor) == [sessions EXCEPT ![id] = [state |-> "live", actor |-> actor]]

Unissued == {s \in Sessions : sessions[s].state = "unissued"}

\* Seven days have passed since the session was created.
Expire(id) ==
  /\ IsLive(id)
  /\ sessions' = Ended(id)
  /\ UNCHANGED <<server, storeOpen, projects, planned, requests>>

-----------------------------------------------------------------------------
(* Routes.                                                                 *)

Replace(q, r) == requests' = (requests \ {q}) \cup {r}

Answer(q, status) == [q EXCEPT !.phase = "answered", !.status = status]

\* What a GET lists; of the tasks of a workspace only whether there are any.
Listed(q) ==
  CASE q.route = "projects" -> 1..projects
    [] q.route = "tasks" -> {q.ws} \cap planned
    [] OTHER -> {}

\* handleRequest up to its first await: the session is resolved for every
\* route, all but /api/session need one, and a GET is answered at once.
Arrive(q) ==
  /\ q.phase = "sent" /\ server # "closed"
  /\ LET id == GetSession(q.cookie)
     IN \/ /\ q.route = "session"
           /\ Replace(q, [Answer(q, "ok") EXCEPT
                            !.user = IF id = None THEN None ELSE sessions[id].actor])
           /\ UNCHANGED sessions
        \/ /\ q.route = "sign_out"
           /\ Replace(q, Answer(q, "ok"))
           /\ sessions' = Ended(q.cookie)
        \/ /\ q.route = "sign_in" \/ (q.route \in Writes /\ id # None)
           /\ Replace(q, [q EXCEPT !.phase = "reading", !.live = IsLive(q.cookie), !.caller = id])
           /\ UNCHANGED sessions
        \/ /\ q.route \in Reads \ {"session"} /\ id # None
           /\ Replace(q, [Answer(q, "ok") EXCEPT !.list = Listed(q)])
           /\ UNCHANGED sessions
        \/ /\ q.route \notin {"session", "sign_in", "sign_out"} /\ id = None
           /\ Replace(q, Answer(q, "refused"))
           /\ UNCHANGED sessions
  /\ UNCHANGED <<server, storeOpen, projects, planned>>

\* The actor of the session the handler has captured.
CallerActor(q) == sessions[q.caller].actor

\* The user an operation records: the owner of the body, or the session's.
OwnerUser(q) ==
  IF q.owner = "self" THEN CallerActor(q) ELSE IF q.owner \in Actors THEN q.owner ELSE None

\* Mutant: the owner id of the body is taken as it comes.
ActsForAnyone(q) == TRUE

\* A user can only act as itself.
MayActFor(q) == OwnerUser(q) \in {None, CallerActor(q)}

\* Mutant: the task is looked up by its id alone.
KnowsAnyTask(q) == TRUE

\* requireWorkspaceTask: the task must be of the workspace of the URL.
KnowsTask(q) == q.task = q.ws

Operate(q, user) ==
  /\ KnowsTask(q) /\ storeOpen
  /\ Replace(q, [Answer(q, "ok") EXCEPT !.user = user])
  /\ UNCHANGED <<sessions, projects, planned>>

Checkout(q) == q.route = "checkout" /\ MayActFor(q) /\ Operate(q, OwnerUser(q))

Release(q) == q.route = "release" /\ MayActFor(q) /\ Operate(q, OwnerUser(q))

SubmitOutput(q) == q.route = "output" /\ MayActFor(q) /\ Operate(q, OwnerUser(q))

\* Whoever has signed in decides.
DecideApproval(q) == q.route = "approval" /\ Operate(q, CallerActor(q))

\* requireProjectWorkspaceMatch, then the plan with its tasks.
Plan(q) ==
  /\ q.route = "plan" /\ q.ws <= projects /\ storeOpen
  /\ planned' = planned \cup {q.ws}
  /\ Replace(q, [Answer(q, "ok") EXCEPT !.user = CallerActor(q)])
  /\ UNCHANGED <<sessions, projects>>

\* A message to a workspace that does not exist creates it (ensureWorkspace);
\* it is of the actor its body names.
PostMessage(q) ==
  /\ q.route = "post_message" /\ storeOpen
  /\ projects' = IF q.ws > projects THEN projects + 1 ELSE projects
  /\ Replace(q, [Answer(q, "ok") EXCEPT !.user = OwnerUser(q)])
  /\ UNCHANGED <<sessions, planned>>

CreateProject(q) ==
  /\ q.route = "create_project" /\ projects < MaxProjects /\ storeOpen
  /\ projects' = projects + 1
  /\ Replace(q, [Answer(q, "ok") EXCEPT !.list = {projects + 1}])
  /\ UNCHANGED <<sessions, planned>>

SaveConfiguration(q) ==
  /\ q.route = "save_configuration" /\ storeOpen
  /\ Replace(q, Answer(q, "ok"))
  /\ UNCHANGED <<sessions, projects, planned>>

SignIn(q) ==
  /\ q.route = "sign_in"
  /\ \E id \in Unissued, a \in Actors :
       /\ sessions' = Created(id, a)
       /\ Replace(q, [Answer(q, "ok") EXCEPT !.issued = id, !.user = a])
  /\ UNCHANGED <<projects, planned>>

\* A body that does not parse, a refusal of the store, a failure (500).
Refuse(q) ==
  /\ Replace(q, Answer(q, "refused"))
  /\ UNCHANGED <<sessions, projects, planned>>

\* The body is complete and the handler runs to its answer.
Serve(q) ==
  /\ q.phase = "reading"
  /\ \/ Checkout(q) \/ Release(q) \/ SubmitOutput(q) \/ DecideApproval(q) \/ Plan(q) \/ PostMessage(q) \/ CreateProject(q)
     \/ SaveConfiguration(q) \/ SignIn(q) \/ Refuse(q)
  /\ UNCHANGED <<server, storeOpen>>

-----------------------------------------------------------------------------
(* Stop and restart.                                                       *)

\* Mutant: the store is closed before the server.
StopStoreFirst ==
  /\ server = "listening"
  /\ server' = "closing" /\ storeOpen' = FALSE
  /\ UNCHANGED <<sessions, projects, planned, requests>>

\* server.close(): no new connections; a connection that is busy may bring
\* another request.
Stop ==
  /\ server = "listening"
  /\ server' = "closing"
  /\ UNCHANGED <<sessions, storeOpen, projects, planned, requests>>

\* The last connection is done: the server has closed, then the store does.
Closed ==
  /\ server = "closing"
  /\ \A q \in requests : q.phase # "reading"
  /\ server' = "closed" /\ storeOpen' = FALSE
  /\ UNCHANGED <<sessions, projects, planned, requests>>

\* Another `orqis init`: the sessions were in memory, the database is on disk.
Restart ==
  /\ server = "closed"
  /\ server' = "listening" /\ storeOpen' = TRUE
  /\ sessions' = [s \in Sessions |-> IF sessions[s].state = "unissued" THEN sessions[s]
                                     ELSE [sessions[s] EXCEPT !.state = "ended"]]
  /\ UNCHANGED <<projects, planned, requests>>

=============================================================================
