------------------------------ MODULE WebClient ------------------------------
(***************************************************************************)
(* The page the runtime serves (the scripts in apps/web/src/index.ts): one *)
(* tab of a browser.  Every click starts an async handler that runs to its *)
(* next fetch, waits for the answer, applies it to the page and goes on;   *)
(* handlers of several clicks overlap, and the page has moved on by the    *)
(* time an answer arrives.                                                 *)
(***************************************************************************)
EXTENDS WebRuntime, Sequences

CONSTANTS
  Handlers,   \* bound: handlers of the page that overlap
  Views,      \* the views the user visits
  MaxEvents   \* bound: what happens from outside, see WebWorkspace

ASSUME ClientAssumption ==
  /\ Handlers \subseteq Senders /\ MaxEvents \in Nat
  /\ Views \subseteq {"main-chat", "thread", "files", "assigned-agents", "audit-timeline"}
  /\ "main-chat" \in Views

VARIABLES
  cookie,   \* the session cookie of the browser
  context,  \* the workspace context, in the URL and the local storage
  page,     \* the script's variables
  handler,  \* the async handlers, one for each click under way
  restore,  \* history: what a refresh of the page is to bring back
  events    \* how many outside events there have been

clientVars == <<cookie, context, page, handler, restore, events>>

-----------------------------------------------------------------------------

IsTimelineView(v) == v \in {"main-chat", "thread"}

\* What a handler does between two answers: loads, posts, Promise.all of the
\* timeline and the tasks, and the pane that belongs to the view.
Steps == Reads \cup Writes \cup {"sign_out", "both", "pane"}

Context == [project : Projects \cup {None}, view : Views]

Page ==
  [at : {"login", "app", "error"},
   actor : Actors \cup {None},        \* sessionActorId
   selected : Projects \cup {None},   \* selectedProjectId
   known : SUBSET Projects,           \* projects
   view : Views,
   messages : Projects \cup {None},   \* whose timeline is rendered
   tasks : Projects \cup {None},      \* whose tasks are listed
   loading : SUBSET {"tasks", "configuration", "audit"},
   buttons : BOOLEAN,                 \* submit and apply are enabled
   failed : BOOLEAN]                  \* history: a request of the page has failed

Handler ==
  [todo : Seq(Steps),
   prefer : Projects \cup {None},  \* the preference of its loadProjects
   task : Projects \cup {None}, owner : Owners \cup {None},
   submits : BOOLEAN]              \* its finally re-enables the buttons

Idle == [todo |-> <<>>, prefer |-> None, task |-> None, owner |-> None, submits |-> FALSE]

ClientTypeOK ==
  /\ cookie \in Sessions \cup {None} /\ context \in Context
  /\ page \in Page
  /\ DOMAIN handler = Handlers
  /\ \A h \in Handlers : handler[h] \in Handler
  /\ restore \in Context \cup {None}
  /\ events \in 0..MaxEvents

\* getSelectedProject: the selection counts once the project is listed.
Selected(p) == IF p.selected \in p.known THEN p.selected ELSE None

Pending(h) == {q \in requests : q.by = h}

IsIdle(h) == handler[h].todo = <<>> /\ Pending(h) = {}

IsReady(h) == handler[h].todo # <<>> /\ Pending(h) = {}

\* A handler runs on before anything else happens to the page.
Quiet == \A h \in Handlers : ~IsReady(h)

Settled == page.at = "app" /\ \A h \in Handlers : IsIdle(h)

-----------------------------------------------------------------------------
(* The state of the controls.                                              *)

\* updateTaskLoopState
UpdateTaskLoop(p) ==
  [p EXCEPT !.buttons = /\ Selected(p) # None /\ p.view = "main-chat"
                        /\ "tasks" \notin p.loading /\ p.tasks # None]

\* updateSelectedProjectState
UpdateSelected(p) ==
  UpdateTaskLoop(IF Selected(p) = None THEN [p EXCEPT !.tasks = None] ELSE p)

FirstOf(S) == CHOOSE p \in S : \A q \in S : p <= q

\* renderProjectOptions
RenderProjects(p, list, prefer) ==
  UpdateSelected(
    [p EXCEPT !.known = list,
              !.selected = IF list = {} THEN None
                           ELSE IF prefer \in list THEN prefer ELSE FirstOf(list),
              !.messages = IF list = {} THEN None ELSE @])

\* The page as it opens: the selection and the view of the context.
Opened ==
  [at |-> "app", actor |-> None, selected |-> context.project, known |-> {},
   view |-> context.view, messages |-> None, tasks |-> None,
   loading |-> {}, buttons |-> FALSE, failed |-> FALSE]

LoginPage ==
  [Opened EXCEPT !.at = "login", !.selected = None, !.view = "main-chat"]

\* A navigation drops the handlers and the requests of the page.
Navigate(p, todo, kept) ==
  /\ page' = p
  /\ handler' = [h \in Handlers |->
       IF h = CHOOSE g \in Handlers : TRUE
       THEN [Idle EXCEPT !.todo = todo, !.prefer = p.selected] ELSE Idle]
  /\ requests' = {q \in kept : q.by \notin Handlers}

\* GET / and GET /login: each redirects to the other by the session.
OpenRoot(id, kept) ==
  IF server = "closed" THEN Navigate([LoginPage EXCEPT !.at = "error"], <<>>, kept)
  ELSE IF IsLive(id) THEN Navigate(Opened, <<"session", "projects">>, kept)
  ELSE Navigate(LoginPage, <<"session">>, kept)

-----------------------------------------------------------------------------
(* A handler runs to its next fetch.                                       *)

\* loadProjects goes on with the pane of the view it finds.
Resolve(s) ==
  CASE s = "both" -> {"messages", "tasks"}
    [] s = "pane" -> IF page.view = "main-chat" THEN {"tasks"}
                     ELSE IF page.view = "audit-timeline" THEN {"audit"} ELSE {}
    [] OTHER -> {s}

\* reloadTimeline and reloadTasks return early outside of their views.
Shown(s) ==
  CASE s = "messages" -> IsTimelineView(page.view)
    [] s = "tasks" -> page.view = "main-chat"
    [] OTHER -> TRUE

NeedsProject == OnTasks \cup {"messages", "tasks", "audit", "post_message", "plan"}

Fetches(s) == Shown(s) /\ (s \in NeedsProject => Selected(page) # None)

\* The URL is that of the project selected now.
Sent(h, s) ==
  NewRequest(h, s, cookie, IF s \in NeedsProject THEN Selected(page) ELSE None,
             handler[h].task, handler[h].owner)

\* Mutant: the flag is taken from the name of the fetch, whatever it is.
FlagsEveryFetch(steps, fetched) == [page EXCEPT !.loading = @ \cup fetched]

\* The finally of a submission enables the buttons once nothing is left of it.
Finally(p, h, rest) ==
  IF rest = <<>> /\ handler[h].submits THEN [p EXCEPT !.buttons = TRUE] ELSE p

\* Without a project the panes are emptied; a load sets its flag.
AfterStart(steps, fetched) ==
  LET none == Selected(page) = None
      p == [page EXCEPT !.messages = IF "messages" \in steps /\ Shown("messages") /\ none
                                     THEN None ELSE @,
                        !.tasks = IF "tasks" \in steps /\ Shown("tasks") /\ none
                                  THEN None ELSE @,
                        !.loading = @ \cup (fetched \cap {"tasks", "configuration", "audit"})]
  IN IF "tasks" \in steps /\ Shown("tasks") THEN UpdateTaskLoop(p) ELSE p

Run(h) ==
  /\ IsReady(h)
  /\ LET steps == Resolve(Head(handler[h].todo))
         fetched == {s \in steps : Fetches(s)}
     IN /\ requests' = requests \cup {Sent(h, s) : s \in fetched}
        /\ page' = LET p == AfterStart(steps, fetched)
                   IN IF fetched = {} THEN Finally(p, h, Tail(handler[h].todo)) ELSE p
        /\ handler' = IF fetched = {} THEN [handler EXCEPT ![h].todo = Tail(@)] ELSE handler
  /\ UNCHANGED <<sessions, server, storeOpen, projects, planned, cookie, context, restore, events>>

-----------------------------------------------------------------------------
(* An answer arrives.                                                      *)

\* Mutant: the flag is cleared only when the load succeeds.
ClearedOnSuccess(p, q) == [p EXCEPT !.loading = IF q.status = "ok" THEN @ \ {q.route} ELSE @]

\* The finally of a load.
Cleared(p, q) == [p EXCEPT !.loading = @ \ {q.route}]

\* The answer is applied to the page as it is now.
Applied(p, q) ==
  LET c == [Cleared(p, q) EXCEPT !.failed = @ \/ q.status # "ok"] IN
  CASE q.route = "messages" -> IF q.status = "ok" THEN [c EXCEPT !.messages = q.ws] ELSE c
    [] q.route = "tasks" ->
         UpdateTaskLoop(IF q.status # "ok" THEN c
                        ELSE [c EXCEPT !.tasks = IF q.list = {} THEN None ELSE q.ws])
    [] q.route = "session" /\ q.status = "ok" -> [c EXCEPT !.actor = q.user]
    [] OTHER -> c

\* Mutant: the projects are loaded without the preference.
NoPreference(q) == None

\* preferredProjectId ?? projectSelect.value
Preferred(q) ==
  IF handler[q.by].prefer # None THEN handler[q.by].prefer
  ELSE IF page.known = {} THEN None ELSE page.selected

\* A failed step ends its handler; its other fetch, if any, is still applied.
Stops(q) ==
  /\ page' = Finally(Applied(page, q), q.by, <<>>)
  /\ handler' = [handler EXCEPT ![q.by] = Idle]
  /\ requests' = requests \ {q}
  /\ UNCHANGED <<cookie, context>>

\* The other fetch of a Promise.all is still out, or the handler has given up.
Waits(q) ==
  /\ page' = Applied(page, q)
  /\ requests' = requests \ {q}
  /\ UNCHANGED <<cookie, context, handler>>

Goes(q, p, more) ==
  LET rest == Tail(handler[q.by].todo) \o more IN
  /\ handler' = [handler EXCEPT ![q.by] =
                   IF rest = <<>> THEN Idle ELSE [@ EXCEPT !.todo = rest]]
  /\ page' = Finally(p, q.by, rest)
  /\ requests' = requests \ {q}

LoadedProjects(q) ==
  /\ q.route = "projects"
  /\ LET p == RenderProjects(page, q.list, Preferred(q)) IN
     /\ context' = [project |-> p.selected, view |-> p.view]
     /\ Goes(q, p, (IF p.view = "assigned-agents" THEN <<"configuration">> ELSE <<>>)
                   \o (IF p.selected = None THEN <<>> ELSE <<"messages", "pane">>))
  /\ UNCHANGED cookie

\* createProject goes on to load the projects, for the new one to be selected.
CreatedProject(q) ==
  /\ q.route = "create_project"
  /\ handler' = [handler EXCEPT ![q.by].todo = Tail(@), ![q.by].prefer = FirstOf(q.list)]
  /\ requests' = requests \ {q}
  /\ UNCHANGED <<page, cookie, context>>

\* loadSession on the page, ensureSignedOut on the login page: each leaves for
\* the other when the session is not as it should be.
LoadedSession(q) ==
  /\ q.route = "session"
  /\ IF (page.at = "app") = (q.user # None)
     THEN Goes(q, Applied(page, q), <<>>) ELSE OpenRoot(cookie, requests)
  /\ UNCHANGED <<cookie, context>>

SignedIn(q) ==
  /\ q.route = "sign_in"
  /\ cookie' = q.issued
  /\ OpenRoot(q.issued, requests)
  /\ UNCHANGED context

SignedOut(q) ==
  /\ q.route = "sign_out"
  /\ cookie' = None
  /\ OpenRoot(None, requests)
  /\ UNCHANGED context

Continues(q) ==
  /\ q.route \notin {"projects", "create_project", "session", "sign_in", "sign_out"}
  /\ Goes(q, Applied(page, q), <<>>)
  /\ UNCHANGED <<cookie, context>>

Deliver(q) ==
  /\ q.by \in Handlers /\ q.phase = "answered"
  /\ IF handler[q.by].todo = <<>> THEN Waits(q)
     ELSE IF q.status # "ok" THEN Stops(q)
     ELSE IF Pending(q.by) # {q} THEN Waits(q)
     ELSE \/ LoadedProjects(q) \/ CreatedProject(q) \/ LoadedSession(q)
          \/ SignedIn(q) \/ SignedOut(q) \/ Continues(q)
  /\ restore' = IF q.status = "ok" THEN restore ELSE None
  /\ UNCHANGED <<sessions, server, storeOpen, projects, planned, events>>

=============================================================================
