---------------------------- MODULE WebWorkspace ----------------------------
(***************************************************************************)
(* A page (WebClient) and the runtime (WebRuntime), with the rest of the   *)
(* world: the user's clicks, another tab of the same browser that signs in *)
(* and out, another HTTP client that checks tasks out, a network that      *)
(* loses requests and answers, sessions that expire, and a runtime that is *)
(* stopped and started again.                                              *)
(***************************************************************************)
EXTENDS WebClient

CONSTANT Agent  \* the other HTTP client

ASSUME WorkspaceAssumption == Agent \in Senders \ Handlers

vars == <<runtimeVars, clientVars>>

TypeOK == RuntimeTypeOK /\ ClientTypeOK

\* Somebody has signed in and opens the page: a first visit, or with the
\* project and the view of an earlier one.
Init ==
  /\ RuntimeInit
  /\ cookie \in {id \in Sessions : IsLive(id)}
  /\ context \in {[project |-> None, view |-> "main-chat"]} \cup
                  [project : 1..projects, view : Views]
  /\ page = Opened
  /\ handler = [h \in Handlers |->
       IF h = CHOOSE g \in Handlers : TRUE
       THEN [Idle EXCEPT !.todo = <<"session", "projects">>, !.prefer = context.project]
       ELSE Idle]
  /\ restore = None
  /\ events = 0

-----------------------------------------------------------------------------
(* Clicks.                                                                 *)

Spend == events < MaxEvents /\ events' = events + 1

Start(h, todo) == handler' = [handler EXCEPT ![h] = [Idle EXCEPT !.todo = todo]]

\* A click of the user on the open page.
Click(h) ==
  /\ Spend
  /\ page.at = "app" /\ IsIdle(h)
  /\ restore' = None

Untouched == UNCHANGED <<runtimeVars, cookie>>

\* The panes of the view, as after a change of the project or the view.
PanesOf(v) ==
  IF IsTimelineView(v) THEN <<"messages", "tasks">>
  ELSE IF v = "audit-timeline" THEN <<"audit">> ELSE <<>>

\* The project rail and the project select.
SelectProject(h, p) ==
  /\ Click(h) /\ p \in page.known \ {page.selected}
  /\ page' = UpdateSelected([page EXCEPT !.selected = p])
  /\ context' = [project |-> p, view |-> page.view]
  /\ Start(h, PanesOf(page.view))
  /\ Untouched

\* setActiveView announces the load by its flag before it starts it.
SetActiveView(h, v) ==
  /\ Click(h) /\ v # page.view
  /\ page' = UpdateSelected([page EXCEPT !.view = v,
       !.loading = @ \cup (IF v = "assigned-agents" THEN {"configuration"}
                           ELSE IF v = "audit-timeline" THEN {"audit"} ELSE {})])
  /\ context' = [project |-> page.selected, view |-> v]
  /\ Start(h, IF v = "assigned-agents" THEN <<"configuration">> ELSE PanesOf(v))
  /\ Untouched

\* Refresh, Reload, Apply filters, Send, Save, Plan, Create, Sign out.
Enabled(todo) ==
  CASE todo[1] = "projects" -> TRUE
    [] todo[1] \in {"messages", "post_message"} ->
         Selected(page) # None /\ IsTimelineView(page.view)
    [] todo[1] = "tasks" ->
         Selected(page) # None /\ page.view = "main-chat" /\ "tasks" \notin page.loading
    [] todo[1] = "plan" -> Selected(page) # None /\ page.view = "main-chat"
    [] todo[1] = "audit" -> Selected(page) # None /\ page.view = "audit-timeline"
    [] todo[1] \in {"configuration", "save_configuration"} ->
         page.view = "assigned-agents" /\ "configuration" \notin page.loading
    [] todo[1] = "create_project" -> projects < MaxProjects
    [] OTHER -> \A g \in Handlers : \A q \in Pending(g) : q.route # "sign_out"

Buttons ==
  {<<"projects">>, <<"messages">>, <<"tasks">>, <<"audit">>, <<"configuration">>,
   <<"post_message", "messages">>, <<"plan", "messages", "tasks">>,
   <<"save_configuration">>, <<"create_project", "projects">>, <<"sign_out">>}

Press(h) ==
  \E todo \in Buttons :
    /\ Click(h) /\ Enabled(todo)
    /\ Start(h, todo)
    /\ UNCHANGED <<page, context>> /\ Untouched

\* Submit an output, or apply a decision, for the task selected in the list.
\* The owner is what the form says; an empty user is the page's actor.
SubmitWork(h) ==
  /\ Click(h)
  /\ page.buttons /\ page.view = "main-chat" /\ page.tasks # None
  /\ Selected(page) # None
  /\ \E route \in {"output", "approval"}, owner \in Actors \cup {"delegate"} :
       /\ route = "approval" => owner = "delegate"
       /\ handler' = [handler EXCEPT ![h] =
            [Idle EXCEPT !.todo = <<route, "both">>, !.task = page.tasks,
                         !.owner = owner, !.submits = TRUE]]
  /\ page' = [page EXCEPT !.buttons = FALSE]
  /\ UNCHANGED context /\ Untouched

\* The sign-in form of the login page.
SignInHere(h) ==
  /\ Spend
  /\ page.at = "login" /\ Unissued # {}
  /\ \A g \in Handlers : IsIdle(g)
  /\ Start(h, <<"sign_in">>)
  /\ UNCHANGED <<page, context, restore>> /\ Untouched

\* A refresh of the page; a page at rest is to come back as it was.
Reload ==
  /\ Spend
  /\ restore' = IF Settled /\ Selected(page) # None /\ page.actor # None /\ IsLive(cookie)
                THEN [project |-> page.selected, view |-> page.view] ELSE None
  /\ OpenRoot(cookie, requests)
  /\ UNCHANGED <<sessions, server, storeOpen, projects, planned, cookie, context>>

User ==
  \/ \E h \in Handlers :
       \/ \E p \in Projects : SelectProject(h, p)
       \/ \E v \in Views : SetActiveView(h, v)
       \/ Press(h)
       \/ SubmitWork(h)
       \/ SignInHere(h)
  \/ Reload

-----------------------------------------------------------------------------
(* The rest of the world.                                                  *)

\* Another tab signs in, or out.
OtherTab ==
  /\ Spend /\ server # "closed"
  /\ \/ \E id \in Unissued, a \in Actors : sessions' = Created(id, a) /\ cookie' = id
     \/ cookie # None /\ sessions' = Ended(cookie) /\ cookie' = None
  /\ UNCHANGED <<server, storeOpen, projects, planned, requests, context, page, handler, restore>>

\* Another client, once, with the same session: it checks a task out for some
\* user, releases one for its own, or posts to a workspace nobody has created.
AgentSends ==
  /\ Spend /\ Pending(Agent) = {}
  /\ \/ \E ws \in planned, owner \in Actors :
          requests' = requests \cup {NewRequest(Agent, "checkout", cookie, ws, ws, owner)}
     \/ \E ws \in planned :
          requests' = requests \cup {NewRequest(Agent, "release", cookie, ws, ws, "self")}
     \/ /\ projects < MaxProjects
        /\ \E owner \in Actors :
             requests' = requests \cup
               {NewRequest(Agent, "post_message", cookie, projects + 1, None, owner)}
  /\ UNCHANGED <<sessions, server, storeOpen, projects, planned, cookie, context, page, handler, restore>>

\* The connection of the page breaks before the request arrives, or before the
\* answer to a write does; or the runtime is not there.
Lose(q) ==
  /\ q.by \in Handlers
  /\ q.phase = "sent" \/ (q.phase = "answered" /\ q.route \in Writes /\ q.status = "ok")
  /\ IF server = "closed" THEN UNCHANGED events ELSE Spend
  /\ Replace(q, Answer(q, "lost"))
  /\ UNCHANGED <<sessions, server, storeOpen, projects, planned, cookie, context, page, handler, restore>>

RuntimeOnly == UNCHANGED <<cookie, context, page, handler, restore>>

World ==
  \/ OtherTab \/ AgentSends
  \/ \E q \in requests : Lose(q)
  \/ \E id \in Sessions : Expire(id) /\ Spend /\ RuntimeOnly
  \/ (Stop \/ Restart) /\ Spend /\ RuntimeOnly

\* A handler runs to its fetch before anything else happens.
Next ==
  \/ \E h \in Handlers : Run(h)
  \/ Quiet /\ (User \/ World)
  \/ \E q \in requests :
       \/ Quiet /\ Deliver(q)
       \/ Quiet /\ (Arrive(q) \/ Serve(q)) /\ UNCHANGED clientVars
  \/ Quiet /\ Closed /\ UNCHANGED clientVars

Spec == Init /\ [][Next]_vars

-----------------------------------------------------------------------------
(* Properties.                                                             *)

\* When nothing is under way, the pane in view has stopped loading, and the
\* tasks that are listed can be worked on: no order of clicks, answers and
\* failures leaves an indicator or a disabled button behind (the finally
\* blocks and the flags setActiveView sets ahead of the load).
SettledPageIsUsable ==
  Settled /\ Selected(page) # None =>
    /\ page.view = "main-chat" =>
         "tasks" \notin page.loading /\ (page.tasks # None => page.buttons)
    /\ page.view = "audit-timeline" => "audit" \notin page.loading
    /\ page.view = "assigned-agents" => "configuration" \notin page.loading

\* A refresh of a page at rest brings the selected project and the view back,
\* whatever sessions and projects other tabs and clients make or end meanwhile.
\* Nobody else writes the context: the URL is the tab's own, and the local
\* storage, which alone outlives the login page, is taken to be.
RefreshRestores ==
  Settled /\ restore # None =>
    page.selected = restore.project /\ page.view = restore.view

\* The page may list the tasks of one project while another is selected; an
\* operation it sends then never reaches a task outside the workspace of its URL.
WorkStaysInItsWorkspace ==
  \A q \in requests : q.route \in OnTasks /\ q.status = "ok" => q.task = q.ws

\* An operation is accepted only under a session that was live when the request
\* arrived, and a user it acts for is the one the presented cookie was issued to,
\* although that session may have ended, and another may have been opened, while
\* the body was read.  (The author of a message is whoever its body names.)
UsersSpeakForThemselves ==
  \A q \in requests :
    q.status = "ok" /\ q.route \in OnTasks \cup {"plan", "post_message"} =>
      /\ q.live
      /\ q.user # None /\ q.route # "post_message" => q.user = sessions[q.cookie].actor

\* The store is not closed under a handler that still waits for its body.
StoreOutlivesItsRequests ==
  ~storeOpen => \A q \in requests : q.phase # "reading"

\* The timeline on display is that of the selected project once every load is
\* done and none has failed, as the README says of the landing page.
TimelineIsOfSelection ==
  Settled /\ ~page.failed /\ Selected(page) # None /\ IsTimelineView(page.view) =>
    page.messages = page.selected

=============================================================================
