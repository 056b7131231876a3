--------------------------- MODULE WebPage_proofs ---------------------------
(* Theorems about the page of WebWorkspace for any number of handlers that *)
(* overlap, projects, users and outside events.                            *)
EXTENDS WebWorkspace_proofs, SequenceTheorems

-----------------------------------------------------------------------------
(* The inductive invariant.                                                *)

\* What a handler may still have to do, from a click to its end.
Singles ==
  {"session", "sign_in", "sign_out", "projects", "pane", "tasks", "messages", "audit",
   "configuration", "save_configuration", "both"}

Pairs ==
  {<<"session", "projects">>, <<"create_project", "projects">>, <<"messages", "pane">>,
   <<"messages", "tasks">>, <<"post_message", "messages">>, <<"output", "both">>,
   <<"approval", "both">>}

Triples == {<<"configuration", "messages", "pane">>, <<"plan", "messages", "tasks">>}

Chains == {<<>>} \cup {<<s>> : s \in Singles} \cup Pairs \cup Triples

\* The fetches a step may make.
RoutesOf(s) ==
  CASE s = "both" -> {"messages", "tasks"} [] s = "pane" -> {"tasks", "audit"} [] OTHER -> {s}

\* A handler waits for the answers to its next step; outside of the page proper
\* there is only the form and the check of the session.
HandlersOk ==
  /\ \A h \in Handlers :
       /\ handler[h].todo \in Chains
       /\ page.at # "app" => handler[h].todo \in {<<>>, <<"session">>, <<"sign_in">>}
  /\ \A q \in requests :
       q.by \in Handlers /\ handler[q.by].todo # <<>> =>
         q.route \in RoutesOf(Head(handler[q.by].todo))

Requested(route) == \E q \in requests : q.by \in Handlers /\ q.route = route

\* A flag that is set has a load under way that will clear it, or a handler
\* about to start one; that of the audit pane may be left over while no project
\* is selected or another view is open.
FlagsOk ==
  /\ "tasks" \in page.loading => Requested("tasks")
  /\ "configuration" \in page.loading =>
       \/ Requested("configuration")
       \/ \E h \in Handlers : IsReady(h) /\ Head(handler[h].todo) = "configuration"
  /\ "audit" \in page.loading /\ page.view = "audit-timeline" /\ Selected(page) # None =>
       \/ Requested("audit")
       \/ \E h \in Handlers :
            /\ IsReady(h)
            /\ Head(handler[h].todo) \in {"audit", "pane"} \/ handler[h].todo = <<"messages", "pane">>

Submitting == \E h \in Handlers : handler[h].submits /\ handler[h].todo # <<>>

\* The buttons that go with the tasks that are listed.
Usable(p) ==
  Selected(p) # None /\ p.view = "main-chat" /\ p.tasks # None /\ "tasks" \notin p.loading =>
    p.buttons

\* Listed tasks have their buttons, but during a load of them or a submission.
ButtonsOk == Usable(page) \/ Submitting

\* The selection is one of the projects the page knows, which exist.
SelectionOk ==
  /\ page.known = {} \/ page.selected \in page.known
  /\ page.known \subseteq 1..projects
  /\ \A q \in requests : q.route = "projects" => q.list \subseteq 1..projects
  /\ page.at = "app" => context = [project |-> page.selected, view |-> page.view]

\* A page that is being refreshed finds in its context what it is to restore,
\* and the projects it loads are searched for that.
RestoreOk ==
  restore # None =>
    /\ context = restore /\ restore.project \in 1..projects
    /\ \A h \in Handlers :
         /\ handler[h].todo # <<"create_project", "projects">>
         /\ page.at = "app" /\ handler[h].todo \in {<<"session", "projects">>, <<"projects">>} =>
              handler[h].prefer = restore.project
    /\ \A q \in requests :
         q.by \in Handlers /\ q.route = "projects" /\ q.status = "ok" => restore.project \in q.list

PInv == HandlersOk /\ FlagsOk /\ ButtonsOk /\ SelectionOk /\ RestoreOk

-----------------------------------------------------------------------------
(* Chains of fetches.                                                      *)

\* What is left of a chain of three steps is a chain of two.
LEMMA LongChains ==
  ASSUME NEW c \in Triples
  PROVE  /\ c # <<>> /\ Tail(c) \in Pairs
         /\ Tail(c) \notin {<<"session", "projects">>, <<"create_project", "projects">>}
         /\ Head(c) \notin {"projects", "create_project"}
  <1>1. CASE c = <<"configuration", "messages", "pane">>
    BY <1>1 DEF Pairs
  <1>2. CASE c = <<"plan", "messages", "tasks">>
    BY <1>2 DEF Pairs
  <1> QED
    BY <1>1, <1>2 DEF Triples

\* A chain of two steps leaves one, and only two of them end with the projects.
LEMMA MiddleChains ==
  ASSUME NEW c \in Pairs
  PROVE  \E p, s :
           /\ s \in Singles /\ c = <<p, s>> /\ Tail(c) = <<s>> /\ Head(c) = p
           /\ s = "projects" => p \in {"session", "create_project"}
           /\ p = "create_project" => s = "projects"
           /\ p # "projects"
  <1>1. PICK p, s : /\ c = <<p, s>> /\ s \in Singles
                    /\ s = "projects" => p \in {"session", "create_project"}
                    /\ p = "create_project" => s = "projects"
                    /\ p # "projects"
    BY DEF Pairs, Singles
  <1>2. Tail(c) = <<s>> /\ Head(c) = p
    BY <1>1
  <1> QED
    BY <1>1, <1>2

\* What is left of a chain is a chain; the list of projects is always its last step.
LEMMA ChainTails ==
  ASSUME NEW c \in Chains, c # <<>>
  PROVE  /\ Tail(c) \in Chains
         /\ Tail(c) \notin {<<"session", "projects">>, <<"create_project", "projects">>}
         /\ Tail(c) = <<"projects">> =>
              c \in {<<"session", "projects">>, <<"create_project", "projects">>}
         /\ c = <<"create_project", "projects">> => Tail(c) = <<"projects">>
         /\ c \in {<<"projects">>, <<"session">>, <<"sign_in">>} => Tail(c) = <<>>
         /\ Head(c) = "projects" => c = <<"projects">>
         /\ Head(c) = "create_project" => c = <<"create_project", "projects">>
  <1>1. CASE c \in Triples
    <2>1. Tail(c) # <<"projects">>
      BY <1>1, LongChains DEF Pairs
    <2>2. c \notin {<<"projects">>, <<"session">>, <<"sign_in">>, <<"create_project", "projects">>}
      BY <1>1 DEF Triples
    <2> QED
      BY <1>1, <2>1, <2>2, LongChains DEF Chains
  <1>2. CASE c \in Pairs
    <2>1. PICK p, s :
            /\ s \in Singles /\ c = <<p, s>> /\ Tail(c) = <<s>> /\ Head(c) = p
            /\ s = "projects" => p \in {"session", "create_project"}
            /\ p = "create_project" => s = "projects"
            /\ p # "projects"
      BY <1>2, MiddleChains
    <2>2. Tail(c) \in Chains
      BY <2>1 DEF Chains
    <2>3. <<s>> = <<"projects">> => s = "projects"
      OBVIOUS
    <2>4. <<s>> \notin {<<"session", "projects">>, <<"create_project", "projects">>}
      OBVIOUS
    <2>5. <<p, s>> \notin {<<"projects">>, <<"session">>, <<"sign_in">>}
      OBVIOUS
    <2>6. <<p, s>> = <<"create_project", "projects">> => s = "projects"
      OBVIOUS
    <2> QED
      BY <2>1, <2>2, <2>3, <2>4, <2>5, <2>6
  <1>3. CASE c \in {<<s>> : s \in Singles}
    <2>1. PICK s \in Singles : c = <<s>>
      BY <1>3
    <2>2. Tail(c) = <<>> /\ Head(c) = s /\ s # "create_project"
      BY <2>1 DEF Singles
    <2>3. /\ <<>> \in Chains /\ <<>> # <<"projects">>
          /\ <<>> \notin {<<"session", "projects">>, <<"create_project", "projects">>}
      BY DEF Chains
    <2>4. <<s>> # <<"create_project", "projects">>
      OBVIOUS
    <2> QED
      BY <2>1, <2>2, <2>3, <2>4
  <1> QED
    BY <1>1, <1>2, <1>3 DEF Chains

-----------------------------------------------------------------------------
(* What the operators of the page leave alone, and what they make usable.  *)

\* Drawing the task loop makes the page usable and changes its buttons alone.
LEMMA TaskLoop ==
  ASSUME NEW p \in Page
  PROVE  LET r == UpdateTaskLoop(p)
         IN /\ r \in Page /\ Usable(r)
            /\ r.at = p.at /\ r.selected = p.selected /\ r.known = p.known /\ r.view = p.view
            /\ r.tasks = p.tasks /\ r.loading = p.loading
  <1> DEFINE on == /\ Selected(p) # None /\ p.view = "main-chat"
                   /\ "tasks" \notin p.loading /\ p.tasks # None
             r == [p EXCEPT !.buttons = on]
  <1>1. UpdateTaskLoop(p) = r
    BY DEF UpdateTaskLoop
  <1>2. on \in BOOLEAN
    OBVIOUS
  <1> HIDE DEF on
  <1>3. /\ r \in Page /\ r.buttons = on
        /\ r.at = p.at /\ r.selected = p.selected /\ r.known = p.known /\ r.view = p.view
        /\ r.tasks = p.tasks /\ r.loading = p.loading
    BY <1>2 DEF Page
  <1> HIDE DEF r
  <1>4. Usable(r)
    BY <1>3 DEF Usable, Selected, on
  <1> QED
    BY <1>1, <1>3, <1>4

\* So does drawing the panes of the selected project.
LEMMA SelectedProject ==
  ASSUME NEW p \in Page
  PROVE  LET r == UpdateSelected(p)
         IN /\ r \in Page /\ Usable(r)
            /\ r.at = p.at /\ r.selected = p.selected /\ r.known = p.known /\ r.view = p.view
            /\ r.loading = p.loading
  <1> DEFINE c == IF Selected(p) = None THEN [p EXCEPT !.tasks = None] ELSE p
  <1>1. /\ c \in Page
        /\ c.at = p.at /\ c.selected = p.selected /\ c.known = p.known /\ c.view = p.view
        /\ c.loading = p.loading
    BY DEF Page
  <1>2. UpdateSelected(p) = UpdateTaskLoop(c)
    BY DEF UpdateSelected
  <1> HIDE DEF c
  <1> QED
    BY <1>1, <1>2, TaskLoop

\* A list of projects leaves one of them selected, the preferred one if it is there.
LEMMA Rendered ==
  ASSUME NEW p \in Page, NEW list \in SUBSET Projects, NEW prefer
  PROVE  LET r == RenderProjects(p, list, prefer)
         IN /\ r \in Page /\ Usable(r)
            /\ r.at = p.at /\ r.view = p.view /\ r.loading = p.loading
            /\ r.known = list /\ (list = {} \/ r.selected \in list)
            /\ prefer \in list => r.selected = prefer
  <1> DEFINE selected == IF list = {} THEN None
                         ELSE IF prefer \in list THEN prefer ELSE FirstOf(list)
             messages == IF list = {} THEN None ELSE p.messages
             r == [p EXCEPT !.known = list, !.selected = selected, !.messages = messages]
  <1>1. /\ selected \in Projects \cup {None} /\ messages \in Projects \cup {None}
        /\ list = {} \/ selected \in list
        /\ prefer \in list => selected = prefer
    BY FirstProject DEF Page
  <1>2. RenderProjects(p, list, prefer) = UpdateSelected(r)
    BY DEF RenderProjects
  <1> HIDE DEF selected, messages
  <1>3. /\ r \in Page /\ r.at = p.at /\ r.view = p.view /\ r.loading = p.loading
        /\ r.known = list /\ r.selected = selected
    BY <1>1 DEF Page
  <1> HIDE DEF r
  <1> QED
    BY <1>1, <1>2, <1>3, SelectedProject

\* An answer clears the flag of its route; that of the tasks updates the
\* buttons, and no other answer touches them.
LEMMA AppliedAnswer ==
  ASSUME NEW p \in Page, NEW q \in Request
  PROVE  LET r == Applied(p, q)
         IN /\ r \in Page
            /\ r.at = p.at /\ r.selected = p.selected /\ r.known = p.known /\ r.view = p.view
            /\ r.loading = p.loading \ {q.route}
            /\ \/ Usable(r)
               \/ q.route # "tasks" /\ r.tasks = p.tasks /\ r.buttons = p.buttons
  <1> DEFINE failed == p.failed \/ q.status # "ok"
             loading == p.loading \ {q.route}
             c == [p EXCEPT !.loading = loading, !.failed = failed]
  <1>1. [Cleared(p, q) EXCEPT !.failed = @ \/ q.status # "ok"] = c
    BY DEF Cleared, Page
  <1>2. failed \in BOOLEAN /\ loading \subseteq {"tasks", "configuration", "audit"}
    BY DEF Page
  <1>3. Applied(p, q) =
          CASE q.route = "messages" -> IF q.status = "ok" THEN [c EXCEPT !.messages = q.ws] ELSE c
            [] q.route = "tasks" ->
                 UpdateTaskLoop(IF q.status # "ok" THEN c
                                ELSE [c EXCEPT !.tasks = IF q.list = {} THEN None ELSE q.ws])
            [] q.route = "session" /\ q.status = "ok" -> [c EXCEPT !.actor = q.user]
            [] OTHER -> c
    BY <1>1 DEF Applied
  <1> HIDE DEF failed
  <1>4. /\ c \in Page
        /\ c.at = p.at /\ c.selected = p.selected /\ c.known = p.known /\ c.view = p.view
        /\ c.loading = loading /\ c.tasks = p.tasks /\ c.buttons = p.buttons
    BY <1>2 DEF Page
  <1> HIDE DEF c, loading
  <1>5. q.ws \in Projects \cup {None} /\ q.user \in Actors \cup {None}
    BY DEF Request
  <1> DEFINE Like(r) ==
        /\ r \in Page
        /\ r.at = p.at /\ r.selected = p.selected /\ r.known = p.known /\ r.view = p.view
        /\ r.loading = loading
      Alike(r) == Like(r) /\ r.tasks = p.tasks /\ r.buttons = p.buttons
  <1>6. Alike(c) /\ Alike([c EXCEPT !.messages = q.ws]) /\ Alike([c EXCEPT !.actor = q.user])
    BY <1>4, <1>5 DEF Page
  <1>7. \A ws \in Projects \cup {None} : Like([c EXCEPT !.tasks = ws])
    BY <1>4 DEF Page
  <1>8. CASE q.route = "tasks"
    <2> DEFINE d == IF q.status # "ok" THEN c
                    ELSE [c EXCEPT !.tasks = IF q.list = {} THEN None ELSE q.ws]
    <2>1. Like(d)
      BY <1>5, <1>6, <1>7
    <2>2. Applied(p, q) = UpdateTaskLoop(d)
      BY <1>3, <1>8
    <2> HIDE DEF d
    <2> QED
      BY <2>1, <2>2, TaskLoop DEF loading
  <1>9. CASE q.route # "tasks"
    <2>1. \/ Applied(p, q) = c
          \/ Applied(p, q) = [c EXCEPT !.messages = q.ws]
          \/ Applied(p, q) = [c EXCEPT !.actor = q.user]
      BY <1>3, <1>9
    <2>2. Alike(Applied(p, q))
      BY <1>6, <2>1
    <2> HIDE DEF Alike
    <2>3. q.route # "tasks" /\ Alike(Applied(p, q))
      BY <1>9, <2>2
    <2> QED
      BY <2>3 DEF Alike, Like, loading
  <1> QED
    BY <1>8, <1>9

\* The fetches of a step set the flags of their routes.
LEMMA StartedLoads ==
  ASSUME page \in Page, NEW steps, NEW fetched \in SUBSET steps
  PROVE  LET r == AfterStart(steps, fetched)
         IN /\ r \in Page
            /\ r.at = page.at /\ r.selected = page.selected /\ r.known = page.known
            /\ r.view = page.view
            /\ r.loading = page.loading \cup (fetched \cap {"tasks", "configuration", "audit"})
            /\ \/ Usable(r)
               \/ /\ "tasks" \in fetched => ~Shown("tasks")
                  /\ r.tasks = page.tasks /\ r.buttons = page.buttons
  <1> DEFINE none == Selected(page) = None
             messages == IF "messages" \in steps /\ Shown("messages") /\ none
                         THEN None ELSE page.messages
             tasks == IF "tasks" \in steps /\ Shown("tasks") /\ none THEN None ELSE page.tasks
             loading == page.loading \cup (fetched \cap {"tasks", "configuration", "audit"})
             p == [page EXCEPT !.messages = messages, !.tasks = tasks, !.loading = loading]
  <1>1. /\ messages \in Projects \cup {None} /\ tasks \in Projects \cup {None}
        /\ loading \subseteq {"tasks", "configuration", "audit"}
        /\ ~("tasks" \in steps /\ Shown("tasks")) => tasks = page.tasks
    BY DEF Page
  <1>2. AfterStart(steps, fetched) =
          IF "tasks" \in steps /\ Shown("tasks") THEN UpdateTaskLoop(p) ELSE p
    BY DEF AfterStart, Page
  <1> HIDE DEF messages, tasks, none
  <1>3. /\ p \in Page /\ p.at = page.at /\ p.selected = page.selected /\ p.known = page.known
        /\ p.view = page.view /\ p.loading = loading /\ p.tasks = tasks
        /\ p.buttons = page.buttons
    BY <1>1 DEF Page
  <1> HIDE DEF p
  <1>4. CASE "tasks" \in steps /\ Shown("tasks")
    BY <1>2, <1>3, <1>4, TaskLoop
  <1>5. CASE ~("tasks" \in steps /\ Shown("tasks"))
    BY <1>1, <1>2, <1>3, <1>5
  <1> QED
    BY <1>4, <1>5

-----------------------------------------------------------------------------
(* The runtime, the network and the other clients.                         *)

\* Requests go their way: none of the page is dropped and none is added.
LEMMA RequestsMoveOn ==
  ASSUME IInv, PInv, UNCHANGED <<context, page, handler, restore>>,
         projects' \in Nat, projects <= projects',
         \A x \in requests' :
           \/ x.by \notin Handlers /\ x.route # "projects"
           \/ \E y \in requests :
                /\ x.by = y.by /\ x.route = y.route
                /\ \/ x.route # "projects"
                   \/ x.list = 1..projects
                   \/ x.list = y.list /\ (x.status = "ok" => y.status = "ok"),
         \A y \in requests : \E x \in requests' : x.by = y.by /\ x.route = y.route
  PROVE  PInv'
  <1>1. /\ HandlersOk /\ FlagsOk /\ ButtonsOk /\ SelectionOk /\ RestoreOk
        /\ projects \in Nat
    BY RuntimeAssumption DEF PInv, IInv, TypeOK, RuntimeTypeOK
  <1>2. \A h \in Handlers : IsReady(h) => IsReady(h)'
    BY DEF IsReady, Pending
  <1>3. /\ Requested("tasks") => Requested("tasks")'
        /\ Requested("configuration") => Requested("configuration")'
        /\ Requested("audit") => Requested("audit")'
    BY DEF Requested
  <1>4. HandlersOk'
    BY <1>1 DEF HandlersOk
  <1>5. FlagsOk'
    <2>1. Selected(page)' = Selected(page)
      BY DEF Selected
    <2> QED
      BY <1>1, <1>2, <1>3, <2>1 DEF FlagsOk
  <1>6. ButtonsOk'
    BY <1>1 DEF ButtonsOk, Usable, Submitting, Selected
  <1>7. 1..projects \subseteq 1..projects'
    BY <1>1
  <1>8. SelectionOk'
    BY <1>1, <1>7 DEF SelectionOk
  <1>9. RestoreOk'
    BY <1>1, <1>7 DEF RestoreOk
  <1> QED
    BY <1>4, <1>5, <1>6, <1>8, <1>9 DEF PInv

\* One of them does.
LEMMA RequestMovesOn ==
  ASSUME IInv, PInv, UNCHANGED <<context, page, handler, restore>>,
         projects' \in Nat, projects <= projects',
         NEW q \in requests, NEW r, Replace(q, r), r.by = q.by, r.route = q.route,
         \/ r.route # "projects"
         \/ r.list = 1..projects
         \/ r.list = q.list /\ (r.status = "ok" => q.status = "ok")
  PROVE  PInv'
  <1>1. requests' = (requests \ {q}) \cup {r}
    BY DEF Replace
  <1> QED
    BY <1>1, RequestsMoveOn

\* A request reaches the server.
LEMMA ArrivePInv ==
  ASSUME IInv, PInv, NEW q \in requests, Arrive(q), UNCHANGED clientVars
  PROVE  PInv'
  <1>1. /\ q \in Request /\ projects \in Nat /\ projects' = projects
        /\ UNCHANGED <<context, page, handler, restore>>
    BY RuntimeAssumption DEF IInv, TypeOK, RuntimeTypeOK, Arrive, clientVars
  <1>2. \A status \in {"ok", "refused"} :
          LET a == Answer(q, status)
          IN a \in Request /\ a.by = q.by /\ a.route = q.route /\ a.list = q.list /\ a.status = status
    BY <1>1, Answered
  <1>3. CASE q.route = "projects"
    <2>1. CASE Replace(q, [Answer(q, "ok") EXCEPT !.list = Listed(q)])
      <3> DEFINE a == Answer(q, "ok")
                 r == [a EXCEPT !.list = Listed(q)]
      <3>1. a \in Request /\ a.by = q.by /\ a.route = q.route
        BY <1>2
      <3>2. Listed(q) = 1..projects
        BY <1>3 DEF Listed
      <3> HIDE DEF a
      <3>3. r.by = q.by /\ r.route = q.route /\ r.list = 1..projects
        BY <3>1, <3>2 DEF Request
      <3>4. Replace(q, r)
        BY <2>1 DEF a
      <3> HIDE DEF r
      <3> QED
        BY <1>1, <3>3, <3>4, RequestMovesOn
    <2>2. CASE Replace(q, Answer(q, "refused"))
      <3> DEFINE r == Answer(q, "refused")
      <3>1. r.by = q.by /\ r.route = q.route /\ r.list = q.list /\ r.status # "ok"
        BY <1>2
      <3>2. Replace(q, r)
        BY <2>2
      <3> HIDE DEF r
      <3> QED
        BY <1>1, <3>1, <3>2, RequestMovesOn
    <2> QED
      BY <1>3, <2>1, <2>2 DEF Arrive, Writes, OnTasks
  <1>4. CASE q.route # "projects"
    <2>1. ASSUME NEW r, Replace(q, r), r.by = q.by, r.route = q.route
          PROVE  PInv'
      BY <1>1, <1>4, <2>1, RequestMovesOn
    <2> DEFINE a == Answer(q, "ok")
               b == Answer(q, "refused")
    <2>2. /\ a \in Request /\ a.by = q.by /\ a.route = q.route
          /\ b \in Request /\ b.by = q.by /\ b.route = q.route
      BY <1>2
    <2>3. PICK user, list, live, id :
            \/ Replace(q, [a EXCEPT !.user = user])
            \/ Replace(q, a)
            \/ Replace(q, [q EXCEPT !.phase = "reading", !.live = live, !.caller = id])
            \/ Replace(q, [a EXCEPT !.list = list])
            \/ Replace(q, b)
      BY DEF Arrive
    <2> HIDE DEF a, b
    <2>4. /\ [a EXCEPT !.user = user].by = q.by /\ [a EXCEPT !.user = user].route = q.route
          /\ [a EXCEPT !.list = list].by = q.by /\ [a EXCEPT !.list = list].route = q.route
      BY <2>2 DEF Request
    <2> DEFINE r == [q EXCEPT !.phase = "reading", !.live = live, !.caller = id]
    <2>5. r.by = q.by /\ r.route = q.route
      BY <1>1 DEF Request
    <2> QED
      BY <2>1, <2>2, <2>3, <2>4, <2>5
  <1> QED
    BY <1>3, <1>4

\* The server answers a request; every project there is is in its list.
LEMMA ServePInv ==
  ASSUME IInv, PInv, NEW q \in requests, Serve(q), UNCHANGED clientVars
  PROVE  PInv'
  <1>1. /\ q \in Request /\ projects \in Nat /\ RequestOk(q, sessions) /\ q.status = "none"
        /\ UNCHANGED <<context, page, handler, restore>>
    BY RuntimeAssumption DEF IInv, TypeOK, RuntimeTypeOK, Serve, RequestOk, clientVars
  <1>2. projects' \in Nat /\ projects <= projects'
    <2>1. projects' = projects \/ projects' = projects + 1
      BY DEF Serve, Checkout, Release, SubmitOutput, DecideApproval, Plan, PostMessage,
             CreateProject, SaveConfiguration, SignIn, Refuse, Operate
    <2> QED
      BY <1>1, <2>1
  <1>3. \A status \in {"ok", "refused"} :
          LET a == Answer(q, status)
          IN a \in Request /\ a.by = q.by /\ a.route = q.route /\ a.list = q.list /\ a.status = status
    BY <1>1, Answered
  <1>4. CASE Refuse(q)
    <2> DEFINE r == Answer(q, "refused")
    <2>1. r.by = q.by /\ r.route = q.route /\ r.list = q.list /\ r.status # "ok"
      BY <1>3
    <2>2. Replace(q, r)
      BY <1>4 DEF Refuse
    <2> HIDE DEF r
    <2> QED
      BY <1>1, <1>2, <2>1, <2>2, RequestMovesOn
  <1>5. CASE ~Refuse(q)
    <2>1. q.route # "projects"
      BY <1>5 DEF Serve, Checkout, Release, SubmitOutput, DecideApproval, Plan, PostMessage,
                  CreateProject, SaveConfiguration, SignIn
    <2> DEFINE a == Answer(q, "ok")
    <2>2. a \in Request /\ a.by = q.by /\ a.route = q.route
      BY <1>3
    <2>3. PICK user, list, id :
            \/ Replace(q, a)
            \/ Replace(q, [a EXCEPT !.user = user])
            \/ Replace(q, [a EXCEPT !.list = list])
            \/ Replace(q, [a EXCEPT !.issued = id, !.user = user])
      BY <1>5 DEF Serve, Checkout, Release, SubmitOutput, DecideApproval, Plan, PostMessage,
                  CreateProject, SaveConfiguration, SignIn, Operate
    <2> HIDE DEF a
    <2> DEFINE c == [a EXCEPT !.issued = id, !.user = user]
    <2>4. /\ [a EXCEPT !.user = user].by = q.by /\ [a EXCEPT !.user = user].route = q.route
          /\ [a EXCEPT !.list = list].by = q.by /\ [a EXCEPT !.list = list].route = q.route
          /\ c.by = q.by /\ c.route = q.route
      BY <2>2 DEF Request
    <2>5. ASSUME NEW r, Replace(q, r), r.by = q.by, r.route = q.route
          PROVE  PInv'
      BY <1>1, <1>2, <2>1, <2>5, RequestMovesOn
    <2> QED
      BY <2>2, <2>3, <2>4, <2>5
  <1> QED
    BY <1>4, <1>5

\* Other users, other tabs and the process leave the page alone.
LEMMA WorldPInv ==
  ASSUME IInv, PInv, World
  PROVE  PInv'
  <1>1. projects \in Nat /\ \A x \in requests : x \in Request
    BY RuntimeAssumption DEF IInv, TypeOK, RuntimeTypeOK
  <1>2. UNCHANGED <<context, page, handler, restore, projects>>
    BY DEF World, OtherTab, AgentSends, Lose, Expire, Stop, Restart, RuntimeOnly
  <1>3. CASE UNCHANGED requests
    BY <1>1, <1>2, <1>3, RequestsMoveOn
  <1>4. CASE AgentSends
    <2>1. PICK r : requests' = requests \cup {r} /\ r.by = Agent /\ r.route # "projects"
      <3>1. \A route, ws, task, owner :
              LET r == NewRequest(Agent, route, cookie, ws, task, owner)
              IN r.by = Agent /\ r.route = route
        BY DEF NewRequest
      <3>2. PICK route, ws, task, owner :
              /\ route # "projects"
              /\ requests' = requests \cup {NewRequest(Agent, route, cookie, ws, task, owner)}
        BY <1>4 DEF AgentSends
      <3> QED
        BY <3>1, <3>2
    <2>2. r.by \notin Handlers
      BY <2>1, WorkspaceAssumption
    <2> QED
      BY <1>1, <1>2, <2>1, <2>2, RequestsMoveOn
  <1>5. ASSUME NEW q \in requests, Lose(q)
        PROVE  PInv'
    <2> DEFINE r == Answer(q, "lost")
    <2>1. r.by = q.by /\ r.route = q.route /\ r.list = q.list /\ r.status # "ok"
      BY <1>1, Answered
    <2>2. Replace(q, r)
      BY <1>5 DEF Lose
    <2> HIDE DEF r
    <2> QED
      BY <1>1, <1>2, <2>1, <2>2, RequestMovesOn
  <1> QED
    BY <1>3, <1>4, <1>5 DEF World, OtherTab, Expire, Stop, Restart

\* The server closes, and the store after it.
LEMMA ClosedPInv ==
  ASSUME IInv, PInv, Closed, UNCHANGED clientVars
  PROVE  PInv'
  <1>1. /\ projects \in Nat
        /\ UNCHANGED <<context, page, handler, restore, projects, requests>>
    BY RuntimeAssumption DEF IInv, TypeOK, RuntimeTypeOK, Closed, clientVars
  <1> QED
    BY <1>1, RequestsMoveOn

-----------------------------------------------------------------------------
(* A handler runs to its next fetch.                                       *)

\* With the chat in view and a project selected no step is skipped.
LEMMA NothingSkipped ==
  ASSUME NEW s, Selected(page) # None, page.view = "main-chat"
  PROVE  \E x \in Resolve(s) : Fetches(x)
  <1>1. \A x : Fetches(x)
    BY DEF Fetches, Shown, IsTimelineView
  <1>2. Resolve(s) # {}
    BY DEF Resolve
  <1> QED
    BY <1>1, <1>2

\* A handler makes the fetches of its next step, or skips it.
LEMMA RunPInv ==
  ASSUME IInv, PInv, NEW h \in Handlers, Run(h)
  PROVE  PInv'
  <1> DEFINE todo == handler[h].todo
             s == Head(todo)
             steps == Resolve(s)
             fetched == {x \in steps : Fetches(x)}
  <1>1. /\ HandlersOk /\ FlagsOk /\ ButtonsOk /\ SelectionOk /\ RestoreOk
        /\ page \in Page /\ DOMAIN handler = Handlers /\ handler[h] \in Handler
        /\ \A q \in requests : q.by # h
        /\ todo # <<>> /\ todo \in Chains
        /\ UNCHANGED <<projects, context, restore>>
    BY DEF IInv, TypeOK, ClientTypeOK, PInv, Run, IsReady, Pending, HandlersOk
  <1>2. /\ requests' = requests \cup {Sent(h, x) : x \in fetched}
        /\ page' = IF fetched = {} THEN Finally(AfterStart(steps, fetched), h, Tail(todo))
                   ELSE AfterStart(steps, fetched)
        /\ handler' = IF fetched = {} THEN [handler EXCEPT ![h].todo = Tail(@)] ELSE handler
    BY DEF Run
  <1>3. /\ page'.at = page.at /\ page'.selected = page.selected /\ page'.known = page.known
        /\ page'.view = page.view
        /\ page'.loading = page.loading \cup (fetched \cap {"tasks", "configuration", "audit"})
        /\ \/ Usable(page')
           \/ /\ "tasks" \notin fetched
              /\ page'.tasks = page.tasks /\ page'.buttons = page.buttons
    <2>1. fetched \in SUBSET steps /\ ("tasks" \in fetched => Shown("tasks"))
      BY DEF Fetches
    <2> HIDE DEF fetched, steps
    <2> DEFINE r == AfterStart(steps, fetched)
               on == [r EXCEPT !.buttons = TRUE]
    <2>2. /\ r \in Page
          /\ r.at = page.at /\ r.selected = page.selected /\ r.known = page.known
          /\ r.view = page.view
          /\ r.loading = page.loading \cup (fetched \cap {"tasks", "configuration", "audit"})
          /\ \/ Usable(r)
             \/ /\ "tasks" \notin fetched
                /\ r.tasks = page.tasks /\ r.buttons = page.buttons
      BY <1>1, <2>1, StartedLoads
    <2>3. page' \in {r, on}
      BY <1>2 DEF Finally
    <2> HIDE DEF r
    <2>4. /\ on.at = r.at /\ on.selected = r.selected /\ on.known = r.known
          /\ on.view = r.view /\ on.loading = r.loading /\ Usable(on)
      BY <2>2 DEF Page, Usable
    <2> HIDE DEF on
    <2> QED
      BY <2>2, <2>3, <2>4
  <1>4. \A x : /\ Sent(h, x).by = h /\ Sent(h, x).route = x
               /\ Sent(h, x).list = {} /\ Sent(h, x).status = "none"
    BY DEF Sent, NewRequest
  <1>5. /\ \A g \in Handlers \ {h} : handler'[g] = handler[g]
        /\ handler'[h].submits = handler[h].submits /\ handler'[h].prefer = handler[h].prefer
        /\ IF fetched = {} THEN handler'[h].todo = Tail(todo) ELSE handler' = handler
    <2> HIDE DEF fetched
    <2>1. CASE fetched = {}
      <3>1. handler' = [handler EXCEPT ![h] = [handler[h] EXCEPT !.todo = Tail(todo)]]
        BY <1>2, <2>1
      <3> DEFINE next == [handler[h] EXCEPT !.todo = Tail(todo)]
      <3>2. /\ next.submits = handler[h].submits /\ next.prefer = handler[h].prefer
            /\ next.todo = Tail(todo)
        BY <1>1 DEF Handler
      <3> HIDE DEF next
      <3>3. /\ handler'[h] = next
            /\ \A g \in Handlers \ {h} : handler'[g] = handler[g]
        BY <1>1, <3>1 DEF next
      <3> QED
        BY <2>1, <3>2, <3>3
    <2>2. CASE fetched # {}
      BY <1>2, <2>2
    <2> QED
      BY <2>1, <2>2
  <1>6. fetched \subseteq RoutesOf(s)
    BY DEF Resolve, RoutesOf
  <1>7. \A q \in requests' : \/ q \in requests
                            \/ /\ q.by = h /\ q.route \in fetched /\ fetched # {}
                               /\ q.list = {} /\ q.status = "none"
    BY <1>2, <1>4
  <1>8. \A x \in fetched : \E q \in requests' : q.by = h /\ q.route = x
    BY <1>2, <1>4
  <1>9. requests \subseteq requests' /\ (fetched = {} => requests' = requests)
    BY <1>2
  <1>10. fetched = {"configuration"} \/ s # "configuration"
    BY DEF Resolve, Fetches, Shown, NeedsProject, OnTasks
  <1>11. page.view = "audit-timeline" /\ Selected(page) # None =>
           /\ s \in {"audit", "pane"} => "audit" \in fetched
           /\ s = "messages" => fetched = {}
    BY DEF Resolve, Fetches, Shown, IsTimelineView
  <1>12. page.view = "main-chat" /\ Selected(page) # None => fetched # {}
    BY NothingSkipped
  <1>13. /\ Tail(todo) \in Chains
         /\ Tail(todo) \notin {<<"session", "projects">>, <<"create_project", "projects">>}
         /\ Tail(todo) = <<"projects">> =>
              todo \in {<<"session", "projects">>, <<"create_project", "projects">>}
         /\ todo \in {<<"session">>, <<"sign_in">>} => Tail(todo) = <<>>
    BY <1>1, ChainTails
  <1>14. Selected(page') = Selected(page)
    BY <1>3 DEF Selected
  <1> HIDE DEF fetched, steps
  <1>15. HandlersOk'
    <2>1. \A g \in Handlers :
            /\ handler'[g].todo \in Chains
            /\ page'.at # "app" => handler'[g].todo \in {<<>>, <<"session">>, <<"sign_in">>}
      BY <1>1, <1>3, <1>5, <1>13 DEF HandlersOk
    <2>2. ASSUME NEW q \in requests', q.by \in Handlers, handler'[q.by].todo # <<>>
          PROVE  q.route \in RoutesOf(Head(handler'[q.by].todo))
      <3>1. CASE q \in requests
        BY <1>1, <1>5, <2>2, <3>1 DEF HandlersOk
      <3>2. CASE q.by = h /\ q.route \in fetched /\ fetched # {}
        BY <1>5, <1>6, <3>2
      <3> QED
        BY <1>7, <3>1, <3>2
    <2> QED
      BY <2>1, <2>2 DEF HandlersOk
  <1>16. FlagsOk'
    <2>1. \A x : Requested(x) \/ x \in fetched => \E q \in requests' : q.by \in Handlers /\ q.route = x
      BY <1>8, <1>9 DEF Requested
    <2>2. \A g \in Handlers \ {h} : IsReady(g) => IsReady(g)' /\ handler'[g] = handler[g]
      BY <1>5, <1>7 DEF IsReady, Pending
    <2>3. /\ Requested("tasks") \/ "tasks" \in fetched => Requested("tasks")'
          /\ Requested("configuration") \/ "configuration" \in fetched => Requested("configuration")'
          /\ Requested("audit") \/ "audit" \in fetched => Requested("audit")'
      BY <2>1 DEF Requested
    <2>4. "tasks" \in page'.loading => Requested("tasks")'
      BY <1>1, <1>3, <2>3 DEF FlagsOk
    <2>5. "configuration" \in page'.loading =>
            \/ Requested("configuration")'
            \/ \E g \in Handlers : IsReady(g)' /\ Head(handler'[g].todo) = "configuration"
      <3>1. CASE "configuration" \in fetched
        BY <2>3, <3>1
      <3>2. CASE "configuration" \notin fetched /\ "configuration" \in page.loading
        BY <1>1, <1>10, <2>2, <2>3, <3>2 DEF FlagsOk
      <3> QED
        BY <1>3, <3>1, <3>2
    <2>6. ASSUME "audit" \in page'.loading, page'.view = "audit-timeline", Selected(page') # None
          PROVE  \/ Requested("audit")'
                 \/ \E g \in Handlers :
                      /\ IsReady(g)'
                      /\ \/ Head(handler'[g].todo) \in {"audit", "pane"}
                         \/ handler'[g].todo = <<"messages", "pane">>
      <3>1. CASE "audit" \in fetched
        BY <2>3, <3>1
      <3>2. CASE "audit" \notin fetched
        <4>1. "audit" \in page.loading /\ page.view = "audit-timeline" /\ Selected(page) # None
          BY <1>3, <1>14, <2>6, <3>2
        <4>2. CASE Requested("audit")
          BY <2>3, <4>2
        <4>3. ASSUME NEW g \in Handlers, IsReady(g),
                     \/ Head(handler[g].todo) \in {"audit", "pane"}
                     \/ handler[g].todo = <<"messages", "pane">>
              PROVE  \E f \in Handlers :
                       /\ IsReady(f)'
                       /\ \/ Head(handler'[f].todo) \in {"audit", "pane"}
                          \/ handler'[f].todo = <<"messages", "pane">>
          <5>1. CASE g # h
            BY <2>2, <4>3, <5>1
          <5>2. CASE g = h
            <6>1. todo = <<"messages", "pane">>
              BY <1>11, <3>2, <4>1, <4>3, <5>2
            <6>2. fetched = {}
              BY <1>11, <4>1, <6>1
            <6>3. handler'[h].todo = <<"pane">>
              BY <1>5, <6>1, <6>2
            <6>4. IsReady(h)'
              BY <1>1, <1>9, <6>2, <6>3 DEF IsReady, Pending
            <6> QED
              BY <6>3, <6>4
          <5> QED
            BY <5>1, <5>2
        <4> QED
          BY <1>1, <4>1, <4>2, <4>3 DEF FlagsOk
      <3> QED
        BY <3>1, <3>2
    <2> QED
      BY <2>4, <2>5, <2>6 DEF FlagsOk
  <1>17. ButtonsOk'
    <2>1. CASE Usable(page')
      BY <2>1 DEF ButtonsOk
    <2>2. CASE ~Usable(page')
      <3>1. "tasks" \notin fetched /\ page'.tasks = page.tasks /\ page'.buttons = page.buttons
        BY <1>3, <2>2
      <3>2. Selected(page) # None /\ page.view = "main-chat" /\ ~Usable(page)
        BY <1>3, <1>14, <2>2, <3>1 DEF Usable
      <3>3. handler' = handler /\ Submitting
        BY <1>1, <1>5, <1>12, <3>2 DEF ButtonsOk
      <3> QED
        BY <3>3 DEF ButtonsOk, Submitting
    <2> QED
      BY <2>1, <2>2
  <1>18. SelectionOk'
    BY <1>1, <1>3, <1>7 DEF SelectionOk
  <1>19. RestoreOk'
    BY <1>1, <1>3, <1>5, <1>7, <1>13 DEF RestoreOk
  <1> QED
    BY <1>15, <1>16, <1>17, <1>18, <1>19 DEF PInv

-----------------------------------------------------------------------------
(* Clicks.                                                                 *)

\* A page that is quiet has no handler about to fetch.
LEMMA QuietMeans ==
  ASSUME Quiet
  PROVE  \A h \in Handlers : ~IsReady(h)
  BY DEF Quiet

\* A click gives an idle handler its work; a flag it sets has a load ahead.
LEMMA ClickPInv ==
  ASSUME IInv, PInv, Quiet, UNCHANGED <<requests, projects>>, restore' = None,
         NEW h \in Handlers, IsIdle(h), page.at = "app",
         NEW c, handler' = [handler EXCEPT ![h] = c], c.todo \in Chains,
         page'.at = "app", page'.known = page.known,
         page'.known = {} \/ page'.selected \in page'.known,
         context' = [project |-> page'.selected, view |-> page'.view],
         "tasks" \in page'.loading => "tasks" \in page.loading,
         "configuration" \in page'.loading =>
           "configuration" \in page.loading \/ c.todo = <<"configuration">>,
         "audit" \in page'.loading /\ page'.view = "audit-timeline" /\ Selected(page') # None =>
           \/ c.todo = <<"audit">>
           \/ "audit" \in page.loading /\ page.view = "audit-timeline" /\ Selected(page) # None,
         Usable(page') \/ (c.submits /\ c.todo # <<>>) \/ page' = page
  PROVE  PInv'
  <1>1. /\ HandlersOk /\ FlagsOk /\ ButtonsOk /\ SelectionOk
        /\ DOMAIN handler = Handlers
        /\ handler[h].todo = <<>> /\ \A q \in requests : q.by # h
    BY DEF IInv, TypeOK, ClientTypeOK, PInv, IsIdle, Pending
  <1>2. handler'[h] = c /\ \A g \in Handlers \ {h} : handler'[g] = handler[g]
    BY <1>1
  <1>3. HandlersOk'
    BY <1>1, <1>2 DEF HandlersOk
  <1>4. FlagsOk'
    <2>1. c.todo \in {<<"configuration">>, <<"audit">>} =>
            IsReady(h)' /\ Head(handler'[h].todo) \in {"configuration", "audit"}
              /\ Head(handler'[h].todo) = Head(c.todo)
      BY <1>1, <1>2 DEF IsReady, Pending
    <2>2. /\ Requested("tasks") => Requested("tasks")'
          /\ Requested("configuration") => Requested("configuration")'
          /\ Requested("audit") => Requested("audit")'
      BY DEF Requested
    <2>3. /\ "tasks" \in page.loading => Requested("tasks")
          /\ "configuration" \in page.loading => Requested("configuration")
          /\ "audit" \in page.loading /\ page.view = "audit-timeline" /\ Selected(page) # None =>
               Requested("audit")
      BY <1>1, QuietMeans DEF FlagsOk
    <2>4. Head(<<"configuration">>) = "configuration" /\ Head(<<"audit">>) = "audit"
      OBVIOUS
    <2> QED
      BY <2>1, <2>2, <2>3, <2>4 DEF FlagsOk
  <1>5. ButtonsOk'
    <2>1. CASE Usable(page')
      BY <2>1 DEF ButtonsOk
    <2>2. CASE c.submits /\ c.todo # <<>>
      BY <1>2, <2>2 DEF ButtonsOk, Submitting
    <2>3. CASE page' = page /\ ~Usable(page')
      <3>1. Submitting
        BY <1>1, <2>3 DEF ButtonsOk
      <3>2. Submitting'
        BY <1>1, <1>2, <3>1 DEF Submitting
      <3> QED
        BY <3>2 DEF ButtonsOk
    <2> QED
      BY <2>1, <2>2, <2>3
  <1>6. SelectionOk'
    BY <1>1 DEF SelectionOk
  <1>7. RestoreOk'
    BY DEF RestoreOk
  <1> QED
    BY <1>3, <1>4, <1>5, <1>6, <1>7 DEF PInv

\* A click leaves its handler with the chain it starts.
LEMMA StartedChain ==
  ASSUME NEW todo
  PROVE  [Idle EXCEPT !.todo = todo].todo = todo
  BY DEF Idle

\* Each view loads its panes by a chain.
LEMMA PanesChain == \A v : PanesOf(v) \in Chains
  BY DEF PanesOf, Chains, Singles, Pairs

\* The user selects a project.
LEMMA SelectProjectPInv ==
  ASSUME IInv, PInv, Quiet, NEW h \in Handlers, NEW p \in Projects, SelectProject(h, p)
  PROVE  PInv'
  <1>1. /\ page \in Page /\ IsIdle(h) /\ page.at = "app" /\ restore' = None
        /\ UNCHANGED <<requests, projects>> /\ p \in page.known
        /\ page.known = {} \/ page.selected \in page.known
    BY DEF IInv, TypeOK, ClientTypeOK, SelectProject, Click, Untouched, runtimeVars, PInv, SelectionOk
  <1> DEFINE d == [page EXCEPT !.selected = p]
             c == [Idle EXCEPT !.todo = PanesOf(page.view)]
  <1>2. /\ d \in Page /\ d.at = page.at /\ d.selected = p /\ d.known = page.known
        /\ d.view = page.view /\ d.loading = page.loading
    BY <1>1 DEF Page
  <1>3. page' = UpdateSelected(d)
    BY DEF SelectProject
  <1> HIDE DEF d
  <1>4. /\ Usable(page') /\ page'.at = "app" /\ page'.selected = p /\ page'.known = page.known
        /\ page'.view = page.view /\ page'.loading = page.loading
    BY <1>1, <1>2, <1>3, SelectedProject
  <1>5. handler' = [handler EXCEPT ![h] = c] /\ c.todo = PanesOf(page.view) /\ c.todo \in Chains
    BY StartedChain, PanesChain DEF SelectProject, Start
  <1> HIDE DEF c
  <1>6. Selected(page) # None
    BY <1>1, RuntimeAssumption DEF Selected, Page, Projects
  <1>7. context' = [project |-> page'.selected, view |-> page'.view]
    BY <1>4 DEF SelectProject
  <1> QED
    BY <1>1, <1>4, <1>5, <1>6, <1>7, ClickPInv

\* The user opens a view.
LEMMA SetActiveViewPInv ==
  ASSUME IInv, PInv, Quiet, NEW h \in Handlers, NEW v \in Views, SetActiveView(h, v)
  PROVE  PInv'
  <1> DEFINE flags == page.loading \cup (IF v = "assigned-agents" THEN {"configuration"}
                                         ELSE IF v = "audit-timeline" THEN {"audit"} ELSE {})
             d == [page EXCEPT !.view = v, !.loading = flags]
             todo == IF v = "assigned-agents" THEN <<"configuration">> ELSE PanesOf(v)
             c == [Idle EXCEPT !.todo = todo]
  <1>1. /\ page \in Page /\ IsIdle(h) /\ page.at = "app" /\ restore' = None
        /\ UNCHANGED <<requests, projects>>
        /\ page.known = {} \/ page.selected \in page.known
    BY DEF IInv, TypeOK, ClientTypeOK, SetActiveView, Click, Untouched, runtimeVars, PInv, SelectionOk
  <1>2. flags \subseteq {"tasks", "configuration", "audit"}
    BY <1>1 DEF Page
  <1>3. page' = UpdateSelected(d)
    BY <1>1 DEF SetActiveView, Page
  <1>4. /\ "tasks" \in flags => "tasks" \in page.loading
        /\ "configuration" \in flags => "configuration" \in page.loading \/ todo = <<"configuration">>
        /\ v = "audit-timeline" => todo = <<"audit">>
    BY DEF PanesOf, IsTimelineView
  <1>5. todo \in Chains
    BY PanesChain DEF Chains, Singles
  <1> HIDE DEF flags, todo
  <1>6. /\ d \in Page /\ d.at = page.at /\ d.selected = page.selected /\ d.known = page.known
        /\ d.view = v /\ d.loading = flags
    BY <1>1, <1>2 DEF Page
  <1> HIDE DEF d
  <1>7. /\ Usable(page') /\ page'.at = "app" /\ page'.selected = page.selected
        /\ page'.known = page.known /\ page'.view = v /\ page'.loading = flags
    BY <1>1, <1>3, <1>6, SelectedProject
  <1>8. handler' = [handler EXCEPT ![h] = c] /\ c.todo = todo
    BY StartedChain DEF SetActiveView, Start, todo
  <1> HIDE DEF c
  <1>9. context' = [project |-> page'.selected, view |-> page'.view]
    BY <1>7 DEF SetActiveView
  <1> QED
    BY <1>1, <1>4, <1>5, <1>7, <1>8, <1>9, ClickPInv

\* The user presses a button.
LEMMA PressPInv ==
  ASSUME IInv, PInv, Quiet, NEW h \in Handlers, Press(h)
  PROVE  PInv'
  <1>1. /\ IsIdle(h) /\ page.at = "app" /\ restore' = None
        /\ UNCHANGED <<requests, projects, page, context>>
        /\ page.known = {} \/ page.selected \in page.known
        /\ context = [project |-> page.selected, view |-> page.view]
    BY DEF Press, Click, Untouched, runtimeVars, PInv, SelectionOk
  <1>2. PICK todo \in Buttons : Start(h, todo)
    BY DEF Press
  <1> DEFINE c == [Idle EXCEPT !.todo = todo]
  <1>3. todo \in Chains
    BY DEF Buttons, Chains, Singles, Pairs, Triples
  <1>4. handler' = [handler EXCEPT ![h] = c] /\ c.todo = todo
    BY <1>2, StartedChain DEF Start
  <1> HIDE DEF c
  <1> QED
    BY <1>1, <1>3, <1>4, ClickPInv

\* The user submits, and the buttons wait for the answer.
LEMMA SubmitWorkPInv ==
  ASSUME IInv, PInv, Quiet, NEW h \in Handlers, SubmitWork(h)
  PROVE  PInv'
  <1>1. /\ page \in Page /\ IsIdle(h) /\ page.at = "app" /\ restore' = None
        /\ UNCHANGED <<requests, projects, context>> /\ page' = [page EXCEPT !.buttons = FALSE]
        /\ page.known = {} \/ page.selected \in page.known
        /\ context = [project |-> page.selected, view |-> page.view]
    BY DEF IInv, TypeOK, ClientTypeOK, SubmitWork, Click, Untouched, runtimeVars, PInv, SelectionOk
  <1>2. PICK route \in {"output", "approval"}, owner \in Actors \cup {"delegate"} :
          handler' = [handler EXCEPT ![h] =
            [Idle EXCEPT !.todo = <<route, "both">>, !.task = page.tasks,
                         !.owner = owner, !.submits = TRUE]]
    BY DEF SubmitWork
  <1> DEFINE c == [Idle EXCEPT !.todo = <<route, "both">>, !.task = page.tasks,
                               !.owner = owner, !.submits = TRUE]
  <1>3. c.todo = <<route, "both">> /\ c.submits
    BY DEF Idle
  <1>4. handler' = [handler EXCEPT ![h] = c]
    BY <1>2
  <1> HIDE DEF c
  <1>5. c.todo \in Chains /\ c.todo # <<>>
    BY <1>2, <1>3 DEF Chains, Pairs
  <1>6. /\ page'.at = "app" /\ page'.selected = page.selected /\ page'.known = page.known
        /\ page'.view = page.view /\ page'.loading = page.loading
    BY <1>1 DEF Page
  <1>7. Selected(page') = Selected(page)
    BY <1>6 DEF Selected
  <1> QED
    BY <1>1, <1>3, <1>4, <1>5, <1>6, <1>7, ClickPInv

\* The user signs in with the form.
LEMMA SignInHerePInv ==
  ASSUME IInv, PInv, NEW h \in Handlers, SignInHere(h)
  PROVE  PInv'
  <1> DEFINE c == [Idle EXCEPT !.todo = <<"sign_in">>]
  <1>1. /\ HandlersOk /\ FlagsOk /\ ButtonsOk /\ SelectionOk /\ RestoreOk
        /\ DOMAIN handler = Handlers /\ page.at # "app"
        /\ UNCHANGED <<requests, projects, page, context, restore>>
        /\ \A g \in Handlers : handler[g].todo = <<>> /\ Pending(g) = {} /\ ~IsReady(g)
    BY DEF IInv, TypeOK, ClientTypeOK, PInv, SignInHere, Untouched, runtimeVars, IsIdle, IsReady
  <1>2. handler' = [handler EXCEPT ![h] = c] /\ c.todo = <<"sign_in">>
    BY StartedChain DEF SignInHere, Start
  <1>3. c.todo \in Chains /\ <<"sign_in">> # <<"create_project", "projects">>
    BY <1>2 DEF Chains, Singles
  <1> HIDE DEF c
  <1>4. handler'[h] = c /\ \A g \in Handlers \ {h} : handler'[g] = handler[g]
    BY <1>1, <1>2
  <1>5. HandlersOk'
    BY <1>1, <1>2, <1>3, <1>4 DEF HandlersOk, Pending
  <1>6. FlagsOk'
    BY <1>1 DEF FlagsOk, Requested, Selected
  <1>7. ButtonsOk'
    BY <1>1 DEF ButtonsOk, Submitting, Usable, Selected
  <1>8. SelectionOk'
    BY <1>1 DEF SelectionOk
  <1>9. RestoreOk'
    BY <1>1, <1>2, <1>3, <1>4 DEF RestoreOk
  <1> QED
    BY <1>5, <1>6, <1>7, <1>8, <1>9 DEF PInv

-----------------------------------------------------------------------------
(* A page that opens.                                                      *)

\* A page that opens drops its requests and handlers and starts from its context.
LEMMA NavigatePInv ==
  ASSUME IInv, PInv, NEW p, NEW todo, Navigate(p, todo, requests), UNCHANGED <<projects, context>>,
         p.known = {} /\ p.loading = {} /\ p.tasks = None,
         p.at = "app" => /\ todo = <<"session", "projects">>
                         /\ p.selected = context.project /\ p.view = context.view,
         p.at # "app" => todo \in {<<>>, <<"session">>},
         restore' # None => restore' = context /\ context.project \in 1..projects
  PROVE  PInv'
  <1> DEFINE first == CHOOSE g \in Handlers : TRUE
             c == [Idle EXCEPT !.todo = todo, !.prefer = p.selected]
  <1>1. /\ SelectionOk /\ context \in Context /\ page' = p
        /\ requests' \subseteq requests /\ \A q \in requests' : q.by \notin Handlers
        /\ handler' = [h \in Handlers |-> IF h = first THEN c ELSE Idle]
    BY DEF IInv, TypeOK, ClientTypeOK, PInv, Navigate
  <1>2. c.todo = todo /\ c.prefer = p.selected /\ Idle.todo = <<>>
    BY DEF Idle
  <1> HIDE DEF c, first
  <1>3. \A h \in Handlers :
          \/ handler'[h].todo = todo /\ handler'[h].prefer = p.selected
          \/ handler'[h].todo = <<>>
    BY <1>1, <1>2
  <1>4. /\ todo \in Chains /\ <<>> \in Chains
        /\ todo # <<"create_project", "projects">> /\ <<>> # <<"create_project", "projects">>
        /\ todo \in {<<"session", "projects">>, <<"projects">>} => p.at = "app"
        /\ <<>> \notin {<<"session", "projects">>, <<"projects">>}
    BY DEF Chains, Singles, Pairs
  <1>5. HandlersOk'
    BY <1>1, <1>3, <1>4 DEF HandlersOk
  <1>6. FlagsOk'
    BY <1>1 DEF FlagsOk
  <1>7. ButtonsOk'
    BY <1>1 DEF ButtonsOk, Usable
  <1>8. SelectionOk'
    <2>1. context = [project |-> context.project, view |-> context.view]
      BY <1>1 DEF Context
    <2> QED
      BY <1>1, <2>1 DEF SelectionOk
  <1>9. RestoreOk'
    BY <1>1, <1>3, <1>4 DEF RestoreOk
  <1> QED
    BY <1>5, <1>6, <1>7, <1>8, <1>9 DEF PInv

\* The root is the page proper for a session, and the form without one.
LEMMA OpenRootPInv ==
  ASSUME IInv, PInv, NEW id, OpenRoot(id, requests), UNCHANGED <<projects, context>>,
         restore' # None => restore' = context /\ context.project \in 1..projects
  PROVE  PInv'
  <1>1. /\ Opened.at = "app" /\ Opened.known = {} /\ Opened.loading = {} /\ Opened.tasks = None
        /\ Opened.selected = context.project /\ Opened.view = context.view
    BY DEF Opened
  <1> DEFINE error == [LoginPage EXCEPT !.at = "error"]
  <1>2. /\ LoginPage.at = "login" /\ LoginPage.known = {} /\ LoginPage.loading = {}
        /\ LoginPage.tasks = None
        /\ error.at = "error" /\ error.known = {} /\ error.loading = {} /\ error.tasks = None
    BY DEF LoginPage, Opened
  <1>3. \/ Navigate(error, <<>>, requests)
        \/ Navigate(Opened, <<"session", "projects">>, requests)
        \/ Navigate(LoginPage, <<"session">>, requests)
    BY DEF OpenRoot
  <1> HIDE DEF error
  <1> QED
    BY <1>1, <1>2, <1>3, NavigatePInv

\* The user refreshes the page.
LEMMA ReloadPInv ==
  ASSUME IInv, PInv, Reload
  PROVE  PInv'
  <1>1. /\ SelectionOk /\ page \in Page /\ projects \in Nat
    BY RuntimeAssumption DEF IInv, TypeOK, RuntimeTypeOK, ClientTypeOK, PInv
  <1>2. restore' # None => restore' = context /\ context.project \in 1..projects
    <2>1. SUFFICES ASSUME Settled, Selected(page) # None,
                          restore' = [project |-> page.selected, view |-> page.view]
                   PROVE  restore' = context /\ context.project \in 1..projects
      BY DEF Reload
    <2>2. context = [project |-> page.selected, view |-> page.view]
      BY <1>1, <2>1 DEF SelectionOk, Settled
    <2>3. page.selected \in page.known
      BY <2>1 DEF Selected
    <2> QED
      BY <1>1, <2>1, <2>2, <2>3 DEF SelectionOk
  <1> QED
    BY <1>2, OpenRootPInv DEF Reload

\* Whatever the user does.
LEMMA UserPInv ==
  ASSUME IInv, PInv, Quiet, User
  PROVE  PInv'
  BY SelectProjectPInv, SetActiveViewPInv, PressPInv, SubmitWorkPInv, SignInHerePInv, ReloadPInv
     DEF User

-----------------------------------------------------------------------------
(* Answers.                                                                *)

\* A handler takes an answer and goes on, waits or ends.
LEMMA AnswerPInv ==
  ASSUME IInv, PInv, Quiet, NEW q \in requests, q.by \in Handlers, requests' = requests \ {q},
         UNCHANGED projects,
         NEW c, handler'[q.by] = c, \A g \in Handlers \ {q.by} : handler'[g] = handler[g],
         c.todo \in Chains,
         \/ c.todo = <<>> \/ c.todo = handler[q.by].todo
         \/ Pending(q.by) = {q} /\ (page.at # "app" => c.todo \in {<<>>, <<"session">>, <<"sign_in">>}),
         page'.at = page.at, page'.view = page.view, page'.loading = page.loading \ {q.route},
         Selected(page') = Selected(page) \/ (Pending(q.by) = {q} /\ c.todo = <<"messages", "pane">>)
           \/ page.view # "audit-timeline" \/ Selected(page') = None,
         \/ Usable(page')
         \/ /\ q.route # "tasks" /\ page'.tasks = page.tasks /\ page'.buttons = page.buttons
            /\ Selected(page') = Selected(page)
            /\ handler[q.by].submits /\ handler[q.by].todo # <<>> => c.submits /\ c.todo # <<>>,
         SelectionOk', restore' \in {restore, None},
         restore' # None =>
           /\ context' = context /\ c.todo # <<"create_project", "projects">>
           /\ page.at = "app" /\ c.todo \in {<<"session", "projects">>, <<"projects">>} =>
                c.prefer = restore.project
  PROVE  PInv'
  <1>1. HandlersOk /\ FlagsOk /\ ButtonsOk /\ RestoreOk
    BY DEF PInv
  <1>2. handler'[q.by] = c /\ \A g \in Handlers \ {q.by} : handler'[g] = handler[g]
    OBVIOUS
  <1>3. Pending(q.by) = {q} => \A x \in requests' : x.by # q.by
    BY DEF Pending
  <1>4. HandlersOk'
    <2>1. \A h \in Handlers :
            /\ handler'[h].todo \in Chains
            /\ page'.at # "app" => handler'[h].todo \in {<<>>, <<"session">>, <<"sign_in">>}
      BY <1>1, <1>2 DEF HandlersOk
    <2>2. ASSUME NEW x \in requests', x.by \in Handlers, handler'[x.by].todo # <<>>
          PROVE  x.route \in RoutesOf(Head(handler'[x.by].todo))
      BY <1>1, <1>2, <1>3, <2>2 DEF HandlersOk
    <2> QED
      BY <2>1, <2>2 DEF HandlersOk
  <1>5. FlagsOk'
    <2>1. \A route : Requested(route) /\ route # q.route =>
            \E x \in requests' : x.by \in Handlers /\ x.route = route
      BY DEF Requested
    <2>2. /\ Requested("tasks") /\ "tasks" # q.route => Requested("tasks")'
          /\ Requested("configuration") /\ "configuration" # q.route => Requested("configuration")'
          /\ Requested("audit") /\ "audit" # q.route => Requested("audit")'
      BY <2>1 DEF Requested
    <2>3. /\ "tasks" \in page.loading => Requested("tasks")
          /\ "configuration" \in page.loading => Requested("configuration")
          /\ "audit" \in page.loading /\ page.view = "audit-timeline" /\ Selected(page) # None =>
               Requested("audit")
      BY <1>1, QuietMeans DEF FlagsOk
    <2>4. Pending(q.by) = {q} /\ c.todo = <<"messages", "pane">> =>
            IsReady(q.by)' /\ handler'[q.by].todo = <<"messages", "pane">>
      BY <1>2, <1>3 DEF IsReady, Pending
    <2> QED
      BY <2>2, <2>3, <2>4 DEF FlagsOk
  <1>6. ButtonsOk'
    <2>1. CASE Usable(page')
      BY <2>1 DEF ButtonsOk
    <2>2. CASE ~Usable(page')
      <3>1. ~Usable(page)
        BY <2>2 DEF Usable
      <3>2. Submitting
        BY <1>1, <3>1 DEF ButtonsOk
      <3>3. Submitting'
        BY <1>1, <1>2, <2>2, <3>2 DEF Submitting
      <3> QED
        BY <3>3 DEF ButtonsOk
    <2> QED
      BY <2>1, <2>2
  <1>7. RestoreOk'
    BY <1>1, <1>2 DEF RestoreOk
  <1> QED
    BY <1>4, <1>5, <1>6, <1>7 DEF PInv

\* The concatenation of a sequence of one and a sequence of two.
LEMMA OneAndTwo ==
  ASSUME NEW S, NEW s \in Seq(S), NEW t \in Seq(S), NEW u \in Seq(S),
         Len(s) = 1, Len(t) = 2, Len(u) = 3, u[1] = s[1], u[2] = t[1], u[3] = t[2]
  PROVE  s \o t = u
  <1> DEFINE r == s \o t
             m == Len(s)
             n == Len(t)
  <1>1. /\ r \in Seq(S) /\ Len(r) = m + n
        /\ \A i \in 1..(m + n) : r[i] = IF i <= m THEN s[i] ELSE t[i - m]
    BY ConcatProperties
  <1>2. m = 1 /\ n = 2
    OBVIOUS
  <1> HIDE DEF r, m, n
  <1>3. Len(r) = Len(u)
    BY <1>1, <1>2
  <1>4. \A i \in 1..Len(r) : r[i] = u[i]
    BY <1>1, <1>2
  <1>5. r = u
    BY <1>1, <1>3, <1>4, SeqEqual
  <1> QED
    BY <1>5 DEF r

\* What follows the list of projects: the configuration, the messages, or both.
LEMMA LoadsJoined ==
  /\ <<>> \o <<>> = <<>>
  /\ <<>> \o <<"messages", "pane">> = <<"messages", "pane">>
  /\ <<"configuration">> \o <<>> = <<"configuration">>
  /\ <<"configuration">> \o <<"messages", "pane">> = <<"configuration", "messages", "pane">>
  <1> DEFINE S == {"configuration", "messages", "pane"}
             s == <<"configuration">>
             t == <<"messages", "pane">>
             u == <<"configuration", "messages", "pane">>
  <1>1. /\ <<>> \o <<>> = <<>> /\ <<>> \o t = t
    OBVIOUS
  <1>2. s \o <<>> = s
    OBVIOUS
  <1>3. s \in Seq(S)
    OBVIOUS
  <1>4. t \in Seq(S)
    OBVIOUS
  <1>5. u \in Seq(S)
    OBVIOUS
  <1>6. Len(s) = 1 /\ Len(t) = 2 /\ Len(u) = 3
    OBVIOUS
  <1>7. u[1] = s[1] /\ u[2] = t[1] /\ u[3] = t[2]
    OBVIOUS
  <1> HIDE DEF S, s, t, u
  <1>8. s \o t = u
    BY <1>3, <1>4, <1>5, <1>6, <1>7, OneAndTwo
  <1> QED
    BY <1>1, <1>2, <1>8 DEF s, t, u

\* An answer comes back to the page.
LEMMA DeliverPInv ==
  ASSUME IInv, PInv, Quiet, NEW q \in requests, Deliver(q)
  PROVE  PInv'
  <1> DEFINE old == handler[q.by]
             p == Applied(page, q)
  <1>1. /\ HandlersOk /\ ButtonsOk /\ SelectionOk /\ RestoreOk
        /\ page \in Page /\ q \in Request /\ q.by \in Handlers /\ old \in Handler
        /\ DOMAIN handler = Handlers /\ old.todo \in Chains
        /\ page.at # "app" => old.todo \in {<<>>, <<"session">>, <<"sign_in">>}
        /\ old.todo # <<>> => q.route \in RoutesOf(Head(old.todo))
        /\ UNCHANGED <<sessions, server, storeOpen, projects, planned, events>>
        /\ restore' \in {restore, None} /\ (restore' # None => q.status = "ok")
        /\ \A x \in requests : x \in Request
    BY DEF IInv, TypeOK, RuntimeTypeOK, ClientTypeOK, PInv, Deliver, HandlersOk
  <1>2. /\ p \in Page
        /\ p.at = page.at /\ p.selected = page.selected /\ p.known = page.known /\ p.view = page.view
        /\ p.loading = page.loading \ {q.route} /\ Selected(p) = Selected(page)
        /\ Usable(p) \/ (q.route # "tasks" /\ p.tasks = page.tasks /\ p.buttons = page.buttons)
    BY <1>1, AppliedAnswer DEF Selected
  <1>3. ASSUME NEW r \in Page, r.at = page.at, r.selected = page.selected, r.known = page.known,
               r.view = page.view, page' = r, UNCHANGED context, requests' = requests \ {q}
        PROVE  SelectionOk' /\ Selected(page') = Selected(page)
    BY <1>1, <1>3 DEF SelectionOk, Selected
  <1>4. /\ Idle.todo = <<>> /\ <<>> \in Chains /\ <<>> # <<"create_project", "projects">>
        /\ <<>> \notin {<<"session", "projects">>, <<"projects">>}
    BY DEF Idle, Chains
  <1> DEFINE on == [p EXCEPT !.buttons = TRUE]
  <1>5. /\ on \in Page /\ Usable(on)
        /\ on.at = page.at /\ on.selected = page.selected /\ on.known = page.known
        /\ on.view = page.view /\ on.loading = page.loading \ {q.route}
    BY <1>2 DEF Page, Usable
  <1>6. old.todo # <<>> =>
          /\ Tail(old.todo) \in Chains
          /\ Tail(old.todo) \notin {<<"session", "projects">>, <<"create_project", "projects">>}
          /\ Tail(old.todo) = <<"projects">> =>
               old.todo \in {<<"session", "projects">>, <<"create_project", "projects">>}
          /\ old.todo = <<"create_project", "projects">> => Tail(old.todo) = <<"projects">>
          /\ old.todo \in {<<"projects">>, <<"session">>, <<"sign_in">>} => Tail(old.todo) = <<>>
          /\ Head(old.todo) = "projects" => old.todo = <<"projects">>
          /\ Head(old.todo) = "create_project" => old.todo = <<"create_project", "projects">>
    BY <1>1, ChainTails
  <1> HIDE DEF p, on
  <1>7. CASE Waits(q)
    <2>1. /\ page' = p /\ requests' = requests \ {q} /\ UNCHANGED <<context, handler>>
      BY <1>7 DEF Waits, p
    <2>2. handler'[q.by] = old /\ \A g \in Handlers \ {q.by} : handler'[g] = handler[g]
      BY <2>1
    <2>3. SelectionOk' /\ Selected(page') = Selected(page)
      BY <1>2, <1>3, <2>1
    <2>4. restore' # None =>
            /\ old.todo # <<"create_project", "projects">>
            /\ page.at = "app" /\ old.todo \in {<<"session", "projects">>, <<"projects">>} =>
                 old.prefer = restore.project
      BY <1>1 DEF RestoreOk
    <2> QED
      BY <1>1, <1>2, <2>1, <2>2, <2>3, <2>4, AnswerPInv
  <1>8. CASE Stops(q) /\ old.todo # <<>>
    <2>1. /\ page' = IF old.submits THEN on ELSE p
          /\ handler'[q.by] = Idle /\ \A g \in Handlers \ {q.by} : handler'[g] = handler[g]
          /\ requests' = requests \ {q} /\ UNCHANGED context
      BY <1>1, <1>8 DEF Stops, Finally, p, on
    <2>2. SelectionOk' /\ Selected(page') = Selected(page)
      BY <1>2, <1>3, <1>5, <2>1
    <2>3. restore' # None => context' = context
      BY <2>1
    <2> DEFINE idle == Idle
    <2>4. handler'[q.by] = idle /\ idle.todo = <<>> /\ <<>> \in Chains
      BY <1>4, <2>1
    <2>5. idle.todo \notin {<<"create_project", "projects">>, <<"session", "projects">>, <<"projects">>}
      BY <1>4, <2>4
    <2> HIDE DEF idle
    <2>6. CASE old.submits
      BY <1>1, <1>5, <2>1, <2>2, <2>3, <2>4, <2>5, <2>6, AnswerPInv
    <2>7. CASE ~old.submits
      BY <1>1, <1>2, <2>1, <2>2, <2>3, <2>4, <2>5, <2>7, AnswerPInv
    <2> QED
      BY <2>6, <2>7
  <1>9. CASE Goes(q, p, <<>>) /\ old.todo # <<>> /\ Pending(q.by) = {q} /\ UNCHANGED context
    <2> DEFINE rest == Tail(old.todo)
               c == IF rest = <<>> THEN Idle ELSE [old EXCEPT !.todo = rest]
    <2>1. rest \o <<>> = rest
      BY <1>1, <1>9 DEF Handler
    <2>2. /\ page' = IF rest = <<>> /\ old.submits THEN on ELSE p
          /\ handler'[q.by] = c /\ \A g \in Handlers \ {q.by} : handler'[g] = handler[g]
          /\ requests' = requests \ {q}
      BY <1>1, <1>9, <2>1 DEF Goes, Finally, on
    <2>3. /\ c.todo = rest
          /\ rest # <<>> => c.submits = old.submits /\ c.prefer = old.prefer
      BY <1>1, <1>4 DEF Handler
    <2>4. SelectionOk' /\ Selected(page') = Selected(page)
      BY <1>2, <1>3, <1>5, <1>9, <2>2
    <2>5. page.at # "app" => rest = <<>>
      BY <1>1, <1>6, <1>9
    <2>6. restore' # None =>
            /\ rest # <<"create_project", "projects">>
            /\ page.at = "app" /\ rest \in {<<"session", "projects">>, <<"projects">>} =>
                 c.prefer = restore.project
      BY <1>1, <1>4, <1>6, <1>9, <2>3 DEF RestoreOk
    <2>7. rest \in Chains
      BY <1>6, <1>9
    <2> HIDE DEF c, rest
    <2>8. UNCHANGED projects
      BY <1>1
    <2>9. CASE rest = <<>> /\ old.submits
      BY <1>1, <1>5, <1>9, <2>2, <2>3, <2>4, <2>5, <2>6, <2>7, <2>9, AnswerPInv
    <2>10. CASE ~(rest = <<>> /\ old.submits)
      BY <1>1, <1>2, <1>9, <2>2, <2>3, <2>4, <2>5, <2>6, <2>7, <2>10, AnswerPInv
    <2> QED
      BY <2>9, <2>10
  <1>10. CASE LoadedProjects(q) /\ old.todo # <<>> /\ Pending(q.by) = {q} /\ q.status = "ok"
    <2> DEFINE d == RenderProjects(page, q.list, Preferred(q))
               more == (IF d.view = "assigned-agents" THEN <<"configuration">> ELSE <<>>)
                       \o (IF d.selected = None THEN <<>> ELSE <<"messages", "pane">>)
               c == IF more = <<>> THEN Idle ELSE [old EXCEPT !.todo = more]
               lit == [d EXCEPT !.buttons = TRUE]
    <2>1. q.route = "projects" /\ old.todo = <<"projects">> /\ page.at = "app"
      <3>1. q.route = "projects"
        BY <1>10 DEF LoadedProjects
      <3>2. Head(old.todo) = "projects"
        BY <1>1, <1>10, <3>1 DEF RoutesOf
      <3>3. <<"projects">> \notin {<<>>, <<"session">>, <<"sign_in">>}
        OBVIOUS
      <3> QED
        BY <1>1, <1>6, <1>10, <3>1, <3>2, <3>3
    <2>2. q.list \in SUBSET Projects /\ q.list \subseteq 1..projects
      BY <1>1, <2>1 DEF SelectionOk, Request
    <2>3. /\ d \in Page /\ Usable(d) /\ d.at = page.at /\ d.view = page.view
          /\ d.loading = page.loading /\ d.known = q.list
          /\ q.list = {} \/ d.selected \in q.list
          /\ Preferred(q) \in q.list => d.selected = Preferred(q)
      BY <1>1, <2>2, Rendered
    <2>4. page.loading = page.loading \ {q.route}
      BY <1>1, <2>1 DEF Page
    <2>5. Goes(q, d, more) /\ context' = [project |-> d.selected, view |-> d.view]
      BY <1>10 DEF LoadedProjects
    <2> HIDE DEF d
    <2>6. /\ more \in {<<>>, <<"configuration">>, <<"messages", "pane">>,
                      <<"configuration", "messages", "pane">>}
          /\ d.selected # None /\ d.view = "audit-timeline" => more = <<"messages", "pane">>
      <3>1. CASE d.view = "assigned-agents" /\ d.selected = None
        BY LoadsJoined, <3>1
      <3>2. CASE d.view = "assigned-agents" /\ d.selected # None
        BY LoadsJoined, <3>2
      <3>3. CASE d.view # "assigned-agents" /\ d.selected = None
        BY LoadsJoined, <3>3
      <3>4. CASE d.view # "assigned-agents" /\ d.selected # None
        BY LoadsJoined, <3>4
      <3> QED
        BY <3>1, <3>2, <3>3, <3>4
    <2> HIDE DEF more
    <2>7. /\ page' = IF more = <<>> /\ old.submits THEN lit ELSE d
          /\ handler'[q.by] = c /\ \A g \in Handlers \ {q.by} : handler'[g] = handler[g]
          /\ requests' = requests \ {q}
      <3>1. Tail(old.todo) \o more = more
        BY <2>1, <2>6
      <3> QED
        BY <1>1, <2>5, <3>1 DEF Goes, Finally
    <2>8. c.todo = more
      BY <1>1, <1>4 DEF Handler
    <2>9. /\ more \in Chains /\ more # <<"create_project", "projects">>
          /\ more \notin {<<"session", "projects">>, <<"projects">>}
      BY <2>6 DEF Chains, Singles, Pairs, Triples
    <2>10. /\ lit \in Page /\ Usable(lit) /\ lit.at = d.at /\ lit.view = d.view
           /\ lit.loading = d.loading /\ lit.known = d.known /\ lit.selected = d.selected
      BY <2>3 DEF Page, Usable
    <2> HIDE DEF c, lit
    <2>11. /\ Usable(page') /\ page'.at = page.at /\ page'.view = page.view
           /\ page'.loading = page.loading \ {q.route}
           /\ page'.known = q.list /\ page'.selected = d.selected
      BY <2>3, <2>4, <2>7, <2>10
    <2>12. SelectionOk'
      BY <1>1, <2>2, <2>3, <2>5, <2>7, <2>11 DEF SelectionOk
    <2>13. Selected(page') # None /\ page.view = "audit-timeline" => c.todo = <<"messages", "pane">>
      BY <2>3, <2>6, <2>8, <2>11 DEF Selected
    <2>14. restore' # None => context' = context
      <3>1. SUFFICES ASSUME restore # None
                     PROVE  context' = context
        BY <1>1
      <3>2. /\ context = restore /\ restore.project \in 1..projects
            /\ old.prefer = restore.project /\ restore.project \in q.list
        BY <1>1, <1>10, <2>1, <3>1 DEF RestoreOk
      <3>3. None \notin 1..projects
        BY RuntimeAssumption
      <3>4. Preferred(q) = restore.project
        BY <3>2, <3>3 DEF Preferred
      <3>5. context = [project |-> page.selected, view |-> page.view]
        BY <1>1, <2>1 DEF SelectionOk
      <3> QED
        BY <2>3, <2>5, <3>2, <3>4, <3>5
    <2> QED
      BY <1>1, <1>10, <2>1, <2>7, <2>8, <2>9, <2>11, <2>12, <2>13, <2>14, AnswerPInv
  <1>11. CASE CreatedProject(q) /\ old.todo # <<>> /\ Pending(q.by) = {q}
    <2> DEFINE c == [old EXCEPT !.todo = Tail(old.todo), !.prefer = FirstOf(q.list)]
    <2>1. q.route = "create_project" /\ old.todo = <<"create_project", "projects">>
      <3>1. q.route = "create_project"
        BY <1>11 DEF CreatedProject
      <3>2. Head(old.todo) = "create_project"
        BY <1>1, <1>11, <3>1 DEF RoutesOf
      <3> QED
        BY <1>6, <1>11, <3>1, <3>2
    <2>2. restore = None /\ page.at = "app"
      <3>1. <<"create_project", "projects">> \notin {<<>>, <<"session">>, <<"sign_in">>}
        OBVIOUS
      <3> QED
        BY <1>1, <2>1, <3>1 DEF RestoreOk
    <2>3. c.todo = <<"projects">> /\ c.submits = old.submits
      BY <1>1, <1>6, <1>11, <2>1 DEF Handler
    <2>4. /\ handler'[q.by] = c /\ \A g \in Handlers \ {q.by} : handler'[g] = handler[g]
          /\ requests' = requests \ {q} /\ UNCHANGED <<page, context>>
      BY <1>1, <1>11 DEF CreatedProject, Handler
    <2> HIDE DEF c
    <2>5. SelectionOk' /\ Selected(page') = Selected(page)
      BY <1>1, <1>3, <2>4
    <2>6. page.loading = page.loading \ {q.route}
      BY <1>1, <2>1 DEF Page
    <2>7. <<"projects">> \in Chains /\ <<"projects">> # <<>>
      BY DEF Chains, Singles
    <2> QED
      BY <1>1, <1>11, <2>1, <2>2, <2>3, <2>4, <2>5, <2>6, <2>7, AnswerPInv
  <1>12. restore' # None => restore' = context /\ context.project \in 1..projects
    BY <1>1 DEF RestoreOk
  <1>13. CASE LoadedSession(q) /\ old.todo # <<>> /\ Pending(q.by) = {q}
    <2>1. UNCHANGED context
      BY <1>13 DEF LoadedSession
    <2>2. CASE Goes(q, Applied(page, q), <<>>)
      BY <1>9, <1>13, <2>1, <2>2 DEF p
    <2>3. CASE OpenRoot(cookie, requests)
      BY <1>1, <1>12, <2>1, <2>3, OpenRootPInv
    <2> QED
      BY <1>13, <2>2, <2>3 DEF LoadedSession
  <1>14. CASE SignedIn(q)
    <2>1. OpenRoot(q.issued, requests) /\ UNCHANGED context
      BY <1>14 DEF SignedIn
    <2> QED
      BY <1>1, <1>12, <2>1, OpenRootPInv
  <1>15. CASE SignedOut(q)
    <2>1. OpenRoot(None, requests) /\ UNCHANGED context
      BY <1>15 DEF SignedOut
    <2> QED
      BY <1>1, <1>12, <2>1, OpenRootPInv
  <1>16. CASE Continues(q) /\ old.todo # <<>> /\ Pending(q.by) = {q}
    <2>1. Goes(q, p, <<>>) /\ UNCHANGED context
      BY <1>16 DEF Continues, p
    <2> QED
      BY <1>9, <1>16, <2>1
  <1> QED
    BY <1>7, <1>8, <1>10, <1>11, <1>13, <1>14, <1>15, <1>16 DEF Deliver

-----------------------------------------------------------------------------
(* The theorems.                                                           *)

\* The page as it is before its first click.
LEMMA InitPInv == Init => PInv
  <1> SUFFICES ASSUME Init PROVE PInv
    OBVIOUS
  <1> DEFINE first == CHOOSE g \in Handlers : TRUE
             c == [Idle EXCEPT !.todo = <<"session", "projects">>, !.prefer = context.project]
  <1>1. /\ requests = {} /\ restore = None
        /\ handler = [h \in Handlers |-> IF h = first THEN c ELSE Idle]
        /\ page.at = "app" /\ page.known = {} /\ page.loading = {} /\ page.tasks = None
        /\ page.selected = context.project /\ page.view = context.view
    BY DEF Init, RuntimeInit, Opened
  <1>2. c.todo = <<"session", "projects">> /\ Idle.todo = <<>>
    BY DEF Idle
  <1>3. <<"session", "projects">> \in Chains /\ <<>> \in Chains
    BY DEF Chains, Pairs
  <1>4. context = [project |-> context.project, view |-> context.view]
    BY DEF Init
  <1> HIDE DEF c, first
  <1>5. HandlersOk
    BY <1>1, <1>2, <1>3 DEF HandlersOk
  <1> QED
    BY <1>1, <1>4, <1>5 DEF PInv, FlagsOk, ButtonsOk, Usable, SelectionOk, RestoreOk

\* Every step preserves the invariant.
LEMMA NextPInv == IInv /\ PInv /\ [Next]_vars => PInv'
  <1> SUFFICES ASSUME IInv, PInv, [Next]_vars PROVE PInv'
    OBVIOUS
  <1>1. CASE UNCHANGED vars
    <2>1. projects \in Nat /\ UNCHANGED <<projects, requests, context, page, handler, restore>>
      BY <1>1, RuntimeAssumption DEF vars, runtimeVars, clientVars, IInv, TypeOK, RuntimeTypeOK
    <2> QED
      BY <2>1, RequestsMoveOn
  <1>2. CASE Next
    BY <1>2, RunPInv, UserPInv, WorldPInv, DeliverPInv, ArrivePInv, ServePInv, ClosedPInv DEF Next
  <1> QED
    BY <1>1, <1>2

\* The inductive invariant of the page holds next to that of the requests.
THEOREM PageInvariance == Spec => []PInv
  BY InitPInv, NextPInv, Invariance, PTL DEF Spec

\* However clicks, answers, failures and losses of any number of handlers
\* overlap, a page at rest shows no load that is not under way, and the tasks
\* it lists can be worked on.
THEOREM SettledPagesAreUsable == Spec => []SettledPageIsUsable
  <1>1. PInv => SettledPageIsUsable
    <2> SUFFICES ASSUME PInv, Settled, Selected(page) # None
                 PROVE  /\ page.view = "main-chat" =>
                             "tasks" \notin page.loading /\ (page.tasks # None => page.buttons)
                        /\ page.view = "audit-timeline" => "audit" \notin page.loading
                        /\ page.view = "assigned-agents" => "configuration" \notin page.loading
      BY DEF SettledPageIsUsable
    <2>1. \A h \in Handlers : handler[h].todo = <<>> /\ ~IsReady(h) /\ \A q \in requests : q.by # h
      BY DEF Settled, IsIdle, IsReady, Pending
    <2>2. \A route : ~Requested(route)
      BY <2>1 DEF Requested
    <2>3. ~Submitting
      BY <2>1 DEF Submitting
    <2> QED
      BY <2>1, <2>2, <2>3 DEF PInv, FlagsOk, ButtonsOk, Usable
  <1> QED
    BY <1>1, PageInvariance, PTL

\* A refresh of a page at rest brings the project and the view back, also by
\* way of the login page, for any number of projects that others create.
THEOREM RefreshesRestore == Spec => []RefreshRestores
  <1>1. PInv => RefreshRestores
    BY DEF PInv, SelectionOk, RestoreOk, RefreshRestores, Settled
  <1> QED
    BY <1>1, PageInvariance, PTL

=============================================================================
