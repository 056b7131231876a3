------------------------ MODULE WebWorkspace_proofs ------------------------
(* Theorems about WebWorkspace for any number of users, sessions, projects *)
(* and overlapping handlers of the page.                                   *)
EXTENDS WebWorkspace, WellFoundedInduction, TLAPS

-----------------------------------------------------------------------------
(* The inductive invariant.                                                *)

\* What a request carries at its stage: the session its handler captured is
\* the one of its cookie, and has been issued; an answer is about the caller.
RequestOk(q, ss) ==
  /\ q.phase # "answered" => q.status = "none"
  /\ q.route \in {"plan", "post_message"} => q.ws # None
  /\ q.phase = "reading" /\ q.route # "sign_in" =>
       /\ q.live /\ q.caller = q.cookie
       /\ q.cookie \in Sessions /\ ss[q.cookie].state # "unissued"
  /\ q.status = "ok" /\ q.route \in OnTasks => q.task = q.ws
  /\ q.status = "ok" /\ q.route \in OnTasks \cup {"plan", "post_message"} =>
       /\ q.live
       /\ q.cookie \in Sessions /\ ss[q.cookie].state # "unissued"
       /\ q.user # None /\ q.route # "post_message" => q.user = ss[q.cookie].actor
  /\ q.status = "ok" /\ q.route = "create_project" => q.list # {}

\* A handler is reading a body only while the store is open, and the store is
\* open until the server has closed.
StoreOk ==
  /\ server = "closed" => ~storeOpen
  /\ server # "closed" => storeOpen
  /\ \A q \in requests : q.phase = "reading" => storeOpen

IInv == TypeOK /\ StoreOk /\ \A q \in requests : RequestOk(q, sessions)

-----------------------------------------------------------------------------
(* Sessions and requests.                                                  *)

\* A step that keeps the issued sessions issued, and their actors.
KeepsIssued(ss, st) ==
  \A id \in Sessions :
    ss[id].state # "unissued" => st[id].state # "unissued" /\ st[id].actor = ss[id].actor

LEMMA StillOk ==
  ASSUME NEW q, NEW ss, NEW st, RequestOk(q, ss), KeepsIssued(ss, st)
  PROVE  RequestOk(q, st)
  BY DEF RequestOk, KeepsIssued

LEMMA SameSessions ==
  ASSUME NEW ss
  PROVE  KeepsIssued(ss, ss)
  BY DEF KeepsIssued

\* deleteSession and createSession.
LEMMA SessionsChange ==
  ASSUME RuntimeTypeOK
  PROVE  /\ \A id : Ended(id) \in [Sessions -> Session] /\ KeepsIssued(sessions, Ended(id))
         /\ \A id \in Unissued, a \in Actors :
              Created(id, a) \in [Sessions -> Session] /\ KeepsIssued(sessions, Created(id, a))
  <1>1. \A s \in Sessions : [sessions[s] EXCEPT !.state = "ended"] \in Session
    BY DEF RuntimeTypeOK, Session
  <1>2. \A id : Ended(id) \in [Sessions -> Session] /\ KeepsIssued(sessions, Ended(id))
    BY <1>1 DEF RuntimeTypeOK, Session, Ended, KeepsIssued
  <1>3. \A a \in Actors : [state |-> "live", actor |-> a] \in Session
    BY DEF Session
  <1>4. \A id \in Unissued, a \in Actors :
          Created(id, a) \in [Sessions -> Session] /\ KeepsIssued(sessions, Created(id, a))
    BY <1>3 DEF RuntimeTypeOK, Created, KeepsIssued, Unissued
  <1> QED
    BY <1>2, <1>4

\* The fields of an answer.
LEMMA Answered ==
  ASSUME NEW q \in Request, NEW status \in {"none", "ok", "refused", "lost"}
  PROVE  LET r == Answer(q, status)
         IN /\ r \in Request
            /\ r.phase = "answered" /\ r.status = status
            /\ r.by = q.by /\ r.route = q.route /\ r.cookie = q.cookie /\ r.ws = q.ws
            /\ r.task = q.task /\ r.live = q.live /\ r.caller = q.caller
            /\ r.user = q.user /\ r.issued = q.issued /\ r.list = q.list
  <1> DEFINE r == [q EXCEPT !.phase = "answered", !.status = status]
  <1>1. r \in Request
    BY DEF Request
  <1>2. /\ r.phase = "answered" /\ r.status = status
        /\ r.by = q.by /\ r.route = q.route /\ r.cookie = q.cookie /\ r.ws = q.ws
        /\ r.task = q.task /\ r.live = q.live /\ r.caller = q.caller
        /\ r.user = q.user /\ r.issued = q.issued /\ r.list = q.list
    BY DEF Request
  <1>3. Answer(q, status) = r
    BY DEF Answer
  <1> HIDE DEF r
  <1> QED
    BY <1>1, <1>2, <1>3

\* A request is replaced by what has become of it.
LEMMA Replaced ==
  ASSUME IInv, NEW q \in requests, NEW r \in Request, Replace(q, r),
         KeepsIssued(sessions, sessions'), RequestOk(r, sessions')
  PROVE  /\ \A x \in requests' : x \in Request
         /\ \A x \in requests' : RequestOk(x, sessions')
         /\ r.phase # "reading" \/ storeOpen =>
              \A x \in requests' : x.phase = "reading" => storeOpen
  <1>1. requests' = (requests \ {q}) \cup {r}
    BY DEF Replace
  <1>2. \A x \in requests : x \in Request /\ RequestOk(x, sessions')
    BY StillOk DEF IInv, TypeOK, RuntimeTypeOK
  <1>3. \A x \in requests : x.phase = "reading" => storeOpen
    BY DEF IInv, StoreOk
  <1> QED
    BY <1>1, <1>2, <1>3

\* A step of the runtime on one request.
LEMMA ServerStep ==
  ASSUME IInv, NEW q \in requests, NEW r \in Request, Replace(q, r),
         sessions' \in [Sessions -> Session], KeepsIssued(sessions, sessions'),
         projects' \in 0..MaxProjects, planned' \subseteq 1..projects',
         UNCHANGED <<server, storeOpen, clientVars>>,
         RequestOk(r, sessions'), r.phase # "reading" \/ storeOpen
  PROVE  IInv'
  <1>1. /\ \A x \in requests' : x \in Request
        /\ \A x \in requests' : RequestOk(x, sessions')
        /\ \A x \in requests' : x.phase = "reading" => storeOpen
    BY Replaced
  <1>2. RuntimeTypeOK'
    BY <1>1 DEF IInv, TypeOK, RuntimeTypeOK
  <1>3. ClientTypeOK'
    BY DEF IInv, TypeOK, ClientTypeOK, clientVars
  <1>4. StoreOk'
    BY <1>1 DEF IInv, StoreOk
  <1> QED
    BY <1>1, <1>2, <1>3, <1>4 DEF IInv, TypeOK

LEMMA ArriveIInv ==
  ASSUME IInv, NEW q \in requests, Arrive(q), UNCHANGED clientVars
  PROVE  IInv'
  <1> DEFINE id == GetSession(q.cookie)
  <1>1. /\ q \in Request /\ RequestOk(q, sessions) /\ q.phase = "sent" /\ q.status = "none"
        /\ storeOpen /\ RuntimeTypeOK
    BY DEF IInv, TypeOK, RuntimeTypeOK, StoreOk, RequestOk, Arrive
  <1>2. /\ id # None => id = q.cookie /\ id \in Sessions /\ sessions[id].state = "live"
        /\ id \in Sessions \cup {None}
    BY RuntimeAssumption DEF GetSession, IsLive
  <1>3. UNCHANGED <<server, storeOpen, projects, planned>>
    BY DEF Arrive
  <1>4. ASSUME NEW r \in Request, Replace(q, r), UNCHANGED sessions, RequestOk(r, sessions)
        PROVE  IInv'
    BY <1>1, <1>3, <1>4, SameSessions, ServerStep DEF RuntimeTypeOK
  <1>5. CASE /\ q.route = "session"
             /\ Replace(q, [Answer(q, "ok") EXCEPT
                              !.user = IF id = None THEN None ELSE sessions[id].actor])
             /\ UNCHANGED sessions
    <2> DEFINE user == IF id = None THEN None ELSE sessions[id].actor
               r == [Answer(q, "ok") EXCEPT !.user = user]
    <2>1. user \in Actors \cup {None}
      BY <1>1, <1>2 DEF RuntimeTypeOK, Session
    <2>2. r \in Request /\ r.route = "session" /\ r.phase = "answered"
      BY <1>1, <1>5, <2>1, Answered DEF Request
    <2> HIDE DEF r
    <2>3. RequestOk(r, sessions)
      BY <2>2 DEF RequestOk, OnTasks
    <2> QED
      BY <1>4, <1>5, <2>2, <2>3 DEF r
  <1>6. CASE /\ q.route = "sign_out"
             /\ Replace(q, Answer(q, "ok"))
             /\ sessions' = Ended(q.cookie)
    <2> DEFINE r == Answer(q, "ok")
    <2>1. r \in Request /\ r.route = "sign_out" /\ r.phase = "answered"
      BY <1>1, <1>6, Answered
    <2> HIDE DEF r
    <2>2. RequestOk(r, sessions')
      BY <2>1 DEF RequestOk, OnTasks
    <2>3. sessions' \in [Sessions -> Session] /\ KeepsIssued(sessions, sessions')
      BY <1>1, <1>6, SessionsChange
    <2>4. Replace(q, r)
      BY <1>6 DEF r
    <2> QED
      BY <1>1, <1>3, <2>1, <2>2, <2>3, <2>4, ServerStep DEF RuntimeTypeOK
  <1>7. CASE /\ q.route = "sign_in" \/ (q.route \in Writes /\ id # None)
             /\ Replace(q, [q EXCEPT !.phase = "reading", !.live = IsLive(q.cookie),
                                     !.caller = id])
             /\ UNCHANGED sessions
    <2> DEFINE live == IsLive(q.cookie)
               r == [q EXCEPT !.phase = "reading", !.live = live, !.caller = id]
    <2>1. live \in BOOLEAN /\ (id # None => live)
      BY <1>2 DEF IsLive
    <2>2. /\ r.phase = "reading" /\ r.route = q.route /\ r.cookie = q.cookie /\ r.ws = q.ws
          /\ r.status = "none" /\ r.caller = id /\ r.live = live
      BY <1>1 DEF Request
    <2>3. r \in Request
      BY <1>1, <1>2, <2>1 DEF Request
    <2> HIDE DEF r
    <2>4. RequestOk(r, sessions)
      BY <1>1, <1>2, <1>7, <2>1, <2>2 DEF RequestOk
    <2> QED
      BY <1>4, <1>7, <2>3, <2>4 DEF r
  <1>8. CASE /\ q.route \in Reads \ {"session"} /\ id # None
             /\ Replace(q, [Answer(q, "ok") EXCEPT !.list = Listed(q)])
             /\ UNCHANGED sessions
    <2> DEFINE r == [Answer(q, "ok") EXCEPT !.list = Listed(q)]
    <2>1. Listed(q) \subseteq Projects
      <3>1. 1..projects \subseteq Projects /\ planned \subseteq Projects
        BY <1>1, RuntimeAssumption DEF RuntimeTypeOK, Projects
      <3> QED
        BY <3>1 DEF Listed
    <2>2. r \in Request /\ r.route = q.route /\ r.phase = "answered"
      BY <1>1, <2>1, Answered DEF Request
    <2> HIDE DEF r
    <2>3. r.route \notin OnTasks \cup {"plan", "post_message", "create_project"}
      BY <1>8, <2>2 DEF OnTasks, Reads
    <2>4. RequestOk(r, sessions)
      BY <2>2, <2>3 DEF RequestOk
    <2> QED
      BY <1>4, <1>8, <2>2, <2>4 DEF r
  <1>9. CASE /\ q.route \notin {"session", "sign_in", "sign_out"} /\ id = None
             /\ Replace(q, Answer(q, "refused"))
             /\ UNCHANGED sessions
    <2> DEFINE r == Answer(q, "refused")
    <2>1. /\ r \in Request /\ r.route = q.route /\ r.phase = "answered"
          /\ r.status = "refused" /\ r.ws = q.ws
      BY <1>1, Answered
    <2> HIDE DEF r
    <2>2. RequestOk(r, sessions)
      BY <1>1, <2>1 DEF RequestOk
    <2> QED
      BY <1>4, <1>9, <2>1, <2>2 DEF r
  <1> QED
    BY <1>5, <1>6, <1>7, <1>8, <1>9 DEF Arrive

\* What an operation answers and records.
LEMMA ServeIInv ==
  ASSUME IInv, NEW q \in requests, Serve(q), UNCHANGED clientVars
  PROVE  IInv'
  <1>1. /\ q \in Request /\ RequestOk(q, sessions) /\ q.phase = "reading"
        /\ UNCHANGED <<server, storeOpen>> /\ RuntimeTypeOK
    BY DEF IInv, TypeOK, RuntimeTypeOK, Serve
  <1>2. ASSUME NEW r \in Request, Replace(q, r), RequestOk(r, sessions'), r.phase = "answered",
               sessions' \in [Sessions -> Session], KeepsIssued(sessions, sessions'),
               projects' \in 0..MaxProjects, planned' \subseteq 1..projects'
        PROVE  IInv'
    BY <1>1, <1>2, ServerStep
  <1>3. q.route # "sign_in" =>
          /\ q.live /\ q.caller = q.cookie
          /\ q.cookie \in Sessions /\ sessions[q.cookie].state # "unissued"
          /\ CallerActor(q) = sessions[q.cookie].actor
          /\ CallerActor(q) \in Actors \cup {None}
    BY <1>1 DEF RequestOk, CallerActor, RuntimeTypeOK, Session
  <1>4. ASSUME NEW user \in Actors \cup {None}, Replace(q, [Answer(q, "ok") EXCEPT !.user = user]),
               q.route \in OnTasks \cup {"plan", "post_message"},
               q.route \in OnTasks => q.task = q.ws,
               q.route = "post_message" \/ user \in {None, CallerActor(q)},
               UNCHANGED sessions, projects' \in 0..MaxProjects, planned' \subseteq 1..projects'
        PROVE  IInv'
    <2> DEFINE r == [Answer(q, "ok") EXCEPT !.user = user]
    <2>1. /\ r \in Request /\ r.route = q.route /\ r.phase = "answered" /\ r.ws = q.ws
          /\ r.task = q.task /\ r.live = q.live /\ r.cookie = q.cookie /\ r.user = user
      BY <1>1, Answered DEF Request
    <2> HIDE DEF r
    <2>2. q.route \notin {"sign_in", "create_project"}
      BY <1>4 DEF OnTasks
    <2>3. RequestOk(r, sessions)
      BY <1>1, <1>3, <1>4, <2>1, <2>2 DEF RequestOk
    <2>4. Replace(q, r)
      BY <1>4 DEF r
    <2> QED
      BY <1>1, <1>2, <1>4, <2>1, <2>3, <2>4, SameSessions DEF RuntimeTypeOK
  <1>5. OwnerUser(q) \in Actors \cup {None, CallerActor(q)}
    BY DEF OwnerUser
  <1>6. CASE Checkout(q) \/ Release(q) \/ SubmitOutput(q)
    <2>1. /\ q.route \in OnTasks /\ OwnerUser(q) \in {None, CallerActor(q)}
          /\ q.task = q.ws /\ UNCHANGED <<sessions, projects, planned>>
          /\ Replace(q, [Answer(q, "ok") EXCEPT !.user = OwnerUser(q)])
      BY <1>6 DEF Checkout, Release, SubmitOutput, Operate, MayActFor, KnowsTask, OnTasks
    <2>2. q.route # "sign_in"
      BY <2>1 DEF OnTasks
    <2> QED
      BY <1>1, <1>3, <1>4, <2>1, <2>2 DEF RuntimeTypeOK
  <1>7. CASE DecideApproval(q)
    <2>1. /\ q.route \in OnTasks /\ q.route # "sign_in"
          /\ q.task = q.ws /\ UNCHANGED <<sessions, projects, planned>>
          /\ Replace(q, [Answer(q, "ok") EXCEPT !.user = CallerActor(q)])
      BY <1>7 DEF DecideApproval, Operate, KnowsTask, OnTasks
    <2> QED
      BY <1>1, <1>3, <1>4, <2>1 DEF RuntimeTypeOK
  <1>8. CASE Plan(q)
    <2>1. /\ q.route = "plan" /\ q.ws <= projects /\ UNCHANGED <<sessions, projects>>
          /\ planned' = planned \cup {q.ws}
          /\ Replace(q, [Answer(q, "ok") EXCEPT !.user = CallerActor(q)])
      BY <1>8 DEF Plan
    <2>2. q.ws \in Projects
      BY <1>1, <2>1 DEF RequestOk, Request
    <2>3. projects' \in 0..MaxProjects /\ planned' \subseteq 1..projects'
      BY <1>1, <2>1, <2>2, RuntimeAssumption DEF RuntimeTypeOK, Projects
    <2>4. q.route \notin OnTasks
      BY <2>1 DEF OnTasks
    <2> QED
      BY <1>3, <1>4, <2>1, <2>3, <2>4
  <1>9. CASE PostMessage(q)
    <2>1. /\ q.route = "post_message" /\ UNCHANGED <<sessions, planned>>
          /\ projects' = IF q.ws > projects THEN projects + 1 ELSE projects
          /\ Replace(q, [Answer(q, "ok") EXCEPT !.user = OwnerUser(q)])
      BY <1>9 DEF PostMessage
    <2>2. q.ws \in Projects
      BY <1>1, <2>1 DEF RequestOk, Request
    <2>3. projects' \in 0..MaxProjects /\ planned' \subseteq 1..projects'
      BY <1>1, <2>1, <2>2, RuntimeAssumption DEF RuntimeTypeOK, Projects
    <2>4. q.route \notin OnTasks
      BY <2>1 DEF OnTasks
    <2> QED
      BY <1>3, <1>4, <1>5, <2>1, <2>3, <2>4
  <1>10. CASE CreateProject(q)
    <2> DEFINE r == [Answer(q, "ok") EXCEPT !.list = {projects + 1}]
    <2>1. /\ q.route = "create_project" /\ projects < MaxProjects /\ Replace(q, r)
          /\ projects' = projects + 1 /\ UNCHANGED <<sessions, planned>>
      BY <1>10 DEF CreateProject
    <2>2. /\ {projects + 1} \in SUBSET Projects
          /\ projects' \in 0..MaxProjects /\ planned' \subseteq 1..projects'
      BY <1>1, <2>1, RuntimeAssumption DEF RuntimeTypeOK, Projects
    <2>3. r \in Request /\ r.route = q.route /\ r.phase = "answered" /\ r.list = {projects + 1}
      BY <1>1, <2>2, Answered DEF Request
    <2> HIDE DEF r
    <2>4. q.route \notin OnTasks
      BY <2>1 DEF OnTasks
    <2>5. RequestOk(r, sessions)
      BY <2>1, <2>3, <2>4 DEF RequestOk
    <2> QED
      BY <1>1, <1>2, <2>1, <2>2, <2>3, <2>5, SameSessions DEF RuntimeTypeOK
  <1>11. CASE SaveConfiguration(q) \/ Refuse(q)
    <2>1. PICK status \in {"ok", "refused"} :
            /\ Replace(q, Answer(q, status)) /\ UNCHANGED <<sessions, projects, planned>>
            /\ status = "ok" => q.route = "save_configuration"
      BY <1>11 DEF SaveConfiguration, Refuse
    <2> DEFINE r == Answer(q, status)
    <2>2. /\ r \in Request /\ r.route = q.route /\ r.phase = "answered" /\ r.ws = q.ws
          /\ r.status = status
      BY <1>1, Answered
    <2>3. Replace(q, r)
      BY <2>1
    <2> HIDE DEF r
    <2>4. "save_configuration" \notin OnTasks
      BY DEF OnTasks
    <2>5. RequestOk(r, sessions)
      BY <1>1, <2>1, <2>2, <2>4 DEF RequestOk
    <2> QED
      BY <1>1, <1>2, <2>1, <2>2, <2>3, <2>5, SameSessions DEF RuntimeTypeOK
  <1>12. CASE SignIn(q)
    <2>1. PICK id \in Unissued, a \in Actors :
            /\ sessions' = Created(id, a)
            /\ Replace(q, [Answer(q, "ok") EXCEPT !.issued = id, !.user = a])
      BY <1>12 DEF SignIn
    <2> DEFINE r == [Answer(q, "ok") EXCEPT !.issued = id, !.user = a]
    <2>2. q.route = "sign_in" /\ UNCHANGED <<projects, planned>> /\ id \in Sessions
      BY <1>12 DEF SignIn, Unissued
    <2>3. r \in Request /\ r.route = q.route /\ r.phase = "answered"
      <3> DEFINE x == Answer(q, "ok")
      <3>1. x \in Request /\ x.route = q.route /\ x.phase = "answered"
        BY <1>1, Answered
      <3> HIDE DEF x
      <3> DEFINE y == [x EXCEPT !.issued = id, !.user = a]
      <3>2. y \in Request /\ y.route = q.route /\ y.phase = "answered"
        BY <2>2, <3>1 DEF Request
      <3>3. r = y
        BY DEF x
      <3> HIDE DEF r, y
      <3> QED
        BY <3>2, <3>3
    <2>4. Replace(q, r)
      BY <2>1
    <2> HIDE DEF r
    <2>5. RequestOk(r, sessions')
      BY <2>2, <2>3 DEF RequestOk, OnTasks
    <2> QED
      BY <1>1, <1>2, <2>1, <2>2, <2>3, <2>4, <2>5, SessionsChange DEF RuntimeTypeOK
  <1> QED
    BY <1>6, <1>7, <1>8, <1>9, <1>10, <1>11, <1>12 DEF Serve

-----------------------------------------------------------------------------
(* The page and its handlers.                                              *)

LEMMA LeastOf ==
  ASSUME NEW S, S \subseteq Nat, S # {}
  PROVE  FirstOf(S) \in S
  <1> DEFINE R == OpToRel(<, Nat)
  <1>1. IsWellFoundedOn(R, Nat)
    BY NatLessThanWellFounded
  <1>2. R = {ss \in Nat \X Nat : ss[1] < ss[2]}
    BY DEF OpToRel
  <1> HIDE DEF R
  <1>3. PICK i \in S : \A j \in S : ~ (<<j, i>> \in R)
    BY <1>1, WFMin
  <1>4. ASSUME NEW j \in S PROVE i <= j
    <2>1. j \in Nat /\ i \in Nat /\ ~(<<j, i>> \in R)
      BY <1>3
    <2>2. ~(j < i)
      BY <1>2, <2>1
    <2> QED
      BY <2>1, <2>2
  <1> QED
    BY <1>4 DEF FirstOf

LEMMA FirstProject ==
  ASSUME NEW S \in SUBSET Projects, S # {}
  PROVE  FirstOf(S) \in S
  <1>1. S \subseteq Nat
    BY RuntimeAssumption DEF Projects
  <1> QED
    BY <1>1, LeastOf

LEMMA ControlsType ==
  ASSUME NEW p \in Page
  PROVE  /\ UpdateTaskLoop(p) \in Page
         /\ UpdateSelected(p) \in Page
  <1>1. ASSUME NEW c \in Page
        PROVE  UpdateTaskLoop(c) \in Page
    <2> DEFINE on == /\ Selected(c) # None /\ c.view = "main-chat"
                     /\ "tasks" \notin c.loading /\ c.tasks # None
    <2>1. on \in BOOLEAN
      OBVIOUS
    <2>2. UpdateTaskLoop(c) = [c EXCEPT !.buttons = on]
      BY DEF UpdateTaskLoop
    <2> HIDE DEF on
    <2> QED
      BY <2>1, <2>2 DEF Page
  <1>2. [p EXCEPT !.tasks = None] \in Page
    BY DEF Page
  <1> QED
    BY <1>1, <1>2 DEF UpdateSelected

LEMMA RenderType ==
  ASSUME NEW p \in Page, NEW list \in SUBSET Projects, NEW prefer
  PROVE  RenderProjects(p, list, prefer) \in Page
  <1> DEFINE selected == IF list = {} THEN None
                         ELSE IF prefer \in list THEN prefer ELSE FirstOf(list)
             messages == IF list = {} THEN None ELSE p.messages
             r == [p EXCEPT !.known = list, !.selected = selected, !.messages = messages]
  <1>1. selected \in Projects \cup {None} /\ messages \in Projects \cup {None}
    BY FirstProject DEF Page
  <1>2. RenderProjects(p, list, prefer) = UpdateSelected(r)
    BY DEF RenderProjects
  <1> HIDE DEF selected, messages
  <1>3. r \in Page
    BY <1>1 DEF Page
  <1> HIDE DEF r
  <1> QED
    BY <1>2, <1>3, ControlsType

LEMMA OpenedType ==
  ASSUME ClientTypeOK
  PROVE  Opened \in Page /\ LoginPage \in Page /\ [LoginPage EXCEPT !.at = "error"] \in Page
  <1>1. context.project \in Projects \cup {None} /\ context.view \in Views
    BY DEF ClientTypeOK, Context
  <1>2. Opened \in Page
    BY <1>1 DEF Opened, Page
  <1>3. LoginPage \in Page
    BY <1>2, ClientAssumption DEF LoginPage, Page
  <1> QED
    BY <1>2, <1>3 DEF Page

LEMMA AppliedType ==
  ASSUME NEW p \in Page, NEW q \in Request
  PROVE  Applied(p, q) \in Page
  <1> DEFINE c == [Cleared(p, q) EXCEPT !.failed = @ \/ q.status # "ok"]
             failed == p.failed \/ q.status # "ok"
  <1>1. Cleared(p, q) \in Page
    BY DEF Cleared, Page
  <1>2. Cleared(p, q).failed = p.failed /\ failed \in BOOLEAN
    BY DEF Cleared, Page
  <1>3. c = [Cleared(p, q) EXCEPT !.failed = failed]
    BY <1>2
  <1> HIDE DEF failed
  <1>4. c \in Page
    BY <1>1, <1>2, <1>3 DEF Page
  <1>5. Applied(p, q) =
          CASE q.route = "messages" -> IF q.status = "ok" THEN [c EXCEPT !.messages = q.ws] ELSE c
            [] q.route = "tasks" ->
                 UpdateTaskLoop(IF q.status # "ok" THEN c
                                ELSE [c EXCEPT !.tasks = IF q.list = {} THEN None ELSE q.ws])
            [] q.route = "session" /\ q.status = "ok" -> [c EXCEPT !.actor = q.user]
            [] OTHER -> c
    BY DEF Applied
  <1> HIDE DEF c
  <1>6. q.ws \in Projects \cup {None} /\ q.user \in Actors \cup {None}
    BY DEF Request
  <1>7. [c EXCEPT !.messages = q.ws] \in Page /\ [c EXCEPT !.actor = q.user] \in Page
    BY <1>4, <1>6 DEF Page
  <1>8. \A ws \in Projects \cup {None} : UpdateTaskLoop([c EXCEPT !.tasks = ws]) \in Page
    <2>1. \A ws \in Projects \cup {None} : [c EXCEPT !.tasks = ws] \in Page
      BY <1>4 DEF Page
    <2> QED
      BY <2>1, ControlsType
  <1>9. UpdateTaskLoop(c) \in Page
    BY <1>4, ControlsType
  <1>10. CASE q.route = "tasks"
    BY <1>5, <1>6, <1>8, <1>9, <1>10
  <1>11. CASE q.route # "tasks"
    BY <1>4, <1>5, <1>7, <1>11
  <1> QED
    BY <1>10, <1>11

\* The flags a load sets as it starts.
LEMMA AfterStartType ==
  ASSUME ClientTypeOK, NEW steps, NEW fetched
  PROVE  AfterStart(steps, fetched) \in Page
  <1> DEFINE none == Selected(page) = None
             messages == IF "messages" \in steps /\ Shown("messages") /\ none
                         THEN None ELSE page.messages
             tasks == IF "tasks" \in steps /\ Shown("tasks") /\ none THEN None ELSE page.tasks
             loading == page.loading \cup (fetched \cap {"tasks", "configuration", "audit"})
             p == [page EXCEPT !.messages = messages, !.tasks = tasks, !.loading = loading]
  <1>1. page \in Page
    BY DEF ClientTypeOK
  <1>2. /\ messages \in Projects \cup {None} /\ tasks \in Projects \cup {None}
        /\ loading \subseteq {"tasks", "configuration", "audit"}
    BY <1>1 DEF Page
  <1>3. AfterStart(steps, fetched) =
          IF "tasks" \in steps /\ Shown("tasks") THEN UpdateTaskLoop(p) ELSE p
    BY <1>1 DEF AfterStart, Page
  <1> HIDE DEF messages, tasks, loading
  <1>4. p \in Page
    BY <1>1, <1>2 DEF Page
  <1> HIDE DEF p
  <1> QED
    BY <1>3, <1>4, ControlsType

\* The requests of a step are of the right type and carry nothing yet.
LEMMA NewRequests ==
  ASSUME NEW by \in Senders, NEW route \in Reads \cup Writes \cup {"sign_out"},
         NEW id \in Sessions \cup {None}, NEW ws \in Projects \cup {None},
         NEW task \in Projects \cup {None}, NEW owner \in Owners \cup {None},
         route \in {"plan", "post_message"} => ws # None, NEW ss
  PROVE  LET q == NewRequest(by, route, id, ws, task, owner)
         IN q \in Request /\ RequestOk(q, ss) /\ q.phase # "reading"
  <1> DEFINE q == NewRequest(by, route, id, ws, task, owner)
  <1>1. /\ q \in Request /\ q.phase = "sent" /\ q.status = "none" /\ q.ws = ws
        /\ q.route = route
    BY DEF NewRequest, Request
  <1> HIDE DEF q
  <1>2. RequestOk(q, ss)
    BY <1>1 DEF RequestOk
  <1>3. q \in Request /\ RequestOk(q, ss) /\ q.phase # "reading"
    BY <1>1, <1>2
  <1> QED
    BY <1>3 DEF q

\* A step that serves no request.
LEMMA QuietStep ==
  ASSUME IInv, sessions' \in [Sessions -> Session], KeepsIssued(sessions, sessions'),
         UNCHANGED <<server, storeOpen, projects, planned>>, ClientTypeOK',
         \A x \in requests' :
           \/ x \in requests
           \/ x \in Request /\ RequestOk(x, sessions') /\ x.phase # "reading"
  PROVE  IInv'
  <1>1. \A x \in requests : x \in Request /\ RequestOk(x, sessions')
    BY StillOk DEF IInv, TypeOK, RuntimeTypeOK
  <1>2. RuntimeTypeOK'
    BY <1>1 DEF IInv, TypeOK, RuntimeTypeOK
  <1>3. StoreOk'
    BY DEF IInv, StoreOk
  <1>4. \A x \in requests' : RequestOk(x, sessions')
    BY <1>1
  <1> QED
    BY <1>2, <1>3, <1>4 DEF IInv, TypeOK

\* A step of the page alone.
LEMMA PageStep ==
  ASSUME IInv, UNCHANGED <<sessions, server, storeOpen, projects, planned>>, ClientTypeOK',
         \A x \in requests' :
           \/ x \in requests
           \/ x \in Request /\ RequestOk(x, sessions) /\ x.phase # "reading"
  PROVE  IInv'
  <1>1. sessions \in [Sessions -> Session]
    BY DEF IInv, TypeOK, RuntimeTypeOK
  <1> QED
    BY <1>1, SameSessions, QuietStep

LEMMA IdleType == Idle \in Handler /\ \A todo \in Seq(Steps) : [Idle EXCEPT !.todo = todo] \in Handler
  <1>1. Idle \in Handler
    BY DEF Idle, Handler
  <1> QED
    BY <1>1 DEF Handler

\* A navigation leaves a page and handlers of the right type.
LEMMA OpenRootType ==
  ASSUME ClientTypeOK, NEW id, OpenRoot(id, requests)
  PROVE  /\ page' \in Page
         /\ DOMAIN handler' = Handlers /\ \A h \in Handlers : handler'[h] \in Handler
         /\ requests' \subseteq requests
  <1>1. ASSUME NEW p \in Page, NEW todo \in Seq(Steps), Navigate(p, todo, requests)
        PROVE  /\ page' \in Page
               /\ DOMAIN handler' = Handlers /\ \A h \in Handlers : handler'[h] \in Handler
               /\ requests' \subseteq requests
    <2> DEFINE first == [Idle EXCEPT !.todo = todo, !.prefer = p.selected]
    <2>1. first \in Handler
      BY IdleType DEF Handler, Page
    <2>2. handler' = [h \in Handlers |->
                        IF h = CHOOSE g \in Handlers : TRUE THEN first ELSE Idle]
      BY <1>1 DEF Navigate
    <2> HIDE DEF first
    <2> QED
      BY <1>1, <2>1, <2>2, IdleType DEF Navigate
  <1>2. <<>> \in Seq(Steps) /\ <<"session">> \in Seq(Steps) /\ <<"session", "projects">> \in Seq(Steps)
    BY DEF Steps, Reads
  <1> QED
    BY <1>1, <1>2, OpenedType DEF OpenRoot

\* The end of a submission leaves the page a page.
LEMMA FinallyType ==
  ASSUME NEW p \in Page, NEW h, NEW rest
  PROVE  Finally(p, h, rest) \in Page
  BY DEF Finally, Page

LEMMA RunIInv ==
  ASSUME IInv, NEW h \in Handlers, Run(h)
  PROVE  IInv'
  <1> DEFINE steps == Resolve(Head(handler[h].todo))
             fetched == {s \in steps : Fetches(s)}
  <1>1. /\ ClientTypeOK /\ handler[h] \in Handler /\ handler[h].todo # <<>>
        /\ UNCHANGED <<sessions, server, storeOpen, projects, planned, cookie, context,
                       restore, events>>
    BY DEF IInv, TypeOK, ClientTypeOK, Run, IsReady
  <1>2. /\ requests' = requests \cup {Sent(h, s) : s \in fetched}
        /\ \/ page' = AfterStart(steps, fetched)
           \/ page' = Finally(AfterStart(steps, fetched), h, Tail(handler[h].todo))
        /\ handler' = IF fetched = {} THEN [handler EXCEPT ![h].todo = Tail(@)] ELSE handler
    BY DEF Run
  <1>3. /\ handler[h].todo \in Seq(Steps) /\ Head(handler[h].todo) \in Steps
        /\ Tail(handler[h].todo) \in Seq(Steps)
    BY <1>1 DEF Handler
  <1>4. \A s \in fetched : s \in Reads \cup Writes \cup {"sign_out"}
    BY <1>3 DEF Resolve, Steps, Reads
  <1>5. page' \in Page
    BY <1>1, <1>2, AfterStartType, FinallyType
  <1>6. DOMAIN handler' = Handlers /\ \A g \in Handlers : handler'[g] \in Handler
    <2>1. [handler[h] EXCEPT !.todo = Tail(handler[h].todo)] \in Handler
      BY <1>1, <1>3 DEF Handler
    <2> QED
      BY <1>1, <1>2, <2>1 DEF ClientTypeOK
  <1>7. ClientTypeOK'
    BY <1>1, <1>5, <1>6 DEF ClientTypeOK
  <1>8. ASSUME NEW s \in fetched
        PROVE  Sent(h, s) \in Request /\ RequestOk(Sent(h, s), sessions) /\ Sent(h, s).phase # "reading"
    <2> DEFINE ws == IF s \in NeedsProject THEN Selected(page) ELSE None
    <2>1. ws \in Projects \cup {None} /\ cookie \in Sessions \cup {None}
      BY <1>1 DEF ClientTypeOK, Selected, Page
    <2>2. s \in {"plan", "post_message"} => ws # None
      BY DEF Fetches, NeedsProject
    <2>3. Sent(h, s) = NewRequest(h, s, cookie, ws, handler[h].task, handler[h].owner)
      BY DEF Sent
    <2>4. handler[h].task \in Projects \cup {None} /\ handler[h].owner \in Owners \cup {None}
      BY <1>1 DEF Handler
    <2>5. h \in Senders /\ s \in Reads \cup Writes \cup {"sign_out"}
      BY <1>4, ClientAssumption
    <2> HIDE DEF ws
    <2> QED
      BY <2>1, <2>2, <2>3, <2>4, <2>5, NewRequests
  <1> HIDE DEF fetched
  <1> QED
    BY <1>1, <1>2, <1>7, <1>8, PageStep

-----------------------------------------------------------------------------
(* Clicks.                                                                 *)

\* An outside event is counted within the bound.
LEMMA SpendType ==
  ASSUME ClientTypeOK, Spend
  PROVE  events' \in 0..MaxEvents
  BY ClientAssumption DEF ClientTypeOK, Spend

\* A click that gives a handler its work.
LEMMA ClickStep ==
  ASSUME IInv, UNCHANGED <<runtimeVars, cookie>>, NEW h \in Handlers, NEW c \in Handler,
         handler' = [handler EXCEPT ![h] = c],
         page' \in Page, context' \in Context, restore' \in Context \cup {None}, Spend
  PROVE  IInv'
  <1>1. ClientTypeOK
    BY DEF IInv, TypeOK
  <1>2. ClientTypeOK'
    BY <1>1, SpendType DEF ClientTypeOK
  <1> QED
    BY <1>2, PageStep DEF runtimeVars

LEMMA StartType ==
  ASSUME NEW h \in Handlers, NEW todo \in Seq(Steps), Start(h, todo)
  PROVE  \E c \in Handler : handler' = [handler EXCEPT ![h] = c]
  BY IdleType DEF Start

LEMMA PanesType == \A v : PanesOf(v) \in Seq(Steps)
  <1>1. {"messages", "tasks", "audit"} \subseteq Steps
    BY DEF Steps, Reads
  <1> QED
    BY <1>1 DEF PanesOf

LEMMA UserIInv ==
  ASSUME IInv, User
  PROVE  IInv'
  <1> USE DEF Untouched
  <1>1. /\ ClientTypeOK /\ page \in Page /\ context \in Context
        /\ page.selected \in Projects \cup {None} /\ page.view \in Views
        /\ None \in Context \cup {None}
    BY DEF IInv, TypeOK, ClientTypeOK, Page
  <1>2. ASSUME NEW h \in Handlers, NEW p \in Projects, SelectProject(h, p)
        PROVE  IInv'
    <2>1. [page EXCEPT !.selected = p] \in Page
      BY <1>1 DEF Page
    <2>2. page' \in Page
      BY <1>2, <2>1, ControlsType DEF SelectProject
    <2>3. context' \in Context
      BY <1>1, <1>2 DEF SelectProject, Context
    <2> QED
      BY <1>1, <1>2, <2>2, <2>3, PanesType, StartType, ClickStep DEF SelectProject, Click
  <1>3. ASSUME NEW h \in Handlers, NEW v \in Views, SetActiveView(h, v)
        PROVE  IInv'
    <2> DEFINE flags == page.loading \cup (IF v = "assigned-agents" THEN {"configuration"}
                                           ELSE IF v = "audit-timeline" THEN {"audit"} ELSE {})
    <2>1. flags \subseteq {"tasks", "configuration", "audit"}
      BY <1>1 DEF Page
    <2>2. page' = UpdateSelected([page EXCEPT !.view = v, !.loading = flags])
      BY <1>1, <1>3 DEF SetActiveView, Page
    <2> HIDE DEF flags
    <2>3. [page EXCEPT !.view = v, !.loading = flags] \in Page
      BY <1>1, <2>1 DEF Page
    <2>4. page' \in Page
      BY <2>2, <2>3, ControlsType
    <2>5. context' \in Context
      BY <1>1, <1>3 DEF SetActiveView, Context
    <2>6. <<"configuration">> \in Seq(Steps)
      BY DEF Steps, Reads
    <2>7. \E c \in Handler : handler' = [handler EXCEPT ![h] = c]
      BY <1>3, <2>6, PanesType, StartType DEF SetActiveView
    <2> QED
      BY <1>1, <1>3, <2>4, <2>5, <2>7, ClickStep DEF SetActiveView, Click
  <1>4. ASSUME NEW h \in Handlers, Press(h)
        PROVE  IInv'
    <2>1. Buttons \subseteq Seq(Steps)
      BY DEF Buttons, Steps, Reads, Writes
    <2>2. \E c \in Handler : handler' = [handler EXCEPT ![h] = c]
      BY <1>4, <2>1, StartType DEF Press
    <2> QED
      BY <1>1, <1>4, <2>2, ClickStep DEF Press, Click
  <1>5. ASSUME NEW h \in Handlers, SubmitWork(h)
        PROVE  IInv'
    <2>1. PICK route \in {"output", "approval"}, owner \in Actors \cup {"delegate"} :
            handler' = [handler EXCEPT ![h] =
              [Idle EXCEPT !.todo = <<route, "both">>, !.task = page.tasks,
                           !.owner = owner, !.submits = TRUE]]
      BY <1>5 DEF SubmitWork
    <2>2. <<route, "both">> \in Seq(Steps) /\ owner \in Owners /\ page.tasks \in Projects \cup {None}
      BY <1>1 DEF Steps, Writes, OnTasks, Owners, Page
    <2>3. [Idle EXCEPT !.todo = <<route, "both">>, !.task = page.tasks,
                       !.owner = owner, !.submits = TRUE] \in Handler
      BY <2>2, IdleType DEF Handler
    <2>4. page' \in Page
      BY <1>1, <1>5 DEF SubmitWork, Page
    <2> QED
      BY <1>1, <1>5, <2>1, <2>3, <2>4, ClickStep DEF SubmitWork, Click
  <1>6. ASSUME NEW h \in Handlers, SignInHere(h)
        PROVE  IInv'
    <2>1. <<"sign_in">> \in Seq(Steps)
      BY DEF Steps, Writes
    <2> QED
      BY <1>1, <1>6, <2>1, StartType, ClickStep DEF SignInHere, IInv, TypeOK, ClientTypeOK
  <1>7. CASE Reload
    <2>1. restore' \in Context \cup {None}
      BY <1>1, <1>7 DEF Reload, Context
    <2>2. /\ page' \in Page
          /\ DOMAIN handler' = Handlers /\ \A h \in Handlers : handler'[h] \in Handler
          /\ requests' \subseteq requests
      BY <1>1, <1>7, OpenRootType DEF Reload
    <2>3. ClientTypeOK'
      BY <1>1, <1>7, <2>1, <2>2, SpendType DEF Reload, ClientTypeOK
    <2> QED
      BY <1>7, <2>2, <2>3, PageStep DEF Reload
  <1> QED
    BY <1>2, <1>3, <1>4, <1>5, <1>6, <1>7 DEF User

-----------------------------------------------------------------------------
(* Answers.                                                                *)

LEMMA GoesType ==
  ASSUME IInv, NEW q \in requests, q.by \in Handlers, handler[q.by].todo # <<>>,
         NEW p \in Page, NEW more \in Seq(Steps), Goes(q, p, more)
  PROVE  /\ page' \in Page
         /\ DOMAIN handler' = Handlers /\ \A h \in Handlers : handler'[h] \in Handler
         /\ requests' \subseteq requests
  <1> DEFINE rest == Tail(handler[q.by].todo) \o more
             next == IF rest = <<>> THEN Idle ELSE [handler[q.by] EXCEPT !.todo = rest]
  <1>1. handler[q.by] \in Handler /\ DOMAIN handler = Handlers
        /\ \A h \in Handlers : handler[h] \in Handler
    BY DEF IInv, TypeOK, ClientTypeOK
  <1>2. rest \in Seq(Steps)
    BY <1>1 DEF Handler
  <1>3. handler' = [handler EXCEPT ![q.by] = next]
    BY DEF Goes
  <1>4. page' = Finally(p, q.by, rest)
    BY DEF Goes
  <1> HIDE DEF rest
  <1>5. next \in Handler
    BY <1>1, <1>2, IdleType DEF Handler
  <1>6. page' \in Page
    BY <1>4, FinallyType
  <1> HIDE DEF next
  <1> QED
    BY <1>1, <1>3, <1>5, <1>6 DEF Goes

LEMMA DeliverIInv ==
  ASSUME IInv, NEW q \in requests, Deliver(q)
  PROVE  IInv'
  <1>1. /\ ClientTypeOK /\ page \in Page /\ q \in Request /\ RequestOk(q, sessions)
        /\ q.by \in Handlers /\ q.phase = "answered"
        /\ UNCHANGED <<sessions, server, storeOpen, projects, planned, events>>
        /\ restore' \in Context \cup {None}
    BY DEF IInv, TypeOK, RuntimeTypeOK, ClientTypeOK, Deliver
  <1>2. /\ DOMAIN handler = Handlers /\ \A h \in Handlers : handler[h] \in Handler
        /\ cookie \in Sessions \cup {None} /\ context \in Context
    BY <1>1 DEF ClientTypeOK
  <1>3. Applied(page, q) \in Page
    BY <1>1, AppliedType
  <1>4. ASSUME page' \in Page, DOMAIN handler' = Handlers,
               \A h \in Handlers : handler'[h] \in Handler, requests' \subseteq requests,
               cookie' \in Sessions \cup {None}, context' \in Context
        PROVE  IInv'
    <2>1. ClientTypeOK'
      BY <1>1, <1>4 DEF ClientTypeOK
    <2> QED
      BY <1>1, <1>4, <2>1, PageStep
  <1>5. CASE Waits(q)
    BY <1>2, <1>3, <1>4, <1>5 DEF Waits
  <1>6. CASE Stops(q)
    <2>1. page' \in Page
      BY <1>3, <1>6, FinallyType DEF Stops
    <2>2. DOMAIN handler' = Handlers /\ \A h \in Handlers : handler'[h] \in Handler
      BY <1>1, <1>2, <1>6, IdleType DEF Stops
    <2> QED
      BY <1>2, <1>4, <1>6, <2>1, <2>2 DEF Stops
  <1> DEFINE todo == handler[q.by].todo
  <1>7. CASE LoadedProjects(q) /\ todo # <<>>
    <2> DEFINE p == RenderProjects(page, q.list, Preferred(q))
               more == (IF p.view = "assigned-agents" THEN <<"configuration">> ELSE <<>>)
                       \o (IF p.selected = None THEN <<>> ELSE <<"messages", "pane">>)
    <2>1. q.list \in SUBSET Projects
      BY <1>1 DEF Request
    <2>2. p \in Page
      BY <1>1, <2>1, RenderType
    <2>3. Goes(q, p, more) /\ context' = [project |-> p.selected, view |-> p.view] /\ UNCHANGED cookie
      BY <1>7 DEF LoadedProjects
    <2> HIDE DEF p
    <2>4. more \in Seq(Steps)
      <3>1. <<"configuration">> \in Seq(Steps) /\ <<"messages", "pane">> \in Seq(Steps)
            /\ <<>> \in Seq(Steps)
        BY DEF Steps, Reads
      <3> QED
        BY <3>1
    <2>5. context' \in Context
      BY <2>2, <2>3 DEF Page, Context
    <2> HIDE DEF more
    <2>6. /\ page' \in Page
          /\ DOMAIN handler' = Handlers /\ \A h \in Handlers : handler'[h] \in Handler
          /\ requests' \subseteq requests
      BY <1>1, <1>7, <2>2, <2>3, <2>4, GoesType
    <2> QED
      BY <1>2, <1>4, <2>3, <2>5, <2>6
  <1>8. CASE CreatedProject(q) /\ q.status = "ok" /\ todo # <<>>
    <2>1. q.list \in SUBSET Projects /\ q.list # {}
      BY <1>1, <1>8 DEF Request, RequestOk, CreatedProject
    <2>2. FirstOf(q.list) \in Projects
      BY <2>1, FirstProject
    <2> DEFINE next == [handler[q.by] EXCEPT !.todo = Tail(todo), !.prefer = FirstOf(q.list)]
    <2>3. todo \in Seq(Steps)
      BY <1>1, <1>2 DEF Handler
    <2>4. Tail(todo) \in Seq(Steps)
      BY <1>8, <2>3
    <2>5. next \in Handler
      BY <1>1, <1>2, <2>2, <2>4 DEF Handler
    <2>6. handler' = [handler EXCEPT ![q.by] = next]
      BY <1>1, <1>2, <1>8 DEF CreatedProject, Handler
    <2> HIDE DEF next
    <2> QED
      BY <1>1, <1>2, <1>4, <1>8, <2>5, <2>6 DEF CreatedProject
  <1>9. CASE LoadedSession(q) /\ todo # <<>>
    <2>1. CASE OpenRoot(cookie, requests)
      BY <1>1, <1>2, <1>4, <1>9, <2>1, OpenRootType DEF LoadedSession
    <2>2. CASE Goes(q, Applied(page, q), <<>>)
      <3>1. <<>> \in Seq(Steps)
        OBVIOUS
      <3> QED
        BY <1>1, <1>2, <1>3, <1>4, <1>9, <2>2, <3>1, GoesType DEF LoadedSession
    <2> QED
      BY <1>9, <2>1, <2>2 DEF LoadedSession
  <1>10. CASE SignedIn(q)
    <2>1. cookie' \in Sessions \cup {None}
      BY <1>1, <1>10 DEF SignedIn, Request
    <2> QED
      BY <1>1, <1>2, <1>4, <1>10, <2>1, OpenRootType DEF SignedIn
  <1>11. CASE SignedOut(q)
    BY <1>1, <1>2, <1>4, <1>11, OpenRootType DEF SignedOut
  <1>12. CASE Continues(q) /\ todo # <<>>
    <2>1. <<>> \in Seq(Steps)
      OBVIOUS
    <2> QED
      BY <1>1, <1>2, <1>3, <1>4, <1>12, <2>1, GoesType DEF Continues
  <1> QED
    BY <1>5, <1>6, <1>7, <1>8, <1>9, <1>10, <1>11, <1>12 DEF Deliver

-----------------------------------------------------------------------------
(* The rest of the world.                                                  *)

LEMMA WorldIInv ==
  ASSUME IInv, World
  PROVE  IInv'
  <1>1. /\ RuntimeTypeOK /\ ClientTypeOK /\ \A x \in requests : x \in Request
        /\ sessions \in [Sessions -> Session]
    BY DEF IInv, TypeOK, RuntimeTypeOK
  <1>2. CASE OtherTab
    <2>1. /\ sessions' \in [Sessions -> Session] /\ KeepsIssued(sessions, sessions')
          /\ cookie' \in Sessions \cup {None}
      BY <1>1, <1>2, SessionsChange DEF OtherTab, Unissued
    <2>2. ClientTypeOK'
      BY <1>1, <1>2, <2>1, SpendType DEF OtherTab, ClientTypeOK
    <2> QED
      BY <1>2, <2>1, <2>2, QuietStep DEF OtherTab
  <1>3. CASE AgentSends
    <2>1. /\ cookie \in Sessions \cup {None} /\ Agent \in Senders
          /\ planned \subseteq Projects /\ (projects < MaxProjects => projects + 1 \in Projects)
      BY <1>1, WorkspaceAssumption, RuntimeAssumption
         DEF ClientTypeOK, RuntimeTypeOK, Projects
    <2>2. None \notin Projects
      BY RuntimeAssumption DEF Projects
    <2>3. ClientTypeOK'
      BY <1>1, <1>3, SpendType DEF AgentSends, ClientTypeOK
    <2>4. ASSUME NEW x \in requests', x \notin requests
          PROVE  x \in Request /\ RequestOk(x, sessions) /\ x.phase # "reading"
      <3>1. CASE \E ws \in planned, owner \in Actors :
                   x = NewRequest(Agent, "checkout", cookie, ws, ws, owner)
        BY <2>1, <3>1, NewRequests DEF Writes, OnTasks, Owners
      <3>2. CASE \E ws \in planned : x = NewRequest(Agent, "release", cookie, ws, ws, "self")
        BY <2>1, <3>2, NewRequests DEF Writes, OnTasks, Owners
      <3>3. CASE /\ projects < MaxProjects
                 /\ \E owner \in Actors :
                      x = NewRequest(Agent, "post_message", cookie, projects + 1, None, owner)
        BY <2>1, <2>2, <3>3, NewRequests DEF Writes, OnTasks, Owners
      <3> QED
        BY <1>3, <2>4, <3>1, <3>2, <3>3 DEF AgentSends
    <2> QED
      BY <1>3, <2>3, <2>4, PageStep DEF AgentSends
  <1>4. ASSUME NEW q \in requests, Lose(q)
        PROVE  IInv'
    <2> DEFINE r == Answer(q, "lost")
    <2>1. q \in Request /\ RequestOk(q, sessions) /\ requests' = (requests \ {q}) \cup {r}
      BY <1>1, <1>4 DEF IInv, Lose, Replace
    <2>2. r \in Request /\ r.phase = "answered" /\ r.status = "lost" /\ r.route = q.route /\ r.ws = q.ws
      BY <2>1, Answered
    <2> HIDE DEF r
    <2>3. RequestOk(r, sessions)
      BY <2>1, <2>2 DEF RequestOk
    <2>4. ClientTypeOK'
      BY <1>1, <1>4, SpendType DEF Lose, ClientTypeOK
    <2> QED
      BY <1>4, <2>1, <2>2, <2>3, <2>4, PageStep DEF Lose
  <1>5. ASSUME NEW id \in Sessions, Expire(id), Spend, RuntimeOnly
        PROVE  IInv'
    <2>1. sessions' \in [Sessions -> Session] /\ KeepsIssued(sessions, sessions')
      BY <1>1, <1>5, SessionsChange DEF Expire
    <2>2. ClientTypeOK'
      BY <1>1, <1>5, SpendType DEF RuntimeOnly, ClientTypeOK
    <2> QED
      BY <1>5, <2>1, <2>2, QuietStep DEF Expire
  <1>6. CASE Stop /\ Spend /\ RuntimeOnly
    <2>1. ClientTypeOK'
      BY <1>1, <1>6, SpendType DEF RuntimeOnly, ClientTypeOK
    <2> QED
      BY <1>6, <2>1 DEF Stop, IInv, TypeOK, RuntimeTypeOK, StoreOk
  <1>7. CASE Restart /\ Spend /\ RuntimeOnly
    <2> DEFINE st == [s \in Sessions |->
                        IF sessions[s].state = "unissued" THEN sessions[s]
                        ELSE [sessions[s] EXCEPT !.state = "ended"]]
    <2>1. ClientTypeOK'
      BY <1>1, <1>7, SpendType DEF RuntimeOnly, ClientTypeOK
    <2>2. st \in [Sessions -> Session] /\ KeepsIssued(sessions, st)
      <3>1. \A s \in Sessions : [sessions[s] EXCEPT !.state = "ended"] \in Session
        BY <1>1 DEF Session
      <3> QED
        BY <1>1, <3>1 DEF KeepsIssued, Session
    <2>3. sessions' = st
      BY <1>7 DEF Restart
    <2> HIDE DEF st
    <2>4. \A x \in requests : RequestOk(x, sessions')
      BY <2>2, <2>3, StillOk DEF IInv
    <2> QED
      BY <1>1, <1>7, <2>1, <2>2, <2>3, <2>4 DEF Restart, IInv, TypeOK, RuntimeTypeOK, StoreOk
  <1> QED
    BY <1>2, <1>3, <1>4, <1>5, <1>6, <1>7 DEF World

LEMMA ClosedIInv ==
  ASSUME IInv, Closed, UNCHANGED clientVars
  PROVE  IInv'
  <1>1. ClientTypeOK'
    BY DEF IInv, TypeOK, ClientTypeOK, clientVars
  <1> QED
    BY <1>1 DEF Closed, IInv, TypeOK, RuntimeTypeOK, StoreOk

-----------------------------------------------------------------------------
(* The theorems.                                                           *)

LEMMA InitIInv == Init => IInv
  <1> SUFFICES ASSUME Init PROVE IInv
    OBVIOUS
  <1>1. RuntimeTypeOK
    <2>1. sessions \in [Sessions -> Session]
      BY DEF Init, RuntimeInit, Session
    <2>2. projects \in 0..MaxProjects /\ planned \subseteq 1..projects
      BY RuntimeAssumption DEF Init, RuntimeInit
    <2> QED
      BY <2>1, <2>2 DEF Init, RuntimeInit, RuntimeTypeOK
  <1>2. context \in Context
    BY <1>1, RuntimeAssumption, ClientAssumption
       DEF Init, Context, RuntimeTypeOK, Projects
  <1>3. page \in Page
    <2>1. context.project \in Projects \cup {None} /\ context.view \in Views
      BY <1>2 DEF Context
    <2> QED
      BY <2>1 DEF Init, Opened, Page
  <1>4. DOMAIN handler = Handlers /\ \A h \in Handlers : handler[h] \in Handler
    <2>1. <<"session", "projects">> \in Seq(Steps) /\ context.project \in Projects \cup {None}
      BY <1>2 DEF Steps, Reads, Context
    <2>2. [Idle EXCEPT !.todo = <<"session", "projects">>, !.prefer = context.project] \in Handler
      BY <2>1, IdleType DEF Handler
    <2> QED
      BY <2>2, IdleType DEF Init
  <1>5. ClientTypeOK
    BY <1>2, <1>3, <1>4, ClientAssumption DEF Init, ClientTypeOK
  <1>6. StoreOk /\ \A q \in requests : RequestOk(q, sessions)
    BY DEF Init, RuntimeInit, StoreOk
  <1> QED
    BY <1>1, <1>5, <1>6 DEF IInv, TypeOK

LEMMA NextIInv == IInv /\ [Next]_vars => IInv'
  <1> SUFFICES ASSUME IInv, [Next]_vars PROVE IInv'
    OBVIOUS
  <1>1. CASE UNCHANGED vars
    BY <1>1 DEF vars, runtimeVars, clientVars, IInv, TypeOK, RuntimeTypeOK, ClientTypeOK,
                StoreOk, RequestOk
  <1>2. CASE Next
    BY <1>2, RunIInv, UserIInv, WorldIInv, DeliverIInv, ArriveIInv, ServeIInv, ClosedIInv DEF Next
  <1> QED
    BY <1>1, <1>2

\* The inductive invariant holds throughout.
THEOREM Invariance == Spec => []IInv
  BY InitIInv, NextIInv, PTL DEF Spec

\* Runtime, browser, page and handlers keep values of their types.
THEOREM TypeCorrect == Spec => []TypeOK
  <1>1. IInv => TypeOK
    BY DEF IInv
  <1> QED
    BY <1>1, Invariance, PTL

\* No operation on a task that was accepted was sent to another workspace,
\* whatever the page listed and selected meanwhile.
THEOREM WorkKeepsToItsWorkspace == Spec => []WorkStaysInItsWorkspace
  <1>1. IInv => WorkStaysInItsWorkspace
    BY DEF IInv, RequestOk, WorkStaysInItsWorkspace
  <1> QED
    BY <1>1, Invariance, PTL

\* Whoever an accepted operation acts for is the actor of the session that was
\* live on its arrival, for any number of sign-ins, sign-outs and restarts
\* while its body was read.
THEOREM UsersKeepToThemselves == Spec => []UsersSpeakForThemselves
  <1>1. IInv => UsersSpeakForThemselves
    BY DEF IInv, RequestOk, UsersSpeakForThemselves
  <1> QED
    BY <1>1, Invariance, PTL

\* No handler that waits for its body finds the store closed.
THEOREM StoreOutlives == Spec => []StoreOutlivesItsRequests
  <1>1. IInv => StoreOutlivesItsRequests
    BY DEF IInv, StoreOk, StoreOutlivesItsRequests
  <1> QED
    BY <1>1, Invariance, PTL

=============================================================================
