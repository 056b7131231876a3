SPECIFICATION Spec
CONSTANTS
  h1 = h1
  h2 = h2
  agent = agent
  Actors = {ada, bob}
  Sessions = {s1, s2}
  Views = {"main-chat", "assigned-agents", "audit-timeline"}
  MaxProjects = 2
  MaxEvents = 3
  None = None
  Agent = agent
  Handlers <- HandlersOfPage
  Senders <- EverySender
SYMMETRY Symmetry
CHECK_DEADLOCK FALSE
INVARIANTS
  TypeOK
  SettledPageIsUsable
  RefreshRestores
  WorkStaysInItsWorkspace
  UsersSpeakForThemselves
  StoreOutlivesItsRequests
