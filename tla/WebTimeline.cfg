SPECIFICATION Spec
CONSTANTS
  h1 = h1
  h2 = h2
  agent = agent
  Actors = {ada}
  Sessions = {s1}
  Views = {"main-chat", "assigned-agents", "audit-timeline"}
  MaxProjects = 2
  MaxEvents = 1
  None = None
  Agent = agent
  Handlers <- HandlersOfPage
  Senders <- EverySender
SYMMETRY Symmetry
CHECK_DEADLOCK FALSE
INVARIANT TimelineIsOfSelection
