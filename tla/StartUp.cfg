SPECIFICATION Spec
CONSTANTS
  Models = {"gpt", "own_model"}
  Providers = {openai}
  Specialists = {"backend_agent", "reviewer"}
  ReviewRoles = {"reviewer"}
  IntegrationRoles = {}
  BackendRoles = {"backend_agent"}
  Settings = {"host", "providers"}
  Target = 2
  Scripts = 3
  Sentinels = {1, 2}
  MaxEvents = 6
  Absent = Absent
  Torn = Torn
  None = None
CHECK_DEADLOCK FALSE
INVARIANTS
  TypeOK
  StartsAreMadeGood
  ChoicesSurvive
