SPECIFICATION FairSpec
CONSTANTS
  Providers = {"cloudflare", "ngrok"}
  Runtime = "runtime"
  Blank = ""
  OnLocalHost = TRUE
  ApiProvider = "ngrok"
  MaxSignals = 3
  RawOrders <- Orders
  DefaultOrder <- Default
CHECK_DEADLOCK FALSE
INVARIANTS
  TypeOK
  TunnelsAreSupervised
PROPERTIES
  GracefulUnlessForced
  InitSettles
  RuntimeFollowsCommand
