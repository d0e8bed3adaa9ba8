CONSTANTS
  WIFI_CONNECT_MAXNUM_RETRY = 0
  WIFI_AP_FIND_MAXNUM_RETRY = 1
SPECIFICATION FairSpec
INVARIANTS
  TypeOK
  StepsEarned
  RestartEarned
PROPERTIES
  GiveUpReported
  TipAfterActivation
  ActivationLeavesScreen
  ErrorLeavesScreen
