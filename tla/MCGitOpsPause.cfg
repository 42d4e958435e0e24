SPECIFICATION FairSpec
CONSTANTS
  shop = shop
  infra = infra
  Objects = {shop, infra}
  EngineOf <- MCEngineOf
  SettingsOf <- MCSettingsOf
  Settings = {"paused", "auto"}
  Paused = "paused"
  Policies <- Sharing
  MaxTime = 2
  MaxEdits = 1
  MaxFaults = 1
INVARIANTS
  TypeOK
  PausedWhileMarked
PROPERTIES
  SettingsComeBack
  FollowsPolicies
\* the model stops at its bounds
CHECK_DEADLOCK FALSE
