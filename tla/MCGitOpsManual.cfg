SPECIFICATION Spec
CONSTANTS
  shop = shop
  infra = infra
  Objects = {shop}
  EngineOf <- AppEngine
  SettingsOf <- AppSettings
  Settings = {"paused", "auto", "tuned"}
  Paused = "paused"
  Policies <- Alone
  MaxTime = 2
  MaxEdits = 1
  MaxFaults = 0
PROPERTY
  ManualChangesSurvive
\* the model stops at its bounds
CHECK_DEADLOCK FALSE
