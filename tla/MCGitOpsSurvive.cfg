SPECIFICATION Spec
CONSTANTS
  shop = shop
  infra = infra
  Objects = {shop}
  EngineOf <- AppEngine
  SettingsOf <- AppSettings
  Settings = {"paused", "auto", "tuned"}
  Paused = "paused"
  Policies <- BackToBack
  MaxTime = 3
  MaxEdits = 0
  MaxFaults = 0
PROPERTY
  SettingsSurvive
\* the model stops at its bounds
CHECK_DEADLOCK FALSE
