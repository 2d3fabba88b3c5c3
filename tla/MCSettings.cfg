SPECIFICATION FairSettings
CHECK_DEADLOCK FALSE
CONSTANTS
  Widths = {12, 20}
  Looks = {"amber", "green"}
  Edits = 2
  Drags = 1
  Signals = 1
INVARIANTS
  SettingsSound
PROPERTIES
  SettingsSettle
