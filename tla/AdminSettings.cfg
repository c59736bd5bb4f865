SPECIFICATION SettingsSpec
CONSTANTS
  Items = {i1, i2}
  Promoted = {i1}
  Options = {e1, e2}
  Default = v0
  Nothing = Nothing
  Admins = {w1, w2}
  Unsaved = Unsaved
  Shut = Shut
  MaxSaves = 2  MaxRevisions = 3
PROPERTIES CompetingSavesStay
CHECK_DEADLOCK FALSE
