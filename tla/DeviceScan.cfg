CONSTANTS
  Dev = {d1, d2}
  NULL = NULL
  Gone = Gone
  Channels = 2
  BufRows = 2
  MaxDate = 3
  MaxEvents = 1
SPECIFICATION FairSpec
INVARIANTS TypeOK NoGap
PROPERTIES ImplementsArchive SettingsArrive ValuesArrive
