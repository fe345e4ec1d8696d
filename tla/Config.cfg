SPECIFICATION StoreSpec
CONSTANTS
  u1 = u1
  u2 = u2
  v2 = v2
  p1 = p1
  p2 = p2
  i1 = i1
  i2 = i2
  Blank = Blank
  NoUrl = NoUrl
  Missing = Missing
  None = None
  NoSave = NoSave
  Urls = {u1, u2, v2}
  server_key <- KeyOf
  normalize_pci_bdf <- BusIdForms
  uuid_form <- UuidForms
  MaxIndex = 1
  Processes = {p1, p2}
  Pids = {i1, i2}
  Edits <- DialogConfigs
  Overrides <- CommandLines
  OldFiles <- OldConfigs
  MaxAttempts = 2
  MaxCounter = 2
  MaxFailures = 1
SYMMETRY Symmetry
VIEW WithoutSettings
INVARIANTS
  NothingLeftBehind
  ExhaustedByLeftovers
PROPERTIES
  SavesAreAtomic
  OnlyOwnTempChanges
