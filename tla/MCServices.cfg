SPECIFICATION Spec
CONSTANTS
  Members = {"m1", "m2", "m3", "m4"}
  Scopes <- MCScopes
  ScopeOf <- MCScopeOf
  NameOf <- MCNameOf
  EntryName <- MCEntryName
  TheScope <- MCTheScope
  TheDatabase <- MCTheDatabase
  BadUrl = {"m4"}
  Datnames <- MCDatnames
  DBTypes = {"patroni", "patroni-namespace-discovery", "postgres-continuous"}
  FirstMembers <- MCFirstMembers
  MaxChanges = 2
  PromMetrics = {"a", "b"}
  StorageName <- MCStorageName
  Stamped = {"a", "b"}
  Configurations = {{}, {"b"}, {"a", "b"}}
  Removable = {"b"}
  HardDropLimit = 0
  ChannelCapacity = 1
INVARIANTS
  ServicesTypeOK
  NamesAreUnique
  RemovedLeavesNothing RowsHaveAPlace
  StoresIndependent NothingVanishes
PROPERTIES
  OutageChangesNothing ResolvedConverges BacklogDrains
  StaleRowsDisappear
CHECK_DEADLOCK FALSE
