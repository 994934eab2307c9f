SPECIFICATION Spec
CONSTANTS
  Caller = {c1, c2}
  Call <- MCCall
  CacheKey <- MCCacheKey
  MetaKey <- MCMetaKey
  Path <- MCPath
  Slot <- MCSlot
  Text <- MCText
  Time = {1, 2}
  PermissionSets <- MCPermissionSets
  HookSets <- MCHookSets
  Dispatched = {"run_on_tick"}
  Stubbed = {"env.cache_get", "env.model_complete"}
  Behaviour = {"typed", "denies"}
  Absent = Absent
  Never = Never
  Unrestricted = Unrestricted
  NoStub = NoStub
  MaxCalls = 3
  MaxSetup = 1
SYMMETRY MCSymmetry
INVARIANTS AcknowledgedIsThere
PROPERTIES ServesCaches RefusalsTouchNothing
CHECK_DEADLOCK FALSE
