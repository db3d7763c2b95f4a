SPECIFICATION Spec
CONSTANTS
  NotNode = notnode
  Unset = Unset
  Jailname = "jail"
  Thishost = "host"
  r1 = r1
  r2 = r2
  ip1 = ip1
  ip2 = ip2
  Release = {r1, r2}
  NoJail = NoJail
  Scenario <- MCScenario
  JailEdits = 2
  BuildLabel = "build"
  Bulk <- MCBulk
  PoudriereEdits = 2
  Trees = {"default", "devel"}
  Versions = {"14.1"}
INVARIANT AvailableIsCurrent
CHECK_DEADLOCK FALSE
