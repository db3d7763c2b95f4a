SPECIFICATION Spec
CONSTANTS
  Caller = {n1, n2}
  Identity = {n1, n2}
  KubeNode = {n1}
  id <- Hostname
  NoHolder = NoHolder
  NoLease = NoLease
  Never = Never
  Durations <- TTLs
  Period = 2
  Delay = 1
  Forgiveness = 1
  Backdate = 2
  AgeCap = 3
INVARIANTS
  UpgradeTypeOK
  OneUpgradingInLease
  UpgradedWhileCordoned
PROPERTIES
  RecordsKept
