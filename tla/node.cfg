SPECIFICATION FairSpec
CONSTANTS
  Hostname = host
  NotNode = notnode
  a = a
  b = b
  web = web
  db = db
  Name = {a, b}
  Role = {web, db}
  Key = {k1, k2, k3}
  NoNode = NoNode
  Nothing = Nothing
  Menu <- MCMenu
  EditBound = 2
INVARIANTS NodeTypeOK 
PROPERTIES  LastUpgradeKept NodeSettles
