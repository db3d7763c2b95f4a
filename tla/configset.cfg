SPECIFICATION FairSpec
CONSTANTS
  Name = {"a", "b"}
  Menu <- MCMenu
  Path <- MCPath
  Parent <- MCParent
  RcConf <- MCRcConf
  NodeLabels <- MCNodeLabels
  Package = {"pkg"}
  Service = {"svc"}
  Exec = {"exe"}
  Target = {"jail"}
  Data = {"x", "y", "s", "t", "junk"}
  Junk = "junk"
  Secret = {"s", "t"}
  Deleted = Deleted
  Down = Down
  NoEntry = NoEntry
  EditBound = 2
INVARIANTS
  TypeOK
  
  StaleOnlyIfLost
  
PROPERTIES
  InPlaceIsLeftAlone
  Converges
  
