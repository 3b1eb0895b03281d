SPECIFICATION Spec
CONSTANTS
  SignIns = {s1, s2}
  Processes = {p1, p2}
  Users = {u1}
  Passwords = {a, b}
  Policies <- MCPolicies
  MaxVersion = 3
  Corrupt = Corrupt
  Foreign = Foreign
  Nobody = Nobody
INVARIANTS
  OneDummyPerProcess
  OnlyThrowsRefuseCheaply
  CorruptRowsAreRefused
PROPERTIES
  UpgradesUpgrade
  UpgradesKeepThePassword
  SignInsEnd
CHECK_DEADLOCK FALSE
