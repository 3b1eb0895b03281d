SPECIFICATION ReadSpec
CONSTANTS
  alex = alex
  kim = kim
  sam = sam
  u1 = u1
  u2 = u2
  u3 = u3
  Emails = {alex, kim, sam}
  Providers = {google}
  ExternalIds = {x1}
  AccountIds = {id1}
  Hashes = {h1}
  NoPassword = NoPassword
  NoUser = NoUser
  Profiles <- MCNoneVouches
  Operations = {"linkOAuth", "unlink"}
  UserIds = {u1, u2, u3}
  MaxVersion = 2
  Clients = {client}
  Searches <- MCSearches
  Limits = {1, 2}
  CreatedAt <- MCCreatedAt
  EmailOrder <- MCEmailOrder
  Ties <- MCTies
INVARIANTS
  WalkSeesEveryone
  UndisturbedWalkIsExact
  NotFoundMeansAbsent
  MethodsAreTornOnlyByChanges
CHECK_DEADLOCK FALSE
