SPECIFICATION Spec
CONSTANTS
  registerUser = registerUser
  getUser = getUser
  health = health
  registrationFailed = registrationFailed
  userNotFound = userNotFound
  concurrentModification = concurrentModification
  email = email
  id = id
  passwordHash = passwordHash
  NoContract = NoContract
  NoCode = NoCode
  Requests = {r1}
  Endpoints <- MCEndpoints
  Codes <- MCCodes
  Keys <- WithHash
  HttpStatuses <- MCHttpStatuses
  Catalogs <- TheCatalogs
INVARIANTS SuccessesAreStripped
CHECK_DEADLOCK FALSE
