SPECIFICATION Spec
CONSTANTS
  registerUser = registerUser
  getUser = getUser
  health = health
  registrationFailed = registrationFailed
  userNotFound = userNotFound
  concurrentModification = concurrentModification
  email = email
  id = id
  passwordHash = passwordHash
  NoContract = NoContract
  NoCode = NoCode
  Requests = {r1}
  Endpoints <- MCEndpoints
  Codes <- MCCodes
  Keys <- MCKeys
  HttpStatuses <- MCHttpStatuses
  Catalogs <- TheCatalogs
INVARIANTS RequestsAreLogged
CHECK_DEADLOCK FALSE
