SPECIFICATION Spec
CONSTANTS
  alex = alex
  alexTyped = alexTyped
  sam = sam
  spam = spam
  junk = junk
  google = google
  Malformed = Malformed
  NoPassword = NoPassword
  NoUser = NoUser
  NoRow = NoRow
  NoUserId = NoUserId
  Unwritten = Unwritten
  Emails <- MCEmails
  RawEmails <- MCRawEmails
  EmailOf <- MCEmailOf
  BlockedEmails <- MCBlockedEmails
  Providers = {google, github}
  ExternalIds = {x1}
  AccountIds = {id1, id2}
  Hashes = {h1}
  Profiles <- MCOneVouches
  Operations = {"linkOAuth", "unlink"}
  Requests = {r1, r2}
  UserIds = {u1, u2}
  MaxVersion = 3
SYMMETRY Symmetry
INVARIANTS
  OnlyAccountsDeadlock
  OneUserPerEmail
  OneUserPerKey
  EveryStoredUserIsSound
  UntornWhenCurrent
PROPERTIES
  ImplementsAtomicAccounts
  NoUpdateIsLost
  VerificationsLast
  ConflictsAreReal
