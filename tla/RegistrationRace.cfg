SPECIFICATION Spec
CONSTANTS
  alex = alex
  alexTyped = alexTyped
  sam = sam
  spam = spam
  junk = junk
  google = google
  Malformed = Malformed
  NoPassword = NoPassword
  NoUser = NoUser
  NoRow = NoRow
  NoUserId = NoUserId
  Unwritten = Unwritten
  Emails = {alex}
  RawEmails = {alex}
  EmailOf <- MCAlexOnly
  BlockedEmails = {}
  Providers = {google}
  ExternalIds = {x1}
  AccountIds = {id1}
  Hashes = {h1}
  Profiles <- MCProfiles
  Operations = {"linkOAuth"}
  Requests = {r1, r2}
  UserIds = {u1, u2}
  MaxVersion = 1
INVARIANT TakenEmailIsReported
