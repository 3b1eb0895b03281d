SPECIFICATION FairSpec
CONSTANTS
  alex = alex
  alexTyped = alexTyped
  sam = sam
  spam = spam
  junk = junk
  google = google
  Malformed = Malformed
  NoPassword = NoPassword
  NoUser = NoUser
  NoRow = NoRow
  NoUserId = NoUserId
  Unwritten = Unwritten
  Emails = {alex, sam}
  RawEmails = {alex, sam}
  EmailOf <- MCAlexAndSam
  BlockedEmails = {}
  Providers = {google, github}
  ExternalIds = {x1}
  AccountIds = {id1, id2}
  Hashes = {h1}
  Profiles <- MCNoneVouches
  Operations = {"linkOAuth"}
  Requests = {r1, r2}
  UserIds = {u1, u2}
  MaxVersion = 2
PROPERTY EveryUnitOfWorkEnds
