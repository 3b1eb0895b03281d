--------------------------- MODULE UsersWritePath ---------------------------
(***************************************************************************)
(* The write path of identity: RegisterUserHandler, and any handler that   *)
(* loads a user, calls a method of the aggregate and saves it, over        *)
(* DrizzleUsersRepository and PostgreSQL.  Each statement is a step, so    *)
(* the statements of concurrent requests interleave.                       *)
(*                                                                         *)
(* A request runs its handler under @Transactional(): its statements go to *)
(* one connection and one READ COMMITTED transaction, which reads what is  *)
(* committed and what it wrote itself, and commits when the handler        *)
(* returns or rolls back when it throws.                                   *)
(***************************************************************************)
EXTENDS UserAggregate

CONSTANTS
  Requests,       \* units of work that may be under way at once
  UserIds,        \* ids UserId.next() may draw
  RawEmails,      \* addresses as callers type them
  EmailOf,        \* what Email.of makes of each: an address, or Malformed
  Malformed,
  BlockedEmails,  \* addresses in BLOCKED_DOMAINS
  NoRow, NoUser, NoUserId,
  Unwritten,      \* a transaction has not touched the password row
  MaxVersion      \* bound: no unit of work starts on a user of this version

ASSUME EmailOfIsNormalising == EmailOf \in [RawEmails -> Emails \cup {Malformed}]
ASSUME NullsAreApart ==
  /\ Malformed \notin Emails /\ NoRow \notin [email : Emails, verified : BOOLEAN,
                                              status : Statuses, version : Nat]
  /\ NoUser \notin User /\ NoUserId \notin UserIds
  /\ Unwritten \notin Hashes \cup {NoPassword}
ASSUME MaxVersionIsPositive == MaxVersion \in Nat \ {0}
ASSUME RequestsAreFinite == IsFiniteSet(Requests)

VARIABLES
  users, passwords, oauthAccounts,  \* the committed rows, by user id
  pc,       \* what the request does next
  userId,   \* the user it works on
  user,     \* the aggregate in its memory
  base,     \* history: the aggregate as it was loaded, NoUser for a registration
  tx,       \* what its transaction has written and not committed
  outcome   \* how its last unit of work ended

tables == <<users, passwords, oauthAccounts>>
vars == <<users, passwords, oauthAccounts, pc, userId, user, base, tx, outcome>>

UserRow == [email : Emails, verified : BOOLEAN, status : Statuses, version : Nat]

Tx == [row      : UserRow \cup {NoRow},
       password : Hashes \cup {NoPassword, Unwritten},
       deleted  : BOOLEAN,
       inserted : {S \in SUBSET Account : IsFiniteSet(S)},
       dropped  : SUBSET Account]   \* rows it inserted and deleted again

EmptyTx == [row |-> NoRow, password |-> Unwritten, deleted |-> FALSE,
            inserted |-> {}, dropped |-> {}]

Steps == {"idle", "hashing", "loadingPassword", "loadingAccounts", "deciding", "savingUser",
          "savingPassword", "deletingAccounts", "insertingAccounts", "saved"}

Outcomes == {"none", "committed", "failed", "MALFORMED", "EMAIL_DOMAIN_BLOCKED",
             "EMAIL_ALREADY_REGISTERED", "ALREADY_LINKED", "LAST_METHOD", "NOT_LINKED",
             "STALE_VERSION", "EMAIL_VIOLATION", "KEY_VIOLATION", "DEADLOCK"}

-----------------------------------------------------------------------------
(* Rows and aggregates. *)

ToDomain(row, password, accounts) ==
  [email |-> row.email, verified |-> row.verified, status |-> row.status,
   password |-> password, accounts |-> accounts, version |-> row.version]

ToRow(a, version) ==
  [email |-> a.email, verified |-> a.verified, status |-> a.status, version |-> version]

Stored(u) == users[u] # NoRow

StoredUser(u) ==
  IF Stored(u) THEN ToDomain(users[u], passwords[u], oauthAccounts[u]) ELSE NoUser

Busy(r) == pc[r] # "idle"

Init ==
  /\ users = [u \in UserIds |-> NoRow]
  /\ passwords = [u \in UserIds |-> NoPassword]
  /\ oauthAccounts = [u \in UserIds |-> {}]
  /\ pc = [r \in Requests |-> "idle"]
  /\ userId = [r \in Requests |-> NoUserId]
  /\ user = [r \in Requests |-> NoUser]
  /\ base = [r \in Requests |-> NoUser]
  /\ tx = [r \in Requests |-> EmptyTx]
  /\ outcome = [r \in Requests |-> "none"]

(* The unit of work is over: its locks and its memory are gone. *)
End(r, result) ==
  /\ pc' = [pc EXCEPT ![r] = "idle"]
  /\ userId' = [userId EXCEPT ![r] = NoUserId]
  /\ user' = [user EXCEPT ![r] = NoUser]
  /\ base' = [base EXCEPT ![r] = NoUser]
  /\ tx' = [tx EXCEPT ![r] = EmptyTx]
  /\ outcome' = [outcome EXCEPT ![r] = result]

Rollback(r, result) == End(r, result) /\ UNCHANGED tables

-----------------------------------------------------------------------------
(* RegisterUserHandler up to the save. *)

EmailRefusal(email) ==
  CASE email = Malformed -> "MALFORMED"
    [] email \in BlockedEmails -> "EMAIL_DOMAIN_BLOCKED"
    [] \E u \in UserIds : Stored(u) /\ users[u].email = email -> "EMAIL_ALREADY_REGISTERED"
    [] OTHER -> Accepted

(* UserId.next() draws an id nobody has. *)
FreshUserIds == {u \in UserIds : ~Stored(u) /\ \A r \in Requests : userId[r] # u}

RefuseRegistration(r) ==
  \E raw \in RawEmails :
    /\ ~Busy(r)
    /\ EmailRefusal(EmailOf[raw]) # Accepted
    /\ Rollback(r, EmailRefusal(EmailOf[raw]))

StartRegistration(r) ==
  \E raw \in RawEmails, u \in FreshUserIds :
    /\ ~Busy(r)
    /\ EmailRefusal(EmailOf[raw]) = Accepted
    /\ pc' = [pc EXCEPT ![r] = "hashing"]
    /\ userId' = [userId EXCEPT ![r] = u]
    /\ user' = [user EXCEPT ![r] = Register(EmailOf[raw])]
    /\ outcome' = [outcome EXCEPT ![r] = "none"]
    /\ UNCHANGED <<tables, base, tx>>

HashPassword(r) ==
  /\ pc[r] = "hashing"
  /\ \E h \in Hashes : user' = [user EXCEPT ![r] = SetPassword(@, h)]
  /\ pc' = [pc EXCEPT ![r] = "savingUser"]
  /\ UNCHANGED <<tables, userId, base, tx, outcome>>

-----------------------------------------------------------------------------
(* DrizzleUsersRepository.load, three statements. *)

LoadUser(r) ==
  \E u \in {v \in UserIds : Stored(v)} :
    /\ ~Busy(r)
    /\ users[u].version < MaxVersion
    /\ pc' = [pc EXCEPT ![r] = "loadingPassword"]
    /\ userId' = [userId EXCEPT ![r] = u]
    /\ user' = [user EXCEPT ![r] = ToDomain(users[u], NoPassword, {})]
    /\ outcome' = [outcome EXCEPT ![r] = "none"]
    /\ UNCHANGED <<tables, base, tx>>

LoadPassword(r) ==
  /\ pc[r] = "loadingPassword"
  /\ user' = [user EXCEPT ![r].password = passwords[userId[r]]]
  /\ pc' = [pc EXCEPT ![r] = "loadingAccounts"]
  /\ UNCHANGED <<tables, userId, base, tx, outcome>>

(* Bug: the users row is read last, after the rows that hang from it. *)
LoadAccountsThenRow(r) ==
  /\ pc[r] = "loadingAccounts"
  /\ user' = [user EXCEPT ![r] =
       ToDomain(users[userId[r]], @.password, oauthAccounts[userId[r]])]
  /\ base' = [base EXCEPT ![r] = user'[r]]
  /\ pc' = [pc EXCEPT ![r] = "deciding"]
  /\ UNCHANGED <<tables, userId, tx, outcome>>

LoadAccounts(r) ==
  /\ pc[r] = "loadingAccounts"
  /\ user' = [user EXCEPT ![r].accounts = oauthAccounts[userId[r]]]
  /\ base' = [base EXCEPT ![r] = user'[r]]
  /\ pc' = [pc EXCEPT ![r] = "deciding"]
  /\ UNCHANGED <<tables, userId, tx, outcome>>

-----------------------------------------------------------------------------
(* The handler's own part: one call on the aggregate. *)

CallMethod(r) ==
  /\ pc[r] = "deciding"
  /\ \E after \in Successors(user[r]) : user' = [user EXCEPT ![r] = after]
  /\ pc' = [pc EXCEPT ![r] = "savingUser"]
  /\ UNCHANGED <<tables, userId, base, tx, outcome>>

MethodThrows(r) ==
  /\ pc[r] = "deciding"
  /\ \E reason \in Refusals(user[r]) : Rollback(r, reason)

-----------------------------------------------------------------------------
(* PostgreSQL: what a transaction sees, and whom it waits for.  A row it has *)
(* written is locked, and a unique value it has written or deleted is held,  *)
(* until it ends.                                                            *)

CurrentRow(r) == IF tx[r].row # NoRow THEN tx[r].row ELSE users[userId[r]]

(* Bug: the row is locked when it is read, for whoever shares it. *)
HoldsUserSinceLoad(s, u) == userId[s] = u /\ base[s] # NoUser

HoldsUser(s, u) == userId[s] = u /\ tx[s].row # NoRow

HoldsEmail(s, email) == tx[s].row # NoRow /\ tx[s].row.email = email

HoldsKey(s, key) ==
  \/ \E a \in tx[s].inserted \cup tx[s].dropped : Key(a) = key
  \/ tx[s].deleted /\ \E a \in oauthAccounts[userId[s]] : Key(a) = key

(* Bug: no unique index on (provider, provider_account_id). *)
KeyIsTakenNever(u, key) == FALSE

KeyIsTaken(u, key) ==
  \E v \in UserIds \ {u} : \E a \in oauthAccounts[v] : Key(a) = key

ToInsert(r) == user[r].accounts \ tx[r].inserted

UserRowWaitsFor(r, s) ==
  /\ pc[r] = "savingUser"
  /\ HoldsUser(s, userId[r]) \/ (CurrentRow(r) = NoRow /\ HoldsEmail(s, user[r].email))

WaitsFor(r, s) ==
  /\ r # s
  /\ \/ UserRowWaitsFor(r, s)
     \/ /\ pc[r] = "insertingAccounts"
        /\ \E a \in ToInsert(r) : HoldsKey(s, Key(a))

(* Bug: nobody breaks a cycle of waits. *)
OnWaitCycleNever(r) == FALSE

(* A cycle of waits through r: the deadlock detector may pick r to abort. *)
OnWaitCycle(r) ==
  \E n \in 1..Cardinality(Requests) : \E path \in [0..n -> Requests] :
    /\ path[0] = r /\ path[n] = r
    /\ \A i \in 0..(n - 1) : WaitsFor(path[i], path[i + 1])

-----------------------------------------------------------------------------
(* DrizzleUsersRepository.save, statement by statement. *)

CanWriteUser(r) ==
  /\ pc[r] = "savingUser"
  /\ \A s \in Requests \ {r} : ~UserRowWaitsFor(r, s)

WriteUserRow(r) ==
  /\ tx' = [tx EXCEPT ![r].row = ToRow(user[r], user[r].version + 1)]
  /\ pc' = [pc EXCEPT ![r] = "savingPassword"]
  /\ UNCHANGED <<tables, userId, user, base, outcome>>

(* Bug: no unique index on users.email. *)
EmailIsTakenNever(r) == FALSE

EmailIsTaken(r) ==
  \E u \in UserIds : Stored(u) /\ users[u].email = user[r].email

(* Bug: the upsert without its version predicate. *)
VersionMatchesAlways(r) == TRUE

VersionMatches(r) == CurrentRow(r).version = user[r].version

InsertUser(r) ==
  /\ CanWriteUser(r)
  /\ CurrentRow(r) = NoRow
  /\ ~EmailIsTaken(r)
  /\ WriteUserRow(r)

(* The unique index on the address raises: not an error of the domain. *)
InsertUserFails(r) ==
  /\ CanWriteUser(r)
  /\ CurrentRow(r) = NoRow
  /\ EmailIsTaken(r)
  /\ Rollback(r, "EMAIL_VIOLATION")

UpdateUser(r) ==
  /\ CanWriteUser(r)
  /\ CurrentRow(r) # NoRow
  /\ VersionMatches(r)
  /\ WriteUserRow(r)

(* The conflicting row is at another version: nothing is returned. *)
UpdateUserMatchesNothing(r) ==
  /\ CanWriteUser(r)
  /\ CurrentRow(r) # NoRow
  /\ ~VersionMatches(r)
  /\ Rollback(r, "STALE_VERSION")

(* Bug: the password goes through the raw client, outside the transaction. *)
SavePasswordRawClient(r) ==
  /\ pc[r] = "savingPassword"
  /\ tx' = [tx EXCEPT ![r].password = user[r].password]
  /\ passwords' = [passwords EXCEPT ![userId[r]] = user[r].password]
  /\ pc' = [pc EXCEPT ![r] = "deletingAccounts"]
  /\ UNCHANGED <<users, oauthAccounts, userId, user, base, outcome>>

SavePassword(r) ==
  /\ pc[r] = "savingPassword"
  /\ tx' = [tx EXCEPT ![r].password = user[r].password]
  /\ pc' = [pc EXCEPT ![r] = "deletingAccounts"]
  /\ UNCHANGED <<tables, userId, user, base, outcome>>

DeleteAccounts(r) ==
  /\ pc[r] = "deletingAccounts"
  /\ tx' = [tx EXCEPT ![r].deleted = TRUE, ![r].inserted = {},
                      ![r].dropped = @ \cup tx[r].inserted]
  /\ pc' = [pc EXCEPT ![r] = "insertingAccounts"]
  /\ UNCHANGED <<tables, userId, user, base, outcome>>

(* One row of the INSERT, checked against the unique index as it goes in. *)
InsertAccount(r) ==
  /\ pc[r] = "insertingAccounts"
  /\ \E a \in ToInsert(r) :
       /\ \A s \in Requests \ {r} : ~HoldsKey(s, Key(a))
       /\ IF KeyIsTaken(userId[r], Key(a))
            THEN Rollback(r, "KEY_VIOLATION")
            ELSE /\ tx' = [tx EXCEPT ![r].inserted = @ \cup {a}]
                 /\ UNCHANGED <<tables, pc, userId, user, base, outcome>>

(* Bug: the aggregate is not told its new version. *)
FinishSaveWithoutCommitted(r) ==
  /\ pc[r] = "insertingAccounts"
  /\ ToInsert(r) = {}
  /\ pc' = [pc EXCEPT ![r] = "saved"]
  /\ UNCHANGED <<tables, userId, user, base, tx, outcome>>

(* All rows are in: committed(next) moves the aggregate to its new version. *)
FinishSave(r) ==
  /\ pc[r] = "insertingAccounts"
  /\ ToInsert(r) = {}
  /\ user' = [user EXCEPT ![r] = Committed(@, @.version + 1)]
  /\ pc' = [pc EXCEPT ![r] = "saved"]
  /\ UNCHANGED <<tables, userId, base, tx, outcome>>

(* Bound: a unit of work saves a loaded user twice at most. *)
CallAnotherMethod(r) ==
  /\ pc[r] = "saved"
  /\ base[r] # NoUser
  /\ user[r].version <= base[r].version + 1
  /\ \E after \in Successors(user[r]) : user' = [user EXCEPT ![r] = after]
  /\ pc' = [pc EXCEPT ![r] = "savingUser"]
  /\ UNCHANGED <<tables, userId, base, tx, outcome>>

-----------------------------------------------------------------------------
(* The end of the transaction. *)

Publish(r) ==
  LET u == userId[r] IN
  /\ users' = [users EXCEPT ![u] = tx[r].row]
  /\ passwords' = [passwords EXCEPT ![u] = tx[r].password]
  /\ oauthAccounts' = [oauthAccounts EXCEPT ![u] =
       IF tx[r].deleted THEN tx[r].inserted ELSE @ \cup tx[r].inserted]

Commit(r) ==
  /\ pc[r] = "saved"
  /\ Publish(r)
  /\ End(r, "committed")

(* The transaction is committed and the answer to COMMIT is lost. *)
CommitAnswerLost(r) ==
  /\ pc[r] = "saved"
  /\ Publish(r)
  /\ End(r, "failed")

(* A statement, the hasher, the connection or the process fails. *)
Fail(r) == Busy(r) /\ Rollback(r, "failed")

AbortDeadlock(r) == OnWaitCycle(r) /\ Rollback(r, "DEADLOCK")

-----------------------------------------------------------------------------
Advance(r) ==
  \/ HashPassword(r)
  \/ LoadPassword(r) \/ LoadAccounts(r)
  \/ CallMethod(r) \/ MethodThrows(r)
  \/ SavePassword(r) \/ DeleteAccounts(r) \/ FinishSave(r)
  \/ CallAnotherMethod(r)
  \/ Commit(r)

WriteUser(r) ==
  \/ InsertUser(r) \/ InsertUserFails(r)
  \/ UpdateUser(r) \/ UpdateUserMatchesNothing(r)

Next ==
  \E r \in Requests :
    \/ RefuseRegistration(r) \/ StartRegistration(r) \/ LoadUser(r)
    \/ Advance(r)
    \/ WriteUser(r)
    \/ InsertAccount(r)
    \/ CommitAnswerLost(r) \/ Fail(r) \/ AbortDeadlock(r)

Spec == Init /\ [][Next]_vars

(* A handler that is not waiting takes its next step, and one that waits for *)
(* a lock is granted it if it is free again and again: PostgreSQL queues the *)
(* waiters of a lock.  Its deadlock detector runs while a wait lasts.        *)
Fairness ==
  \A r \in Requests :
    /\ WF_vars(Advance(r))
    /\ SF_vars(WriteUser(r))
    /\ SF_vars(InsertAccount(r))
    /\ WF_vars(AbortDeadlock(r))

FairSpec == Spec /\ Fairness

-----------------------------------------------------------------------------
TypeOK ==
  /\ users \in [UserIds -> UserRow \cup {NoRow}]
  /\ passwords \in [UserIds -> Hashes \cup {NoPassword}]
  /\ oauthAccounts \in [UserIds -> {S \in SUBSET Account : IsFiniteSet(S)}]
  /\ pc \in [Requests -> Steps]
  /\ userId \in [Requests -> UserIds \cup {NoUserId}]
  /\ user \in [Requests -> User \cup {NoUser}]
  /\ base \in [Requests -> User \cup {NoUser}]
  /\ tx \in [Requests -> Tx]
  /\ outcome \in [Requests -> Outcomes]

(* The promise: seen through the committed rows, every unit of work happens *)
(* at one instant on the whole aggregate, and only a commit is seen.        *)
Promise == INSTANCE AtomicAccounts
             WITH accounts <- [u \in UserIds |-> StoredUser(u)]

ImplementsAtomicAccounts == Promise!Spec

(* Nobody is locked out: the committed rows of a user always hold a way to  *)
(* sign in, one account per provider and ids that tell accounts apart, even *)
(* when two requests each remove "the other" method (user.entity.ts:139).   *)
EveryStoredUserIsSound == Promise!EveryUserIsSound

(* However the checks of two registrations interleave, an address names one *)
(* user (users.schema.ts:12 behind register-user.handler.ts:51).            *)
OneUserPerEmail == Promise!OneUserPerEmail

(* However saves interleave, deleting and inserting rows as they go, a      *)
(* provider account signs in one user (oauth-accounts.schema.ts:30).        *)
OneUserPerKey == Promise!OneUserPerKey

(* load() reads three tables in three snapshots, and what it assembles can  *)
(* be an aggregate that never existed; but never under the version that is  *)
(* stored now, so a save of it can only be refused                          *)
(* (drizzle-users.repository.ts:100-119 with the predicate at :59).         *)
UntornWhenCurrent ==
  \A r \in Requests :
    /\ base[r] # NoUser
    /\ users[userId[r]].version = base[r].version
    => base[r] = StoredUser(userId[r])

(* No update is lost: a commit that changes a stored user replaces exactly  *)
(* the aggregate the request had loaded, by exactly the one in its memory.  *)
ReplacesWhatWasLoaded ==
  \A u \in UserIds : Stored(u) /\ StoredUser(u)' # StoredUser(u) =>
    \E r \in Requests : /\ userId[r] = u
                        /\ base[r] = StoredUser(u)
                        /\ user[r] = StoredUser(u)'

(* A handler that returned has its aggregate stored as it was in memory, at  *)
(* the version that committed(next) moved it to (user.entity.ts:193).        *)
SuccessIsStored ==
  \A r \in Requests : outcome'[r] = "committed" /\ outcome[r] # "committed" =>
    \E u \in UserIds : userId[r] = u /\ StoredUser(u)' = user[r]

NoUpdateIsLost == [][ReplacesWhatWasLoaded /\ SuccessIsStored]_vars

(* A verification that was committed lasts: it is not taken back by the save *)
(* of another request that had loaded the user before it, of tables torn by  *)
(* it, or wrote its row twice (drizzle-users.repository.ts:51-59 sets        *)
(* email_verified_at to what the aggregate in memory has).                   *)
VerificationsLast ==
  [][\A u \in UserIds : Stored(u) /\ users[u].verified =>
        Stored(u)' /\ users'[u].verified]_vars

(* A conflict is reported only if somebody else wrote the user since it was *)
(* loaded: never because of the request's own earlier save                  *)
(* (user.entity.ts:193-197, concurrent-modification.error.ts:5-10).         *)
ReportsOnlyRealConflicts ==
  \A r \in Requests :
    outcome'[r] = "STALE_VERSION" /\ outcome[r] # "STALE_VERSION" =>
      users[userId[r]].version > base[r].version

ConflictsAreReal == [][ReportsOnlyRealConflicts]_vars

(* A registration is never part of a deadlock, nor is a request that waits   *)
(* for a users row, nor are two saves of one user: the upsert comes first    *)
(* and waits for whoever has written the row, who only waits in the last     *)
(* statement, for the key of an account (drizzle-users.repository.ts:46-91). *)
OnlyAccountsDeadlock ==
  \A r \in Requests : OnWaitCycle(r) =>
    /\ pc[r] = "insertingAccounts" /\ base[r] # NoUser
    /\ \A s \in Requests \ {r} : OnWaitCycle(s) => userId[s] # userId[r]

(* Every unit of work ends: no request waits for a lock for ever, although  *)
(* saves that exchange provider accounts can wait for each other.           *)
EveryUnitOfWorkEnds == \A r \in Requests : Busy(r) ~> ~Busy(r)

(* endpoint.factory.ts:8-12 and register-user.ts:27: a taken address is     *)
(* answered by the documented error.                                        *)
TakenEmailIsReported ==
  \A r \in Requests : outcome[r] # "EMAIL_VIOLATION"
=============================================================================
