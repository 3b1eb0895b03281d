------------------------ MODULE UsersWritePathProofs ------------------------
(***************************************************************************)
(* The write path keeps its promise, for every number of requests, users,  *)
(* addresses and provider accounts: UsersWritePath implements              *)
(* AtomicAccounts.  WritePathInv is inductive, and under it every step is  *)
(* a step of AtomicAccounts or leaves the stored users alone.              *)
(***************************************************************************)
EXTENDS UsersWritePathInvariant, UserAggregateProofs

(* Rows and aggregates convert into each other without loss. *)
LEMMA RowsAreRows ==
  ASSUME NEW a \in User, NEW n \in Nat
  PROVE  /\ ToRow(a, n) \in UserRow
         /\ ToRow(a, n) # NoRow
         /\ ToRow(a, n).version = n
         /\ ToRow(a, n).email = a.email
         /\ ToDomain(ToRow(a, a.version), a.password, a.accounts) = a
BY NullsAreApart DEF ToRow, ToDomain, User, UserRow

(* A stored user is a user. *)
LEMMA StoredUsersAreUsers ==
  ASSUME TypeOK, NEW u \in UserIds, Stored(u)
  PROVE  /\ users[u] \in UserRow /\ users[u].version \in Nat
         /\ StoredUser(u) \in User
         /\ StoredUser(u).version = users[u].version
         /\ StoredUser(u).email = users[u].email
BY DEF TypeOK, Stored, StoredUser, ToDomain, User, UserRow

(* What TypeOK says of one request. *)
LEMMA RequestTypes ==
  ASSUME TypeOK, NEW r \in Requests
  PROVE  /\ tx[r] \in Tx
         /\ userId[r] \in UserIds \cup {NoUserId}
         /\ user[r] \in User \cup {NoUser}
         /\ base[r] \in User \cup {NoUser}
         /\ base[r] # NoUser => base[r] \in User
BY DEF TypeOK

LEMMA EmptyTxType == EmptyTx \in Tx
  BY FS_EmptySet DEF EmptyTx, Tx

LEMMA InitInv == Init => WritePathInv
<1> SUFFICES ASSUME Init PROVE WritePathInv
  OBVIOUS
<1> USE DEF Init
<1>1. TypeOK
  BY FS_EmptySet, EmptyTxType DEF TypeOK, Steps, Outcomes
<1>2. ASSUME NEW r \in Requests PROVE RequestInv(r)
  BY DEF RequestInv, IdleInv, RegisteringInv, LoadingInv, ChangingInv, WritesInv,
         Busy, Registering, Loading, Changing, Holding, EmptyTx, Saving, Writing
<1>3. RowLockInv /\ EmailInv /\ KeyInv
  BY DEF RowLockInv, EmailInv, KeyInv, Holding, EmptyTx
<1> QED
  BY <1>1, <1>2, <1>3 DEF WritePathInv

(* A request keeps its part of the invariant through a step of another that *)
(* leaves the tables alone and takes no id from it.                         *)
LEMMA OthersKeep ==
  ASSUME NEW s \in Requests, RequestInv(s), UNCHANGED tables,
         pc'[s] = pc[s], userId'[s] = userId[s], user'[s] = user[s],
         base'[s] = base[s], tx'[s] = tx[s],
         Registering(s) => \A t \in Requests \ {s} : userId'[t] # userId[s]
  PROVE  RequestInv(s)'
<1> USE DEF tables, Busy, Holding, Stored
<1>1. IdleInv(s)'
  BY DEF RequestInv, IdleInv
<1>2. RegisteringInv(s)'
  BY DEF RequestInv, RegisteringInv, Registering
<1>3. LoadingInv(s)'
  BY DEF RequestInv, LoadingInv, Loading
<1>4. ChangingInv(s)'
  <2>1. UNCHANGED StoredUser(userId[s])
    BY DEF StoredUser
  <2> QED
    BY <2>1 DEF RequestInv, ChangingInv, Changing, StoredUser
<1>5. WritesInv(s)'
  BY DEF RequestInv, WritesInv, Changing
<1> QED
  BY <1>1, <1>2, <1>3, <1>4, <1>5 DEF RequestInv

(* A step of r that changes only where it is and what it has in memory. *)
LEMMA MemoryStep ==
  ASSUME WritePathInv, NEW r \in Requests,
         UNCHANGED <<tables, userId, tx>>,
         \A s \in Requests \ {r} :
           pc'[s] = pc[s] /\ user'[s] = user[s] /\ base'[s] = base[s],
         TypeOK', RequestInv(r)',
         Registering(r)' /\ Holding(r) => Registering(r)
  PROVE  WritePathInv'
<1>1. ASSUME NEW s \in Requests PROVE RequestInv(s)'
  <2>1. CASE s = r
    BY <2>1
  <2>2. CASE s # r
    BY <2>2, OthersKeep DEF WritePathInv, RequestInv, RegisteringInv
  <2> QED
    BY <2>1, <2>2
<1>2. RowLockInv'
  BY DEF WritePathInv, RowLockInv, Holding
<1>3. EmailInv'
  BY DEF WritePathInv, EmailInv, Holding, Registering, Stored, tables
<1>4. KeyInv'
  BY DEF WritePathInv, KeyInv, KeyIsTaken, tables
<1> QED
  BY <1>1, <1>2, <1>3, <1>4 DEF WritePathInv

(* A statement of r: it changes where r is and what r has written. *)
LEMMA StatementStep ==
  ASSUME WritePathInv, NEW r \in Requests,
         UNCHANGED <<tables, userId, user, base>>,
         \A s \in Requests \ {r} : pc'[s] = pc[s] /\ tx'[s] = tx[s],
         TypeOK', RequestInv(r)',
         RowLockInv', EmailInv', KeyInv'
  PROVE  WritePathInv'
<1>1. ASSUME NEW s \in Requests PROVE RequestInv(s)'
  <2>1. CASE s = r
    BY <2>1
  <2>2. CASE s # r
    BY <2>2, OthersKeep DEF WritePathInv, RequestInv, RegisteringInv
  <2> QED
    BY <2>1, <2>2
<1> QED
  BY <1>1 DEF WritePathInv

(* The unit of work of r is over and nothing was written. *)
LEMMA RollbackKeeps ==
  ASSUME WritePathInv, NEW r \in Requests, NEW result \in Outcomes, Rollback(r, result)
  PROVE  WritePathInv'
<1> USE DEF Rollback, End
<1>1. TypeOK'
  BY EmptyTxType DEF WritePathInv, TypeOK, tables, Steps
<1>2. /\ pc'[r] = "idle" /\ userId'[r] = NoUserId /\ user'[r] = NoUser
      /\ base'[r] = NoUser /\ tx'[r] = EmptyTx
      /\ \A s \in Requests \ {r} : /\ pc'[s] = pc[s] /\ userId'[s] = userId[s]
                                   /\ user'[s] = user[s] /\ base'[s] = base[s]
                                   /\ tx'[s] = tx[s]
  BY DEF WritePathInv, TypeOK
<1>3. RequestInv(r)'
  BY <1>2 DEF RequestInv, IdleInv, RegisteringInv, LoadingInv, ChangingInv, WritesInv,
         Busy, Registering, Loading, Changing, Holding, EmptyTx, Saving, Writing
<1>4. ASSUME NEW s \in Requests PROVE RequestInv(s)'
  <2>1. CASE s = r
    BY <1>3, <2>1
  <2>2. CASE s # r
    <3>1. Registering(s) => \A t \in Requests \ {s} : userId'[t] # userId[s]
      <4>1. Registering(s) => userId[s] \in UserIds
        BY DEF WritePathInv, RequestInv, IdleInv, Busy, Registering, Saving, Writing
      <4> QED
        BY <1>2, <4>1, NullsAreApart DEF WritePathInv, RequestInv, RegisteringInv
    <3> QED
      BY <1>2, <2>2, <3>1, OthersKeep DEF WritePathInv
  <2> QED
    BY <2>1, <2>2
<1>5. RowLockInv' /\ EmailInv' /\ KeyInv'
  <2>1. ~Holding(r)' /\ tx'[r].inserted = {}
    BY <1>2 DEF Holding, EmptyTx
  <2>2. RowLockInv'
    BY <1>2, <2>1 DEF WritePathInv, RowLockInv, Holding
  <2>3. EmailInv'
    BY <1>2, <2>1 DEF WritePathInv, EmailInv, Holding, Registering, Stored, tables
  <2>4. KeyInv'
    BY <1>2, <2>1 DEF WritePathInv, KeyInv, KeyIsTaken, tables
  <2> QED
    BY <2>2, <2>3, <2>4
<1> QED
  BY <1>1, <1>4, <1>5 DEF WritePathInv

(* The reasons a request can be refused with are outcomes. *)
LEMMA RefusalsAreOutcomes ==
  /\ \A email : EmailRefusal(email) # Accepted => EmailRefusal(email) \in Outcomes
  /\ \A a : Refusals(a) \subseteq Outcomes
<1>1. ASSUME NEW email, EmailRefusal(email) # Accepted PROVE EmailRefusal(email) \in Outcomes
  BY <1>1 DEF EmailRefusal, Outcomes, Accepted
<1>2. ASSUME NEW a PROVE Refusals(a) \subseteq Outcomes
  BY DEF Refusals, LinkRefusal, UnlinkRefusal, Outcomes, Accepted
<1> QED
  BY <1>1, <1>2

(* Every way a unit of work ends without a commit. *)
LEMMA EndingsKeep ==
  ASSUME WritePathInv, NEW r \in Requests,
         \/ RefuseRegistration(r) \/ MethodThrows(r)
         \/ InsertUserFails(r) \/ UpdateUserMatchesNothing(r)
         \/ Fail(r) \/ AbortDeadlock(r)
  PROVE  WritePathInv'
<1>1. CASE RefuseRegistration(r)
  BY <1>1, RollbackKeeps, RefusalsAreOutcomes DEF RefuseRegistration
<1>2. CASE MethodThrows(r)
  BY <1>2, RollbackKeeps, RefusalsAreOutcomes DEF MethodThrows
<1>3. CASE InsertUserFails(r)
  BY <1>3, RollbackKeeps DEF InsertUserFails, Outcomes
<1>4. CASE UpdateUserMatchesNothing(r)
  BY <1>4, RollbackKeeps DEF UpdateUserMatchesNothing, Outcomes
<1>5. CASE Fail(r)
  BY <1>5, RollbackKeeps DEF Fail, Outcomes
<1>6. CASE AbortDeadlock(r)
  BY <1>6, RollbackKeeps DEF AbortDeadlock, Outcomes
<1> QED
  BY <1>1, <1>2, <1>3, <1>4, <1>5, <1>6

LEMMA HashPasswordKeeps ==
  ASSUME WritePathInv, NEW r \in Requests, HashPassword(r)
  PROVE  WritePathInv'
<1> USE DEF HashPassword
<1>1. Registering(r) /\ ~Holding(r) /\ user[r] \in User
  <2>1. RequestInv(r)
    BY DEF WritePathInv
  <2>2. base[r] = NoUser /\ ~Holding(r)
    BY <2>1 DEF RequestInv, ChangingInv, Changing, WritesInv, Saving, Writing
  <2> QED
    BY <2>1, <2>2 DEF RequestInv, IdleInv, Busy, Registering
<1>2. PICK e \in Emails, h \in Hashes : user' = [user EXCEPT ![r] = SetPassword(Register(e), h)]
  <2>1. PICK e \in Emails : user[r] = Register(e)
    BY <1>1 DEF WritePathInv, RequestInv, RegisteringInv
  <2> QED
    BY <2>1
<1>3. SetPassword(Register(e), h) \in User
  BY FS_EmptySet DEF SetPassword, Register, User, Statuses
<1>4. /\ user'[r] = SetPassword(Register(e), h) /\ pc'[r] = "savingUser"
      /\ \A s \in Requests \ {r} : pc'[s] = pc[s] /\ user'[s] = user[s]
  BY <1>2 DEF WritePathInv, TypeOK
<1>5. TypeOK'
  BY <1>2, <1>3 DEF WritePathInv, TypeOK, tables, Steps
<1>6. RequestInv(r)'
  <2>1. IdleInv(r)'
    BY <1>3, <1>4 DEF WritePathInv, RequestInv, IdleInv, Busy
  <2>2. RegisteringInv(r)'
    BY <1>1, <1>4 DEF WritePathInv, RequestInv, RegisteringInv, Registering, Stored, tables
  <2>3. LoadingInv(r)' /\ ChangingInv(r)'
    BY <1>1, <1>4 DEF LoadingInv, ChangingInv, Loading, Changing, Registering
  <2>4. WritesInv(r)'
    BY <1>1, <1>4 DEF WritePathInv, RequestInv, WritesInv, Holding, Writing
  <2> QED
    BY <2>1, <2>2, <2>3, <2>4 DEF RequestInv
<1> QED
  BY <1>1, <1>4, <1>5, <1>6, MemoryStep DEF Holding

LEMMA LoadPasswordKeeps ==
  ASSUME WritePathInv, NEW r \in Requests, LoadPassword(r)
  PROVE  WritePathInv'
<1> USE DEF LoadPassword
<1>1. /\ Loading(r) /\ base[r] = NoUser /\ ~Holding(r) /\ user[r] \in User
      /\ userId[r] \in UserIds /\ RequestInv(r)
  <2>1. RequestInv(r)
    BY DEF WritePathInv
  <2> QED
    BY <2>1 DEF RequestInv, LoadingInv, Loading, IdleInv, Busy, WritesInv, Saving, Writing
<1> DEFINE a == [user[r] EXCEPT !.password = passwords[userId[r]]]
<1>2. /\ a \in User /\ a.password = passwords[userId[r]] /\ a.version = user[r].version
      /\ ToRow(a, a.version) = ToRow(user[r], user[r].version)
  BY <1>1 DEF WritePathInv, TypeOK, User, ToRow
<1>3. /\ user'[r] = a /\ pc'[r] = "loadingAccounts"
      /\ \A s \in Requests \ {r} : pc'[s] = pc[s] /\ user'[s] = user[s]
  BY DEF WritePathInv, TypeOK
<1> HIDE DEF a
<1>4. TypeOK'
  BY <1>2, <1>3 DEF WritePathInv, TypeOK, tables, Steps
<1>5. RequestInv(r)'
  <2>1. IdleInv(r)'
    BY <1>1, <1>2, <1>3 DEF IdleInv, Busy
  <2>2. RegisteringInv(r)' /\ ChangingInv(r)'
    BY <1>1, <1>3 DEF RegisteringInv, ChangingInv, Registering, Changing, Saving, Writing
  <2>3. LoadingInv(r)'
    BY <1>1, <1>2, <1>3 DEF RequestInv, LoadingInv, Loading, Stored, tables
  <2>4. WritesInv(r)'
    BY <1>1, <1>3 DEF RequestInv, WritesInv, Holding, Writing, Saving
  <2> QED
    BY <2>1, <2>2, <2>3, <2>4 DEF RequestInv
<1> QED
  BY <1>1, <1>3, <1>4, <1>5, MemoryStep DEF Holding

LEMMA LoadAccountsKeeps ==
  ASSUME WritePathInv, NEW r \in Requests, LoadAccounts(r)
  PROVE  WritePathInv'
<1> USE DEF LoadAccounts
<1>1. /\ Loading(r) /\ base[r] = NoUser /\ ~Holding(r) /\ user[r] \in User
      /\ userId[r] \in UserIds /\ RequestInv(r) /\ Stored(userId[r])
  <2>1. RequestInv(r)
    BY DEF WritePathInv
  <2> QED
    BY <2>1 DEF RequestInv, LoadingInv, Loading, IdleInv, Busy, WritesInv, Saving, Writing
<1> DEFINE a == [user[r] EXCEPT !.accounts = oauthAccounts[userId[r]]]
<1>2. /\ a \in User /\ a.accounts = oauthAccounts[userId[r]] /\ a.version = user[r].version
      /\ a.password = user[r].password
      /\ ToRow(a, a.version) = ToRow(user[r], user[r].version)
  BY <1>1 DEF WritePathInv, TypeOK, User, ToRow
<1>3. /\ user'[r] = a /\ base'[r] = a /\ pc'[r] = "deciding"
      /\ \A s \in Requests \ {r} :
           pc'[s] = pc[s] /\ user'[s] = user[s] /\ base'[s] = base[s]
  BY DEF WritePathInv, TypeOK
<1>4. TypeOK'
  <2>1. user' \in [Requests -> User \cup {NoUser}]
    BY <1>2 DEF WritePathInv, TypeOK
  <2>2. base' \in [Requests -> User \cup {NoUser}]
    BY <1>2, <1>3 DEF WritePathInv, TypeOK
  <2> QED
    BY <2>1, <2>2 DEF WritePathInv, TypeOK, tables, Steps
<1>5. a.version = users[userId[r]].version => a = StoredUser(userId[r])
  <2> SUFFICES ASSUME a.version = users[userId[r]].version
               PROVE  a = StoredUser(userId[r])
    OBVIOUS
  <2>1. ToRow(a, a.version) = users[userId[r]] /\ a.password = passwords[userId[r]]
    BY <1>1, <1>2 DEF RequestInv, LoadingInv
  <2>2. a = ToDomain(ToRow(a, a.version), a.password, a.accounts)
    BY <1>2, RowsAreRows DEF User
  <2> QED
    BY <1>1, <1>2, <2>1, <2>2 DEF StoredUser
<1> HIDE DEF a
<1>6. RequestInv(r)'
  <2>1. IdleInv(r)'
    BY <1>1, <1>2, <1>3 DEF IdleInv, Busy
  <2>2. a # NoUser
    BY <1>2, NullsAreApart
  <2>3. RegisteringInv(r)' /\ LoadingInv(r)'
    BY <1>3, <2>2 DEF RegisteringInv, LoadingInv, Registering, Loading
  <2>4. ChangingInv(r)'
    <3>1. UNCHANGED StoredUser(userId[r])
      BY DEF StoredUser, Stored, tables
    <3>2. a.version < MaxVersion /\ a.version <= users[userId[r]].version
      BY <1>1, <1>2 DEF RequestInv, LoadingInv
    <3>3. UNCHANGED <<users, userId>>
      BY DEF tables
    <3> QED
      BY <1>1, <1>3, <1>5, <2>2, <3>1, <3>2, <3>3
         DEF ChangingInv, Changing, Saving, Writing, Stored
  <2>5. WritesInv(r)'
    BY <1>1, <1>3 DEF RequestInv, WritesInv, Holding, Writing, Saving
  <2> QED
    BY <2>1, <2>3, <2>4, <2>5 DEF RequestInv
<1>7. ~Registering(r)'
  BY <1>2, <1>3, NullsAreApart DEF Registering
<1> QED
  BY <1>3, <1>4, <1>6, <1>7, MemoryStep

LEMMA CallMethodKeeps ==
  ASSUME WritePathInv, NEW r \in Requests, CallMethod(r)
  PROVE  WritePathInv'
<1> USE DEF CallMethod
<1>1. RequestInv(r) /\ user[r] \in User /\ userId[r] \in UserIds
  BY DEF WritePathInv, RequestInv, IdleInv, Busy
<1>2. ~Holding(r) /\ tx[r] = EmptyTx
  BY <1>1 DEF RequestInv, WritesInv, Saving, Writing
<1>3. PICK after \in Successors(user[r]) : user' = [user EXCEPT ![r] = after]
  OBVIOUS
<1>4. after \in User
  BY <1>1, SuccessorsAreUsers
<1>5. /\ user'[r] = after /\ pc'[r] = "savingUser"
      /\ \A s \in Requests \ {r} : pc'[s] = pc[s] /\ user'[s] = user[s]
  BY <1>3 DEF WritePathInv, TypeOK
<1>6. TypeOK'
  BY <1>3, <1>4 DEF WritePathInv, TypeOK, tables, Steps
<1>7. RequestInv(r)'
  <2>1. IdleInv(r)'
    BY <1>1, <1>4, <1>5 DEF IdleInv, Busy
  <2>2. base[r] # NoUser /\ user[r] = base[r]
    <3>1. base[r] # NoUser
      BY <1>1 DEF RequestInv, ChangingInv, Changing
    <3> QED
      BY <1>1, <3>1 DEF RequestInv, ChangingInv, Changing
  <2>3. RegisteringInv(r)' /\ LoadingInv(r)'
    BY <1>5, <2>2 DEF RegisteringInv, LoadingInv, Registering, Loading
  <2>4. ChangingInv(r)'
    <3>1. UNCHANGED StoredUser(userId[r])
      BY DEF StoredUser, Stored, tables
    <3> QED
      BY <1>1, <1>2, <1>5, <2>2, <3>1
         DEF RequestInv, ChangingInv, Changing, Saving, Writing, Stored, tables, Holding, StoredUser
  <2>5. WritesInv(r)'
    BY <1>2, <1>5 DEF WritesInv, Holding, Writing
  <2> QED
    BY <2>1, <2>3, <2>4, <2>5 DEF RequestInv
<1> QED
  BY <1>2, <1>5, <1>6, <1>7, MemoryStep

LEMMA FinishSaveKeeps ==
  ASSUME WritePathInv, NEW r \in Requests, FinishSave(r)
  PROVE  WritePathInv'
<1> USE DEF FinishSave
<1>1. RequestInv(r) /\ user[r] \in User /\ userId[r] \in UserIds
  BY DEF WritePathInv, RequestInv, IdleInv, Busy
<1> DEFINE a == Committed(user[r], user[r].version + 1)
<1>2. /\ a \in User /\ a.version = user[r].version + 1 /\ a.email = user[r].email
      /\ a.accounts = user[r].accounts /\ a.password = user[r].password
      /\ ToRow(a, a.version) = ToRow(user[r], user[r].version + 1)
  <2>1. user[r].version + 1 \in Nat
    BY <1>1 DEF User
  <2> QED
    BY <1>1, <2>1, CommittedChangesVersion DEF ToRow
<1>3. /\ user'[r] = a /\ pc'[r] = "saved"
      /\ \A s \in Requests \ {r} : pc'[s] = pc[s] /\ user'[s] = user[s]
  BY DEF WritePathInv, TypeOK
<1>4. TypeOK'
  <2> user' = [user EXCEPT ![r] = a]
    OBVIOUS
  <2> HIDE DEF a
  <2> QED
    BY <1>2 DEF WritePathInv, TypeOK, tables, Steps
<1>5. Holding(r) /\ tx[r].inserted = user[r].accounts
  <2>1. tx[r].row = ToRow(user[r], user[r].version + 1) /\ user[r].version + 1 \in Nat
    BY <1>1 DEF RequestInv, WritesInv, Writing, User
  <2>2. Holding(r)
    BY <1>1, <2>1, RowsAreRows DEF Holding
  <2>3. tx[r].inserted \subseteq user[r].accounts
    BY <1>1 DEF RequestInv, WritesInv
  <2> QED
    BY <2>2, <2>3 DEF ToInsert
<1>6. RequestInv(r)'
  <2>1. IdleInv(r)'
    <3> HIDE DEF a
    <3> QED
      BY <1>1, <1>2, <1>3 DEF IdleInv, Busy
  <2>2. RegisteringInv(r)'
    <3> SUFFICES ASSUME Registering(r)' PROVE RegisteringInv(r)'
      BY DEF RegisteringInv
    <3>1. Registering(r)
      BY DEF Registering, Saving, Writing
    <3>2. PICK e \in Emails, h \in Hashes : user[r] = SetPassword(Register(e), h)
      BY <1>1, <3>1 DEF RequestInv, RegisteringInv, Saving, Writing
    <3>3. user[r].version = 0
      BY <3>2 DEF SetPassword, Register
    <3>4. a = Committed(SetPassword(Register(e), h), 1)
      BY <3>2, <3>3
    <3> HIDE DEF a
    <3> QED
      BY <1>1, <1>3, <3>1, <3>4 DEF RequestInv, RegisteringInv, Stored, tables, Saving, Writing
  <2>3. LoadingInv(r)'
    BY <1>3 DEF LoadingInv, Loading
  <2>4. ChangingInv(r)'
    <3> SUFFICES ASSUME Changing(r) PROVE ChangingInv(r)'
      BY <1>3 DEF ChangingInv, Changing
    <3>1. UNCHANGED StoredUser(userId[r])
      BY DEF StoredUser, Stored, tables
    <3>2. base[r] \in User
      BY RequestTypes DEF WritePathInv, Changing
    <3>3. a \in Reach(base[r])
      <4>1. CASE user[r] \in Successors(base[r])
        <5>1. user[r].version = base[r].version
          BY <3>2, <4>1, SuccessorsAreUsers
        <5> QED
          BY <4>1, <5>1 DEF Reach, Updated
      <4>2. ASSUME NEW mid \in Updated(base[r]), user[r] \in Successors(mid)
            PROVE  a \in Reach(base[r])
        <5>1. mid \in User
          BY <3>2, UpdatedAreUsers
        <5>2. user[r].version = mid.version
          BY <4>2, <5>1, SuccessorsAreUsers
        <5>3. a \in Updated(mid)
          BY <4>2, <5>2 DEF Updated
        <5> QED
          BY <5>3 DEF Reach
      <4> QED
        BY <1>1, <4>1, <4>2 DEF RequestInv, ChangingInv, Changing, Saving, Writing
    <3>4. UNCHANGED <<users, userId, base>>
      BY DEF tables
    <3> HIDE DEF a
    <3> QED
      BY <1>1, <1>3, <3>1, <3>3, <3>4
         DEF RequestInv, ChangingInv, Changing, Saving, Writing, Stored
  <2>5. WritesInv(r)'
    <3> HIDE DEF a
    <3> QED
      BY <1>1, <1>2, <1>3, <1>5
         DEF RequestInv, WritesInv, Holding, Writing, Saving, Changing, tables
  <2> QED
    BY <2>1, <2>2, <2>3, <2>4, <2>5 DEF RequestInv
<1>7. Registering(r)' => Registering(r)
  BY DEF Registering, Saving, Writing
<1> QED
  BY <1>3, <1>4, <1>6, <1>7, MemoryStep

LEMMA CallAnotherMethodKeeps ==
  ASSUME WritePathInv, NEW r \in Requests, CallAnotherMethod(r)
  PROVE  WritePathInv'
<1> USE DEF CallAnotherMethod
<1>1. RequestInv(r) /\ user[r] \in User /\ userId[r] \in UserIds /\ base[r] \in User
  BY RequestTypes DEF WritePathInv, RequestInv, IdleInv, Busy
<1>2. tx[r].row = ToRow(user[r], user[r].version) /\ Holding(r)
  <2>1. user[r].version \in Nat
    BY <1>1 DEF User
  <2> QED
    BY <1>1, <2>1, RowsAreRows DEF RequestInv, WritesInv, Holding
<1>3. user[r] \in Updated(base[r])
  <2>1. user[r] \in Reach(base[r])
    BY <1>1 DEF RequestInv, ChangingInv, Changing
  <2>2. base[r].version \in Nat
    BY <1>1 DEF User
  <2> QED
    BY <1>1, <2>1, <2>2, ReachAreUsers
<1>4. PICK after \in Successors(user[r]) : user' = [user EXCEPT ![r] = after]
  OBVIOUS
<1>5. after \in User /\ after.version = user[r].version /\ after.email = user[r].email
  BY <1>1, SuccessorsAreUsers
<1>6. /\ user'[r] = after /\ pc'[r] = "savingUser"
      /\ \A s \in Requests \ {r} : pc'[s] = pc[s] /\ user'[s] = user[s]
  BY <1>4 DEF WritePathInv, TypeOK
<1>7. TypeOK'
  BY <1>4, <1>5 DEF WritePathInv, TypeOK, tables, Steps
<1>8. RequestInv(r)'
  <2>1. IdleInv(r)'
    BY <1>1, <1>5, <1>6 DEF IdleInv, Busy
  <2>2. RegisteringInv(r)' /\ LoadingInv(r)'
    BY <1>6 DEF RegisteringInv, LoadingInv, Registering, Loading
  <2>3. ChangingInv(r)'
    <3>1. UNCHANGED StoredUser(userId[r])
      BY DEF StoredUser, Stored, tables
    <3>2. UNCHANGED <<users, userId, base, tx>>
      BY DEF tables
    <3> QED
      BY <1>1, <1>2, <1>3, <1>6, <3>1, <3>2
         DEF RequestInv, ChangingInv, Changing, Saving, Writing, Stored, Holding
  <2>4. WritesInv(r)'
    <3>1. tx[r].row.version = user[r].version
      BY <1>1, <1>2, RowsAreRows DEF User
    <3> QED
      BY <1>1, <1>2, <1>5, <1>6, <3>1
         DEF RequestInv, WritesInv, Holding, Writing, Saving, Changing, tables
  <2> QED
    BY <2>1, <2>2, <2>3, <2>4 DEF RequestInv
<1>9. ~Registering(r)'
  BY DEF Registering
<1> QED
  BY <1>6, <1>7, <1>8, <1>9, MemoryStep

(* The users row goes in or is updated: r locks the row, and a registration  *)
(* its address.                                                              *)
LEMMA WriteUserRowKeeps ==
  ASSUME WritePathInv, NEW r \in Requests, InsertUser(r) \/ UpdateUser(r)
  PROVE  WritePathInv'
<1> USE DEF WriteUserRow, CanWriteUser
<1>1. /\ RequestInv(r) /\ user[r] \in User /\ userId[r] \in UserIds
      /\ user[r].version \in Nat /\ pc[r] = "savingUser" /\ tx[r] \in Tx
      /\ \A s \in Requests \ {r} : ~UserRowWaitsFor(r, s)
  BY RequestTypes DEF WritePathInv, RequestInv, IdleInv, Busy, InsertUser, UpdateUser, User
<1> DEFINE row == ToRow(user[r], user[r].version + 1)
<1>2. row \in UserRow /\ row # NoRow /\ row.email = user[r].email
  BY <1>1, RowsAreRows
<1>3. /\ tx' = [tx EXCEPT ![r].row = row]
      /\ pc' = [pc EXCEPT ![r] = "savingPassword"]
      /\ UNCHANGED <<tables, userId, user, base, outcome>>
  BY DEF InsertUser, UpdateUser
<1>row. row = ToRow(user[r], user[r].version + 1)
  OBVIOUS
<1> HIDE DEF row
<1> DEFINE t == [tx[r] EXCEPT !.row = row]
<1>4. t \in Tx /\ t.row = row /\ t.inserted = tx[r].inserted
  BY <1>1, <1>2 DEF Tx
<1>5. /\ tx'[r] = t /\ pc'[r] = "savingPassword"
      /\ \A s \in Requests \ {r} : pc'[s] = pc[s] /\ tx'[s] = tx[s]
  BY <1>3 DEF WritePathInv, TypeOK
<1>6. TypeOK'
  <2>1. tx' = [tx EXCEPT ![r] = t]
    BY <1>3
  <2> HIDE DEF t
  <2> QED
    BY <1>3, <1>4, <2>1 DEF WritePathInv, TypeOK, tables, Steps
<1> HIDE DEF t
<1>7. UNCHANGED StoredUser(userId[r]) /\ UNCHANGED <<users, userId, user, base, oauthAccounts>>
  BY <1>3 DEF StoredUser, Stored, tables
(* A registration finds no row, and nobody holds its address. *)
<1>8. ASSUME Registering(r)
      PROVE  /\ ~Holding(r)
             /\ \A v \in UserIds : Stored(v) => users[v].email # user[r].email
             /\ \A s \in Requests \ {r} : Holding(s) => tx[s].row.email # user[r].email
  <2>1. ~Holding(r) /\ ~Stored(userId[r])
    BY <1>1, <1>8 DEF RequestInv, WritesInv, RegisteringInv, Registering, Changing
  <2>2. CurrentRow(r) = NoRow
    BY <2>1 DEF CurrentRow, Holding, Stored
  <2>3. ~EmailIsTaken(r) /\ \A s \in Requests \ {r} : ~HoldsEmail(s, user[r].email)
    BY <1>1, <2>2 DEF InsertUser, UpdateUser, UserRowWaitsFor
  <2> QED
    BY <2>1, <2>3 DEF EmailIsTaken, HoldsEmail, Holding
(* A change that did not hold the row finds it at the version it loaded. *)
<1>9. ASSUME Changing(r), ~Holding(r)
      PROVE  /\ base[r].version = users[userId[r]].version
             /\ Stored(userId[r]) /\ users[userId[r]].email = user[r].email
  <2>1. /\ Stored(userId[r]) /\ base[r] \in User /\ user[r] \in Successors(base[r])
        /\ base[r].version = users[userId[r]].version => base[r] = StoredUser(userId[r])
    BY <1>1, <1>9, RequestTypes DEF WritePathInv, RequestInv, ChangingInv, Changing, Saving
  <2>2. CurrentRow(r) = users[userId[r]] /\ users[userId[r]] # NoRow
    BY <1>9, <2>1 DEF CurrentRow, Holding, Stored
  <2>3. user[r].version = users[userId[r]].version
    BY <2>2 DEF InsertUser, UpdateUser, VersionMatches
  <2>4. user[r].version = base[r].version /\ user[r].email = base[r].email
    BY <2>1, SuccessorsAreUsers
  <2>5. StoredUser(userId[r]).email = users[userId[r]].email
    BY <1>1, <2>1, StoredUsersAreUsers DEF WritePathInv
  <2> QED
    BY <2>1, <2>3, <2>4, <2>5
<1>10. RequestInv(r)'
  <2>1. IdleInv(r)'
    BY <1>1, <1>5, <1>7 DEF IdleInv, Busy
  <2>2. RegisteringInv(r)'
    BY <1>1, <1>5, <1>7 DEF RequestInv, RegisteringInv, Registering, Saving, Writing, Stored
  <2>3. LoadingInv(r)'
    BY <1>5 DEF LoadingInv, Loading
  <2>4. ChangingInv(r)'
    BY <1>1, <1>2, <1>4, <1>5, <1>7
       DEF RequestInv, ChangingInv, Changing, Saving, Writing, Stored, Holding
  <2>5. WritesInv(r)'
    <3>1. Changing(r) => base[r].version = users[userId[r]].version
      BY <1>1, <1>9 DEF RequestInv, WritesInv
    <3> QED
      BY <1>2, <1>4, <1>5, <1>7, <1>row, <3>1
         DEF WritesInv, Holding, Writing, Saving, Changing
  <2> QED
    BY <2>1, <2>2, <2>3, <2>4, <2>5 DEF RequestInv
<1>11. RowLockInv'
  <2>1. \A s \in Requests \ {r} : Holding(s) => userId[s] # userId[r]
    BY <1>1 DEF UserRowWaitsFor, HoldsUser, Holding
  <2> QED
    BY <1>5, <1>7, <2>1 DEF WritePathInv, RowLockInv, Holding
<1>12. EmailInv'
  <2> SUFFICES ASSUME NEW q \in Requests, Registering(q)', Holding(q)'
               PROVE  /\ \A v \in UserIds : Stored(v) => users[v].email # tx'[q].row.email
                      /\ \A s \in Requests \ {q} :
                           Holding(s)' => tx'[s].row.email # tx'[q].row.email
    BY <1>7 DEF EmailInv, Stored
  <2>1. CASE q = r
    <3>1. Registering(r)
      BY <1>1, <1>7, <2>1 DEF Registering, Saving, Writing
    <3> QED
      BY <1>2, <1>4, <1>5, <1>8, <2>1, <3>1 DEF Holding
  <2>2. CASE q # r
    <3>1. /\ Registering(q) /\ Holding(q) /\ tx'[q] = tx[q]
          /\ \A v \in UserIds : Stored(v) => users[v].email # tx[q].row.email
          /\ \A s \in Requests \ {q} : Holding(s) => tx[s].row.email # tx[q].row.email
      BY <1>5, <1>7, <2>2 DEF WritePathInv, EmailInv, Holding, Registering
    <3>2. user[r].email # tx[q].row.email
      <4>1. CASE Holding(r)
        BY <1>1, <2>2, <3>1, <4>1 DEF RequestInv, WritesInv
      <4>2. CASE ~Holding(r) /\ Changing(r)
        BY <1>1, <1>9, <3>1, <4>2
      <4>3. CASE Registering(r)
        BY <1>8, <2>2, <3>1, <4>3
      <4> QED
        BY <1>1, <4>1, <4>2, <4>3 DEF Changing, Registering, Saving
    <3> QED
      BY <1>2, <1>4, <1>5, <2>2, <3>1, <3>2 DEF Holding
  <2> QED
    BY <2>1, <2>2
<1>13. KeyInv'
  <2>1. \A s \in Requests : tx'[s].inserted = tx[s].inserted
    BY <1>4, <1>5
  <2> QED
    BY <1>7, <2>1 DEF WritePathInv, KeyInv, KeyIsTaken
<1> QED
  BY <1>3, <1>5, <1>6, <1>10, <1>11, <1>12, <1>13, StatementStep

(* The statements after the users row: r writes to its transaction only, and *)
(* its row stays as it is.                                                   *)
LEMMA ChildStatementStep ==
  ASSUME WritePathInv, NEW r \in Requests, NEW t \in Tx,
         pc[r] \in Writing, pc'[r] \in {"deletingAccounts", "insertingAccounts"},
         UNCHANGED <<tables, userId, user, base, outcome>>,
         tx' = [tx EXCEPT ![r] = t],
         t.row = tx[r].row, t.password = user[r].password,
         pc'[r] = "insertingAccounts" => t.deleted /\ t.inserted \subseteq user[r].accounts,
         pc' \in [Requests -> Steps],
         \A s \in Requests \ {r} : pc'[s] = pc[s],
         KeyInv'
  PROVE  WritePathInv'
<1>1. RequestInv(r) /\ user[r] \in User /\ userId[r] \in UserIds
  BY DEF WritePathInv, RequestInv, IdleInv, Busy, Writing
<1>2. tx'[r] = t /\ \A s \in Requests \ {r} : tx'[s] = tx[s]
  BY DEF WritePathInv, TypeOK
<1>3. UNCHANGED StoredUser(userId[r]) /\ UNCHANGED <<users, userId, user, base, oauthAccounts>>
  BY DEF StoredUser, Stored, tables
<1>4. TypeOK'
  BY DEF WritePathInv, TypeOK, tables
<1>5. \A s \in Requests : /\ tx'[s].row = tx[s].row
                           /\ Holding(s)' = Holding(s)
                           /\ Registering(s)' = Registering(s)
  <2> TAKE s \in Requests
  <2>1. tx'[s].row = tx[s].row
    BY <1>2
  <2>2. Registering(s)' = Registering(s)
    BY <1>3 DEF Registering, Saving, Writing
  <2> QED
    BY <2>1, <2>2 DEF Holding
<1>6. RequestInv(r)'
  <2>1. IdleInv(r)'
    BY <1>1, <1>3 DEF IdleInv, Busy, Writing
  <2>2. RegisteringInv(r)'
    BY <1>1, <1>3 DEF RequestInv, RegisteringInv, Registering, Saving, Writing, Stored
  <2>3. LoadingInv(r)'
    BY DEF LoadingInv, Loading, Writing
  <2>4. ChangingInv(r)'
    BY <1>1, <1>3, <1>5 DEF RequestInv, ChangingInv, Changing, Saving, Writing, Stored
  <2>5. WritesInv(r)'
    <3>1. Holding(r) /\ tx[r].row = ToRow(user[r], user[r].version + 1)
      <4>1. user[r].version + 1 \in Nat
        BY <1>1 DEF User
      <4> QED
        BY <1>1, <4>1, RowsAreRows DEF RequestInv, WritesInv, Holding
    <3>2. /\ Changing(r) => base[r].version = users[userId[r]].version
          /\ tx[r].row.email = user[r].email
      BY <1>1, <3>1 DEF RequestInv, WritesInv
    <3> QED
      BY <1>2, <1>3, <1>5, <3>1, <3>2 DEF WritesInv, Writing, Saving, Changing
  <2> QED
    BY <2>1, <2>2, <2>3, <2>4, <2>5 DEF RequestInv
<1>7. RowLockInv'
  BY <1>3, <1>5 DEF WritePathInv, RowLockInv
<1>8. EmailInv'
  BY <1>3, <1>5 DEF WritePathInv, EmailInv, Stored
<1> QED
  BY <1>2, <1>4, <1>6, <1>7, <1>8, StatementStep

LEMMA SavePasswordKeeps ==
  ASSUME WritePathInv, NEW r \in Requests, SavePassword(r)
  PROVE  WritePathInv'
<1> USE DEF SavePassword
<1>1. /\ RequestInv(r) /\ user[r] \in User /\ tx[r] \in Tx
      /\ tx[r].row = ToRow(user[r], user[r].version + 1)
  BY RequestTypes DEF WritePathInv, RequestInv, IdleInv, Busy, WritesInv, Writing
<1> DEFINE t == [tx[r] EXCEPT !.password = user[r].password]
<1>2. t \in Tx /\ t.row = tx[r].row /\ t.inserted = tx[r].inserted
      /\ t.password = user[r].password
  BY <1>1 DEF Tx, User
<1>3. tx' = [tx EXCEPT ![r] = t] /\ pc' \in [Requests -> Steps]
      /\ pc'[r] = "deletingAccounts"
      /\ \A s \in Requests \ {r} : pc'[s] = pc[s]
  BY DEF WritePathInv, TypeOK, Steps
<1> HIDE DEF t
<1>4. tx'[r] = t /\ \A s \in Requests \ {r} : tx'[s] = tx[s]
  BY <1>3 DEF WritePathInv, TypeOK
<1>5. KeyInv'
  BY <1>2, <1>4 DEF WritePathInv, KeyInv, KeyIsTaken, tables
<1> QED
  BY <1>1, <1>2, <1>3, <1>5, ChildStatementStep DEF Writing

LEMMA DeleteAccountsKeeps ==
  ASSUME WritePathInv, NEW r \in Requests, DeleteAccounts(r)
  PROVE  WritePathInv'
<1> USE DEF DeleteAccounts
<1>1. /\ RequestInv(r) /\ user[r] \in User /\ tx[r] \in Tx
      /\ tx[r].row = ToRow(user[r], user[r].version + 1)
  BY RequestTypes DEF WritePathInv, RequestInv, IdleInv, Busy, WritesInv, Writing
<1> DEFINE t == [tx[r] EXCEPT !.deleted = TRUE, !.inserted = {},
                              !.dropped = tx[r].dropped \cup tx[r].inserted]
<1>2. t \in Tx /\ t.row = tx[r].row /\ t.inserted = {} /\ t.deleted
      /\ t.password = tx[r].password
  BY <1>1, FS_EmptySet DEF Tx
<1>3. tx[r].password = user[r].password
  BY <1>1 DEF RequestInv, WritesInv
<1>4. tx' = [tx EXCEPT ![r] = t] /\ pc' \in [Requests -> Steps]
      /\ pc'[r] = "insertingAccounts"
      /\ \A s \in Requests \ {r} : pc'[s] = pc[s]
  BY DEF WritePathInv, TypeOK, Steps
<1> HIDE DEF t
<1>5. tx'[r] = t /\ \A s \in Requests \ {r} : tx'[s] = tx[s]
  BY <1>4 DEF WritePathInv, TypeOK
<1>6. KeyInv'
  <2>1. \A s \in Requests : tx'[s].inserted \subseteq tx[s].inserted
    BY <1>2, <1>5
  <2>2. UNCHANGED <<userId, oauthAccounts>>
    BY DEF tables
  <2> QED
    BY <2>1, <2>2 DEF WritePathInv, KeyInv, KeyIsTaken
<1>7. pc[r] \in Writing /\ t.password = user[r].password
      /\ (t.deleted /\ t.inserted \subseteq user[r].accounts)
  BY <1>2, <1>3 DEF Writing
<1> QED
  BY <1>2, <1>4, <1>6, <1>7, ChildStatementStep

LEMMA InsertAccountKeeps ==
  ASSUME WritePathInv, NEW r \in Requests, InsertAccount(r)
  PROVE  WritePathInv'
<1> USE DEF InsertAccount
<1>1. /\ RequestInv(r) /\ user[r] \in User /\ tx[r] \in Tx
      /\ tx[r].row = ToRow(user[r], user[r].version + 1)
      /\ tx[r].deleted /\ tx[r].inserted \subseteq user[r].accounts
  BY RequestTypes DEF WritePathInv, RequestInv, IdleInv, Busy, WritesInv, Writing
<1>2. PICK a \in ToInsert(r) :
        /\ \A s \in Requests \ {r} : ~HoldsKey(s, Key(a))
        /\ IF KeyIsTaken(userId[r], Key(a))
             THEN Rollback(r, "KEY_VIOLATION")
             ELSE /\ tx' = [tx EXCEPT ![r].inserted = @ \cup {a}]
                  /\ UNCHANGED <<tables, pc, userId, user, base, outcome>>
  OBVIOUS
<1>3. CASE KeyIsTaken(userId[r], Key(a))
  BY <1>2, <1>3, RollbackKeeps DEF Outcomes
<1>4. CASE ~KeyIsTaken(userId[r], Key(a))
  <2> DEFINE t == [tx[r] EXCEPT !.inserted = tx[r].inserted \cup {a}]
  <2>1. a \in user[r].accounts /\ a \in Account
    BY <1>1 DEF ToInsert, User
  <2>2. IsFiniteSet(tx[r].inserted \cup {a})
    <3>1. IsFiniteSet(tx[r].inserted)
      BY <1>1 DEF Tx
    <3> QED
      BY <3>1, FS_AddElement
  <2>3. t \in Tx /\ t.row = tx[r].row /\ t.inserted = tx[r].inserted \cup {a}
        /\ t.deleted = tx[r].deleted /\ t.password = tx[r].password
    BY <1>1, <2>1, <2>2 DEF Tx
  <2>4. tx' = [tx EXCEPT ![r] = t] /\ UNCHANGED <<tables, pc, userId, user, base, outcome>>
    BY <1>2, <1>4
  <2> HIDE DEF t
  <2>5. tx'[r] = t /\ \A s \in Requests \ {r} : tx'[s] = tx[s]
    BY <2>4 DEF WritePathInv, TypeOK
  <2>6. KeyInv'
    <3>1. \A s \in Requests \ {r} : \A b \in tx[s].inserted : Key(b) # Key(a)
      BY <1>2 DEF HoldsKey
    <3> QED
      BY <1>4, <2>3, <2>4, <2>5, <3>1 DEF WritePathInv, KeyInv, KeyIsTaken, tables
  <2>7. /\ pc' \in [Requests -> Steps] /\ pc[r] \in Writing
        /\ pc'[r] = "insertingAccounts" /\ tx[r].password = user[r].password
    BY <1>1, <2>4 DEF WritePathInv, TypeOK, Writing, RequestInv, WritesInv
  <2>8. t.inserted \subseteq user[r].accounts
    BY <1>1, <2>1, <2>3
  <2> QED
    BY <1>1, <2>3, <2>4, <2>6, <2>7, <2>8, ChildStatementStep
<1> QED
  BY <1>3, <1>4

(* A unit of work begins: r takes an id and has something in memory. *)
LEMMA BeginStep ==
  ASSUME WritePathInv, NEW r \in Requests, NEW u \in UserIds, NEW a \in User,
         NEW step \in Steps \ {"idle"}, ~Busy(r),
         pc' = [pc EXCEPT ![r] = step],
         userId' = [userId EXCEPT ![r] = u],
         user' = [user EXCEPT ![r] = a],
         outcome' = [outcome EXCEPT ![r] = "none"],
         UNCHANGED <<tables, base, tx>>,
         \A s \in Requests : Registering(s) => userId[s] # u,
         RegisteringInv(r)', LoadingInv(r)', step \in {"hashing", "loadingPassword"}
  PROVE  WritePathInv'
<1>1. base[r] = NoUser /\ tx[r] = EmptyTx /\ tx[r].row = NoRow
  <2>1. base[r] = NoUser /\ tx[r] = EmptyTx
    BY DEF WritePathInv, RequestInv, IdleInv
  <2> QED
    BY <2>1 DEF EmptyTx
<1>2. /\ pc'[r] = step /\ userId'[r] = u /\ user'[r] = a
      /\ \A s \in Requests \ {r} :
           pc'[s] = pc[s] /\ userId'[s] = userId[s] /\ user'[s] = user[s]
  BY DEF WritePathInv, TypeOK
<1>3. TypeOK'
  BY DEF WritePathInv, TypeOK, tables, Outcomes
<1>4. RequestInv(r)'
  <2>1. IdleInv(r)'
    BY <1>2 DEF IdleInv, Busy
  <2>2. ChangingInv(r)'
    BY <1>1, <1>2 DEF ChangingInv, Changing
  <2>3. WritesInv(r)'
    BY <1>1, <1>2 DEF WritesInv, Holding, Writing
  <2> QED
    BY <2>1, <2>2, <2>3 DEF RequestInv
<1>5. ASSUME NEW s \in Requests PROVE RequestInv(s)'
  <2>1. CASE s = r
    BY <1>4, <2>1
  <2>2. CASE s # r
    <3>1. Registering(s) => \A t \in Requests \ {s} : userId'[t] # userId[s]
      BY <1>2 DEF WritePathInv, RequestInv, RegisteringInv
    <3> QED
      BY <1>2, <2>2, <3>1, OthersKeep DEF WritePathInv
  <2> QED
    BY <2>1, <2>2
<1>6. RowLockInv'
  BY <1>1, <1>2 DEF WritePathInv, RowLockInv, Holding
<1>7. EmailInv'
  BY <1>1, <1>2 DEF WritePathInv, EmailInv, Holding, Registering, Stored, tables
<1>8. KeyInv'
  BY <1>1, <1>2 DEF WritePathInv, KeyInv, KeyIsTaken, EmptyTx, tables
<1> QED
  BY <1>3, <1>5, <1>6, <1>7, <1>8 DEF WritePathInv

LEMMA StartRegistrationKeeps ==
  ASSUME WritePathInv, NEW r \in Requests, StartRegistration(r)
  PROVE  WritePathInv'
<1>1. PICK raw \in RawEmails, u \in FreshUserIds :
        /\ ~Busy(r)
        /\ EmailRefusal(EmailOf[raw]) = Accepted
        /\ pc' = [pc EXCEPT ![r] = "hashing"]
        /\ userId' = [userId EXCEPT ![r] = u]
        /\ user' = [user EXCEPT ![r] = Register(EmailOf[raw])]
        /\ outcome' = [outcome EXCEPT ![r] = "none"]
        /\ UNCHANGED <<tables, base, tx>>
  BY DEF StartRegistration
<1> DEFINE e == EmailOf[raw]
<1>2. e \in Emails
  <2>1. e # Malformed
    BY <1>1 DEF EmailRefusal, Accepted
  <2> QED
    BY <2>1, EmailOfIsNormalising
<1> HIDE DEF e
<1>3. Register(e) \in User
  BY <1>2, FS_EmptySet DEF Register, User, Statuses
<1>4. u \in UserIds /\ ~Stored(u) /\ \A s \in Requests : userId[s] # u
  BY DEF FreshUserIds
<1>5. pc'[r] = "hashing" /\ userId'[r] = u /\ user'[r] = Register(e)
      /\ \A s \in Requests \ {r} : userId'[s] = userId[s]
  BY <1>1 DEF WritePathInv, TypeOK, e
<1>6. RegisteringInv(r)'
  <2>1. UNCHANGED users
    BY <1>1 DEF tables
  <2> QED
    BY <1>2, <1>4, <1>5, <2>1 DEF RegisteringInv, Stored, Saving, Writing
<1>7. LoadingInv(r)'
  BY <1>5 DEF LoadingInv, Loading
<1> QED
  BY <1>1, <1>3, <1>4, <1>6, <1>7, BeginStep DEF e, Steps

LEMMA LoadUserKeeps ==
  ASSUME WritePathInv, NEW r \in Requests, LoadUser(r)
  PROVE  WritePathInv'
<1>1. PICK u \in {v \in UserIds : Stored(v)} :
        /\ ~Busy(r)
        /\ users[u].version < MaxVersion
        /\ pc' = [pc EXCEPT ![r] = "loadingPassword"]
        /\ userId' = [userId EXCEPT ![r] = u]
        /\ user' = [user EXCEPT ![r] = ToDomain(users[u], NoPassword, {})]
        /\ outcome' = [outcome EXCEPT ![r] = "none"]
        /\ UNCHANGED <<tables, base, tx>>
  BY DEF LoadUser
<1> DEFINE a == ToDomain(users[u], NoPassword, {})
<1>2. u \in UserIds /\ Stored(u) /\ users[u] \in UserRow
  BY StoredUsersAreUsers DEF WritePathInv
<1>3. /\ a \in User /\ a.version = users[u].version
      /\ ToRow(a, a.version) = users[u]
  <2>1. users[u].version \in Nat
    BY <1>2 DEF UserRow
  <2>2. a \in User
    BY <1>2, FS_EmptySet DEF ToDomain, User, UserRow
  <2>3. ToRow(a, a.version) = users[u]
    BY <1>2 DEF ToDomain, ToRow, UserRow
  <2> QED
    BY <2>2, <2>3 DEF ToDomain
<1> HIDE DEF a
<1>4. pc'[r] = "loadingPassword" /\ userId'[r] = u /\ user'[r] = a
  BY <1>1 DEF WritePathInv, TypeOK, a
<1>5. RegisteringInv(r)'
  BY <1>4 DEF RegisteringInv, Registering, Saving, Writing
<1>6. LoadingInv(r)'
  <2>1. UNCHANGED <<users, base>> /\ base[r] = NoUser
    BY <1>1 DEF tables, WritePathInv, RequestInv, IdleInv
  <2>2. users[u].version \in Nat
    BY <1>2 DEF UserRow
  <2> QED
    BY <1>1, <1>2, <1>3, <1>4, <2>1, <2>2 DEF LoadingInv, Loading, Stored
<1>7. \A s \in Requests : Registering(s) => userId[s] # u
  BY <1>2 DEF WritePathInv, RequestInv, RegisteringInv
<1> QED
  BY <1>1, <1>2, <1>3, <1>5, <1>6, <1>7, BeginStep DEF a, Steps

(* What a request that is about to commit has written: all of its memory. *)
LEMMA SavedIsWritten ==
  ASSUME WritePathInv, NEW r \in Requests, pc[r] = "saved"
  PROVE  /\ userId[r] \in UserIds /\ user[r] \in User
         /\ tx[r].row = ToRow(user[r], user[r].version)
         /\ tx[r].row \in UserRow /\ tx[r].row # NoRow /\ Holding(r)
         /\ tx[r].row.version = user[r].version
         /\ tx[r].password = user[r].password
         /\ tx[r].deleted /\ tx[r].inserted = user[r].accounts
         /\ Registering(r) \/ Changing(r)
<1>1. RequestInv(r) /\ userId[r] \in UserIds /\ user[r] \in User
  BY DEF WritePathInv, RequestInv, IdleInv, Busy
<1>2. /\ tx[r].row = ToRow(user[r], user[r].version)
      /\ tx[r].password = user[r].password
      /\ tx[r].deleted /\ tx[r].inserted = user[r].accounts
  BY <1>1 DEF RequestInv, WritesInv
<1>3. user[r].version \in Nat
  BY <1>1 DEF User
<1> QED
  BY <1>1, <1>2, <1>3, RowsAreRows DEF Holding, Registering, Changing

(* A commit publishes the aggregate in memory, whole, and nothing else; a    *)
(* change replaces exactly what it had loaded.                               *)
LEMMA PublishedIsSaved ==
  ASSUME WritePathInv, NEW r \in Requests, pc[r] = "saved", Publish(r)
  PROVE  /\ users'[userId[r]] = tx[r].row
         /\ oauthAccounts'[userId[r]] = user[r].accounts
         /\ passwords'[userId[r]] = user[r].password
         /\ \A v \in UserIds \ {userId[r]} : /\ users'[v] = users[v]
                                            /\ passwords'[v] = passwords[v]
                                            /\ oauthAccounts'[v] = oauthAccounts[v]
         /\ ToDomain(users'[userId[r]], passwords'[userId[r]], oauthAccounts'[userId[r]])
              = user[r]
         /\ Changing(r) => /\ Stored(userId[r])
                           /\ base[r] = StoredUser(userId[r])
                           /\ user[r] \in Reach(base[r])
                           /\ user[r].version > users[userId[r]].version
<1>1. /\ userId[r] \in UserIds /\ user[r] \in User
      /\ tx[r].row = ToRow(user[r], user[r].version) /\ tx[r].password = user[r].password
      /\ tx[r].deleted /\ tx[r].inserted = user[r].accounts /\ Holding(r)
  BY SavedIsWritten
<1>2. /\ users'[userId[r]] = tx[r].row
      /\ oauthAccounts'[userId[r]] = user[r].accounts
      /\ passwords'[userId[r]] = user[r].password
      /\ \A v \in UserIds \ {userId[r]} : /\ users'[v] = users[v]
                                         /\ passwords'[v] = passwords[v]
                                         /\ oauthAccounts'[v] = oauthAccounts[v]
  BY <1>1 DEF Publish, WritePathInv, TypeOK
<1>3. ToDomain(users'[userId[r]], passwords'[userId[r]], oauthAccounts'[userId[r]]) = user[r]
  <2>1. user[r].version \in Nat
    BY <1>1 DEF User
  <2> QED
    BY <1>1, <1>2, <2>1, RowsAreRows
<1>4. ASSUME Changing(r)
      PROVE  /\ Stored(userId[r])
             /\ base[r] = StoredUser(userId[r])
             /\ user[r] \in Reach(base[r])
             /\ user[r].version > users[userId[r]].version
  <2>1. /\ Stored(userId[r]) /\ user[r] \in Reach(base[r])
        /\ base[r].version = users[userId[r]].version
        /\ base[r] = StoredUser(userId[r])
    BY <1>1, <1>4 DEF WritePathInv, RequestInv, ChangingInv, WritesInv
  <2>2. base[r] \in User /\ base[r].version \in Nat
    BY <1>4, RequestTypes DEF WritePathInv, Changing, User
  <2>3. user[r].version > base[r].version
    BY <2>1, <2>2, ReachAreUsers
  <2> QED
    BY <2>1, <2>3
<1> QED
  BY <1>2, <1>3, <1>4

LEMMA CommitKeeps ==
  ASSUME WritePathInv, NEW r \in Requests, NEW result \in Outcomes,
         pc[r] = "saved", Publish(r), End(r, result)
  PROVE  WritePathInv'
<1> DEFINE u == userId[r]
<1>1. /\ u \in UserIds /\ user[r] \in User /\ Holding(r)
      /\ tx[r].row \in UserRow /\ tx[r].row # NoRow
      /\ tx[r].row.version = user[r].version
      /\ tx[r].inserted = user[r].accounts
      /\ Registering(r) \/ Changing(r)
  BY SavedIsWritten
<1>2. /\ users'[u] = tx[r].row
      /\ oauthAccounts'[u] = user[r].accounts
      /\ passwords'[u] = user[r].password
      /\ \A v \in UserIds \ {u} : /\ users'[v] = users[v]
                                /\ passwords'[v] = passwords[v]
                                /\ oauthAccounts'[v] = oauthAccounts[v]
  BY PublishedIsSaved
<1>3. Stored(u) => user[r].version > users[u].version /\ users[u].version \in Nat
  <2>1. Stored(u) => Changing(r)
    BY <1>1 DEF WritePathInv, RequestInv, RegisteringInv
  <2> QED
    BY <1>1, <2>1, PublishedIsSaved, StoredUsersAreUsers DEF WritePathInv
<1>4. /\ pc'[r] = "idle" /\ userId'[r] = NoUserId /\ user'[r] = NoUser
      /\ base'[r] = NoUser /\ tx'[r] = EmptyTx
      /\ \A s \in Requests \ {r} : /\ pc'[s] = pc[s] /\ userId'[s] = userId[s]
                                   /\ user'[s] = user[s] /\ base'[s] = base[s]
                                   /\ tx'[s] = tx[s]
  BY DEF End, WritePathInv, TypeOK
<1>5. TypeOK'
  <2>1. /\ users' \in [UserIds -> UserRow \cup {NoRow}]
        /\ passwords' \in [UserIds -> Hashes \cup {NoPassword}]
        /\ oauthAccounts' \in [UserIds -> {S \in SUBSET Account : IsFiniteSet(S)}]
    <3>1. /\ users' = [users EXCEPT ![u] = tx[r].row]
          /\ passwords' = [passwords EXCEPT ![u] = user[r].password]
          /\ oauthAccounts' = [oauthAccounts EXCEPT ![u] = user[r].accounts]
      BY SavedIsWritten DEF Publish
    <3>2. /\ user[r].password \in Hashes \cup {NoPassword}
          /\ user[r].accounts \in {S \in SUBSET Account : IsFiniteSet(S)}
      BY <1>1 DEF User
    <3> QED
      BY <1>1, <3>1, <3>2 DEF WritePathInv, TypeOK
  <2> QED
    BY <2>1, EmptyTxType DEF WritePathInv, TypeOK, End, Steps
<1>6. RequestInv(r)'
  BY <1>4 DEF RequestInv, IdleInv, RegisteringInv, LoadingInv, ChangingInv, WritesInv,
         Busy, Registering, Loading, Changing, Holding, EmptyTx, Saving, Writing
<1> HIDE DEF u
<1>7. ASSUME NEW s \in Requests \ {r} PROVE RequestInv(s)'
  <2>1. /\ RequestInv(s)
        /\ pc'[s] = pc[s] /\ userId'[s] = userId[s] /\ user'[s] = user[s]
        /\ base'[s] = base[s] /\ tx'[s] = tx[s]
        /\ Busy(s) => userId[s] \in UserIds
    BY <1>4 DEF WritePathInv, RequestInv, IdleInv
  <2>2. IdleInv(s)'
    BY <2>1 DEF RequestInv, IdleInv, Busy
  <2>3. RegisteringInv(s)'
    <3> SUFFICES ASSUME Registering(s) PROVE RegisteringInv(s)'
      BY <2>1 DEF RegisteringInv, Registering
    <3>1. userId[s] # u /\ userId[s] \in UserIds
      BY <2>1 DEF RequestInv, RegisteringInv, Registering, Busy, Saving, Writing, u
    <3>2. users'[userId[s]] = users[userId[s]] /\ userId[s] # NoUserId
      BY <1>2, <3>1, NullsAreApart
    <3>3. \A t \in Requests \ {s} : userId'[t] # userId[s]
      BY <1>4, <2>1, <3>2 DEF RequestInv, RegisteringInv
    <3> QED
      BY <2>1, <3>2, <3>3 DEF RequestInv, RegisteringInv, Registering, Stored
  <2>4. LoadingInv(s)'
    <3> SUFFICES ASSUME Loading(s) PROVE LoadingInv(s)'
      BY <2>1 DEF LoadingInv, Loading
    <3>1. userId[s] \in UserIds /\ user[s] \in User /\ user[s].version \in Nat
      BY DEF WritePathInv, RequestInv, IdleInv, Busy, Loading, User
    <3>2. CASE userId[s] = u
      <4>1. user[s].version < users'[u].version /\ Stored(u)
        BY <1>1, <1>2, <1>3, <2>1, <3>1, <3>2 DEF RequestInv, LoadingInv, User
      <4>2. users'[u] # NoRow /\ users'[u].version \in Nat
        BY <1>1, <1>2 DEF UserRow
      <4> QED
        BY <2>1, <3>1, <3>2, <4>1, <4>2 DEF RequestInv, LoadingInv, Loading, Stored
    <3>3. CASE userId[s] # u
      BY <1>2, <2>1, <3>1, <3>3 DEF RequestInv, LoadingInv, Loading, Stored
    <3> QED
      BY <3>2, <3>3
  <2>5. ChangingInv(s)'
    <3> SUFFICES ASSUME Changing(s) PROVE ChangingInv(s)'
      BY <2>1 DEF RequestInv, ChangingInv, Changing
    <3>1. /\ userId[s] \in UserIds /\ base[s] \in User /\ base[s].version \in Nat
          /\ Holding(s)' = Holding(s)
      BY <2>1, RequestTypes
         DEF WritePathInv, RequestInv, ChangingInv, Busy, Changing, User, Saving, Writing, Holding
    <3>2. CASE userId[s] = u
      <4>1. base[s].version < users'[u].version /\ Stored(u)
        BY <1>1, <1>2, <1>3, <2>1, <3>1, <3>2 DEF RequestInv, ChangingInv, User
      <4>2. users'[u] # NoRow /\ users'[u].version \in Nat
        BY <1>1, <1>2 DEF UserRow
      <4> QED
        BY <2>1, <3>1, <3>2, <4>1, <4>2 DEF RequestInv, ChangingInv, Changing, Stored
    <3>3. CASE userId[s] # u
      <4>1. StoredUser(userId[s])' = StoredUser(userId[s])
        BY <1>2, <2>1, <3>1, <3>3 DEF StoredUser, Stored
      <4> QED
        BY <1>2, <2>1, <3>1, <3>3, <4>1 DEF RequestInv, ChangingInv, Changing, Stored
    <3> QED
      BY <3>2, <3>3
  <2>6. WritesInv(s)'
    <3>1. Holding(s) => userId[s] # u
      BY <1>1 DEF WritePathInv, RowLockInv, u
    <3>2. Holding(s) /\ Changing(s) => base[s].version = users'[userId[s]].version
      <4>1. Holding(s) => userId[s] \in UserIds
        BY <2>1 DEF RequestInv, WritesInv, Busy, Saving, Writing
      <4> QED
        BY <1>2, <2>1, <3>1, <4>1 DEF RequestInv, WritesInv
    <3> QED
      BY <2>1, <3>2 DEF RequestInv, WritesInv, Holding, Changing
  <2> QED
    BY <2>2, <2>3, <2>4, <2>5, <2>6 DEF RequestInv
<1>8. RowLockInv'
  BY <1>4 DEF WritePathInv, RowLockInv, Holding, EmptyTx
<1>9. EmailInv'
  <2> SUFFICES ASSUME NEW s \in Requests, Registering(s)', Holding(s)'
               PROVE  /\ \A v \in UserIds : Stored(v)' => users'[v].email # tx'[s].row.email
                      /\ \A q \in Requests \ {s} :
                           Holding(q)' => tx'[q].row.email # tx'[s].row.email
    BY DEF EmailInv
  <2>1. s # r
    BY <1>4 DEF Holding, EmptyTx
  <2>2. Registering(s) /\ Holding(s) /\ tx'[s] = tx[s]
    BY <1>4, <2>1 DEF Registering, Holding
  <2>3. ASSUME NEW v \in UserIds, Stored(v)' PROVE users'[v].email # tx[s].row.email
    <3>1. CASE v = u
      BY <1>1, <1>2, <2>1, <2>2, <3>1 DEF WritePathInv, EmailInv
    <3>2. CASE v # u
      BY <1>2, <2>2, <2>3, <3>2 DEF WritePathInv, EmailInv, Stored
    <3> QED
      BY <3>1, <3>2
  <2>4. ASSUME NEW q \in Requests \ {s}, Holding(q)' PROVE tx'[q].row.email # tx[s].row.email
    <3>1. q # r
      BY <1>4, <2>4 DEF Holding, EmptyTx
    <3> QED
      BY <1>4, <2>2, <2>4, <3>1 DEF WritePathInv, EmailInv, Holding
  <2> QED
    BY <2>2, <2>3, <2>4
<1>10. KeyInv'
  <2> SUFFICES ASSUME NEW s \in Requests, NEW a \in tx'[s].inserted
               PROVE  /\ ~KeyIsTaken(userId[s], Key(a))'
                      /\ \A q \in Requests \ {s} : \A b \in tx'[q].inserted : Key(a) # Key(b)
    BY DEF KeyInv
  <2>1. s # r
    BY <1>4 DEF EmptyTx
  <2>2. tx'[s] = tx[s] /\ userId'[s] = userId[s]
    BY <1>4, <2>1
  <2>3. ~KeyIsTaken(userId[s], Key(a))'
    <3> SUFFICES ASSUME NEW v \in UserIds \ {userId[s]}, NEW b \in oauthAccounts'[v]
                 PROVE  Key(a) # Key(b)
      BY <2>2 DEF KeyIsTaken
    <3>1. CASE v = u
      BY <1>1, <1>2, <2>1, <2>2, <3>1 DEF WritePathInv, KeyInv
    <3>2. CASE v # u
      BY <1>2, <2>2, <3>2 DEF WritePathInv, KeyInv, KeyIsTaken
    <3> QED
      BY <3>1, <3>2
  <2>4. ASSUME NEW q \in Requests \ {s}, NEW b \in tx'[q].inserted PROVE Key(a) # Key(b)
    <3>1. q # r
      BY <1>4, <2>4 DEF EmptyTx
    <3> QED
      BY <1>4, <2>2, <2>4, <3>1 DEF WritePathInv, KeyInv
  <2> QED
    BY <2>3, <2>4
<1>11. \A s \in Requests : RequestInv(s)'
  BY <1>6, <1>7
<1> QED
  BY <1>5, <1>8, <1>9, <1>10, <1>11 DEF WritePathInv

LEMMA NextInv == WritePathInv /\ [Next]_vars => WritePathInv'
<1> SUFFICES ASSUME WritePathInv, [Next]_vars PROVE WritePathInv'
  OBVIOUS
<1>1. CASE UNCHANGED vars
  <2>1. TypeOK'
    BY <1>1 DEF WritePathInv, TypeOK, vars
  <2>2. ASSUME NEW s \in Requests PROVE RequestInv(s)'
    BY <1>1, OthersKeep DEF WritePathInv, RequestInv, RegisteringInv, vars, tables
  <2>3. RowLockInv' /\ EmailInv' /\ KeyInv'
    BY <1>1 DEF WritePathInv, RowLockInv, EmailInv, KeyInv, KeyIsTaken, Holding,
           Registering, Stored, vars
  <2> QED
    BY <2>1, <2>2, <2>3 DEF WritePathInv
<1>2. ASSUME NEW r \in Requests,
             \/ RefuseRegistration(r) \/ StartRegistration(r) \/ LoadUser(r)
             \/ Advance(r) \/ WriteUser(r) \/ InsertAccount(r)
             \/ CommitAnswerLost(r) \/ Fail(r) \/ AbortDeadlock(r)
      PROVE  WritePathInv'
  <2>1. CASE Advance(r)
    <3>1. CASE HashPassword(r)
      BY <3>1, HashPasswordKeeps
    <3>2. CASE LoadPassword(r)
      BY <3>2, LoadPasswordKeeps
    <3>3. CASE LoadAccounts(r)
      BY <3>3, LoadAccountsKeeps
    <3>4. CASE CallMethod(r)
      BY <3>4, CallMethodKeeps
    <3>5. CASE MethodThrows(r)
      BY <3>5, EndingsKeep
    <3>6. CASE SavePassword(r)
      BY <3>6, SavePasswordKeeps
    <3>7. CASE DeleteAccounts(r)
      BY <3>7, DeleteAccountsKeeps
    <3>8. CASE FinishSave(r)
      BY <3>8, FinishSaveKeeps
    <3>9. CASE CallAnotherMethod(r)
      BY <3>9, CallAnotherMethodKeeps
    <3>10. CASE Commit(r)
      BY <3>10, CommitKeeps DEF Commit, Outcomes
    <3> QED
      BY <2>1, <3>1, <3>2, <3>3, <3>4, <3>5, <3>6, <3>7, <3>8, <3>9, <3>10 DEF Advance
  <2>2. CASE WriteUser(r)
    BY <2>2, WriteUserRowKeeps, EndingsKeep DEF WriteUser
  <2>3. CASE StartRegistration(r)
    BY <2>3, StartRegistrationKeeps
  <2>4. CASE LoadUser(r)
    BY <2>4, LoadUserKeeps
  <2>5. CASE InsertAccount(r)
    BY <2>5, InsertAccountKeeps
  <2>6. CASE CommitAnswerLost(r)
    BY <2>6, CommitKeeps DEF CommitAnswerLost, Outcomes
  <2>7. CASE RefuseRegistration(r) \/ Fail(r) \/ AbortDeadlock(r)
    BY <2>7, EndingsKeep
  <2> QED
    BY <1>2, <2>1, <2>2, <2>3, <2>4, <2>5, <2>6, <2>7
<1> QED
  BY <1>1, <1>2 DEF Next

(* The inductive invariant holds: at each step of every request, its memory *)
(* and its uncommitted writes stand to the tables as WritePathInv says.     *)
THEOREM WritePathIsConsistent == Spec => []WritePathInv
  BY InitInv, NextInv, PTL DEF Spec

(* Rows, aggregates in memory and uncommitted writes are always well-typed: *)
(* no address that Email.of refused gets into any of them.                  *)
THEOREM TypeCorrectness == Spec => []TypeOK
<1>1. WritePathInv => TypeOK
  BY DEF WritePathInv
<1> QED
  BY <1>1, WritePathIsConsistent, PTL

(* A load that three statements put together is the stored aggregate, whole, *)
(* as long as its version is the stored one: a torn load can only end in a   *)
(* conflict.                                                                 *)
THEOREM LoadsAreUntorn == Spec => []UntornWhenCurrent
<1>1. WritePathInv => UntornWhenCurrent
  BY DEF WritePathInv, RequestInv, ChangingInv, Changing, UntornWhenCurrent
<1> QED
  BY <1>1, WritePathIsConsistent, PTL

-----------------------------------------------------------------------------
(* What a step does to the stored users. *)

(* Every step but a commit leaves the tables alone. *)
LEMMA OnlyCommitsPublish ==
  ASSUME NEW r \in Requests,
         \/ RefuseRegistration(r) \/ StartRegistration(r) \/ LoadUser(r)
         \/ Advance(r) \/ WriteUser(r) \/ InsertAccount(r)
         \/ CommitAnswerLost(r) \/ Fail(r) \/ AbortDeadlock(r),
         ~(Commit(r) \/ CommitAnswerLost(r))
  PROVE  UNCHANGED tables
<1>1. CASE \/ RefuseRegistration(r) \/ StartRegistration(r) \/ LoadUser(r)
           \/ Fail(r) \/ AbortDeadlock(r)
  BY <1>1 DEF RefuseRegistration, StartRegistration, LoadUser, Fail, AbortDeadlock, Rollback
<1>2. CASE Advance(r)
  BY <1>2 DEF Advance, HashPassword, LoadPassword, LoadAccounts, CallMethod, MethodThrows,
         SavePassword, DeleteAccounts, FinishSave, CallAnotherMethod, Rollback
<1>3. CASE WriteUser(r)
  BY <1>3 DEF WriteUser, InsertUser, InsertUserFails, UpdateUser, UpdateUserMatchesNothing,
         WriteUserRow, Rollback
<1>4. CASE InsertAccount(r)
  <2>1. PICK a \in ToInsert(r) :
          IF KeyIsTaken(userId[r], Key(a))
            THEN Rollback(r, "KEY_VIOLATION")
            ELSE UNCHANGED tables
    BY <1>4 DEF InsertAccount
  <2> QED
    BY <2>1 DEF Rollback
<1> QED
  BY <1>1, <1>2, <1>3, <1>4

(* A step changes no stored user, or is the commit of one request. *)
LEMMA StepsOnUsers ==
  ASSUME WritePathInv, [Next]_vars
  PROVE  \/ UNCHANGED tables
         \/ \E r \in Requests : pc[r] = "saved" /\ Publish(r)
<1>1. CASE UNCHANGED vars
  BY <1>1 DEF vars, tables
<1>2. CASE Next
  <2>1. PICK r \in Requests :
          \/ RefuseRegistration(r) \/ StartRegistration(r) \/ LoadUser(r)
          \/ Advance(r) \/ WriteUser(r) \/ InsertAccount(r)
          \/ CommitAnswerLost(r) \/ Fail(r) \/ AbortDeadlock(r)
    BY <1>2 DEF Next
  <2>2. CASE Commit(r) \/ CommitAnswerLost(r)
    BY <2>2 DEF Commit, CommitAnswerLost
  <2> QED
    BY <2>1, <2>2, OnlyCommitsPublish
<1> QED
  BY <1>1, <1>2

(* What a commit does to the user that is stored under each id. *)
LEMMA CommitOnUsers ==
  ASSUME WritePathInv, NEW r \in Requests, pc[r] = "saved", Publish(r)
  PROVE  /\ userId[r] \in UserIds /\ user[r] \in User
         /\ \A v \in UserIds :
              StoredUser(v)' = IF v = userId[r] THEN user[r] ELSE StoredUser(v)
<1>1. /\ userId[r] \in UserIds /\ user[r] \in User
      /\ tx[r].row # NoRow
  BY SavedIsWritten
<1>2. ASSUME NEW v \in UserIds
      PROVE  StoredUser(v)' = IF v = userId[r] THEN user[r] ELSE StoredUser(v)
  <2>1. CASE v = userId[r]
    BY <1>1, <2>1, PublishedIsSaved DEF StoredUser, Stored
  <2>2. CASE v # userId[r]
    BY <2>2, PublishedIsSaved DEF StoredUser, Stored
  <2> QED
    BY <2>1, <2>2
<1> QED
  BY <1>1, <1>2

(* AtomicAccounts is built on the same aggregate. *)
LEMMA SameAggregate ==
  /\ \A a : Promise!Key(a) = Key(a)
  /\ \A e, h : Promise!Committed(Promise!SetPassword(Promise!Register(e), h), 1)
                = Committed(SetPassword(Register(e), h), 1)
  /\ \A a : Promise!Reach(a) = Reach(a)
  /\ \A a : Promise!Sound(a) <=> Sound(a)
<1>0. \A S : Promise!Cardinality(S) = Cardinality(S)
  BY DEF Cardinality, Promise!Cardinality
<1>1. \A a : Promise!Key(a) = Key(a)
  BY DEF Key, Promise!Key
<1>2. \A e, h : Promise!Committed(Promise!SetPassword(Promise!Register(e), h), 1)
                 = Committed(SetPassword(Register(e), h), 1)
  BY DEF Committed, SetPassword, Register,
         Promise!Committed, Promise!SetPassword, Promise!Register
<1>3. \A a : Promise!Successors(a) = Successors(a)
  <2>1. /\ Promise!PasswordRef = PasswordRef
        /\ Promise!Accepted = Accepted
    BY DEF PasswordRef, Accepted, Promise!PasswordRef, Promise!Accepted
  <2>2. Promise!MethodRef = MethodRef
    BY <2>1 DEF MethodRef, Promise!MethodRef
  <2>3. \A a : Promise!MethodCount(a) = MethodCount(a)
    BY <1>0 DEF MethodCount, Promise!MethodCount
  <2>4. \A a, p : Promise!LinkRefusal(a, p) = LinkRefusal(a, p)
    BY <2>1 DEF LinkRefusal, HasOAuthAccount, Promise!LinkRefusal, Promise!HasOAuthAccount
  <2>5. \A a, m : Promise!IsLinked(a, m) = IsLinked(a, m)
    BY <2>1 DEF IsLinked, Promise!IsLinked
  <2>6. \A a, m : Promise!UnlinkRefusal(a, m) = UnlinkRefusal(a, m)
    BY <2>1, <2>3, <2>5 DEF UnlinkRefusal, Promise!UnlinkRefusal
  <2>7. \A a : Promise!FreshIds(a) = FreshIds(a)
    BY DEF FreshIds, Promise!FreshIds
  <2>8. /\ \A a, h : Promise!SetPassword(a, h) = SetPassword(a, h)
        /\ \A a, p, i : Promise!LinkOAuth(a, p, i) = LinkOAuth(a, p, i)
        /\ \A a : Promise!VerifyEmail(a) = VerifyEmail(a)
        /\ \A a : Promise!Suspend(a) = Suspend(a)
    BY DEF SetPassword, LinkOAuth, VerifyEmail, Suspend, Promise!SetPassword,
           Promise!LinkOAuth, Promise!VerifyEmail, Promise!Suspend
  <2>9. \A a, m : Promise!Unlink(a, m) = Unlink(a, m)
    BY <2>1 DEF Unlink, Promise!Unlink
  <2>10. \A a : Promise!Results(a) = Results(a)
    <3> TAKE a
    <3> DEFINE set1 == {Promise!SetPassword(a, h) : h \in Hashes}
               set2 == {SetPassword(a, h) : h \in Hashes}
               profiles1 == {q \in Profiles : Promise!LinkRefusal(a, q) = Promise!Accepted}
               profiles2 == {q \in Profiles : LinkRefusal(a, q) = Accepted}
               link1 == {Promise!LinkOAuth(a, p, id) :
                           p \in profiles1, id \in Promise!FreshIds(a)}
               link2 == {LinkOAuth(a, p, id) : p \in profiles2, id \in FreshIds(a)}
               refs1 == {m \in Promise!MethodRef :
                           Promise!UnlinkRefusal(a, m) = Promise!Accepted}
               refs2 == {m \in MethodRef : UnlinkRefusal(a, m) = Accepted}
               unlink1 == {Promise!Unlink(a, ref) : ref \in refs1}
               unlink2 == {Unlink(a, ref) : ref \in refs2}
    <3>1. set1 = set2
      BY <2>8
    <3>2. link1 = link2
      <4>1. profiles1 = profiles2
        BY <2>1, <2>4
      <4>2. Promise!FreshIds(a) = FreshIds(a)
        BY <2>7
      <4> HIDE DEF profiles1, profiles2
      <4>3. \A x : x \in link1 <=> \E p \in profiles1, id \in Promise!FreshIds(a) :
                                      x = Promise!LinkOAuth(a, p, id)
        OBVIOUS
      <4>4. \A x : x \in link2 <=> \E p \in profiles2, id \in FreshIds(a) :
                                      x = LinkOAuth(a, p, id)
        OBVIOUS
      <4>5. \A x : x \in link1 <=> x \in link2
        <5> HIDE DEF link1, link2
        <5> QED
          BY <2>8, <4>1, <4>2, <4>3, <4>4, SMT
      <4> HIDE DEF link1, link2
      <4> QED
        BY <4>5, SMT
    <3>3. unlink1 = unlink2
      <4>1. refs1 = refs2
        BY <2>1, <2>2, <2>6
      <4> HIDE DEF refs1, refs2
      <4> QED
        BY <2>9, <4>1
    <3>4. /\ Promise!VerifyEmail(a) = VerifyEmail(a)
          /\ Promise!Suspend(a) = Suspend(a)
      BY <2>8
    <3>5. Promise!Results(a) =
            [setPassword |-> set1, linkOAuth |-> link1, unlink |-> unlink1,
             verifyEmail |-> {Promise!VerifyEmail(a)}, suspend |-> {Promise!Suspend(a)}]
      BY DEF Promise!Results
    <3>6. Results(a) =
            [setPassword |-> set2, linkOAuth |-> link2, unlink |-> unlink2,
             verifyEmail |-> {VerifyEmail(a)}, suspend |-> {Suspend(a)}]
      BY DEF Results
    <3> HIDE DEF set1, set2, link1, link2, unlink1, unlink2
    <3> QED
      BY <3>1, <3>2, <3>3, <3>4, <3>5, <3>6, Zenon
  <2> QED
    BY <2>10 DEF Successors, Promise!Successors
<1>4. \A a : Promise!Updated(a) = Updated(a)
  BY <1>3 DEF Updated, Committed, Promise!Updated, Promise!Committed
<1>5. \A a : Promise!Reach(a) = Reach(a)
  BY <1>4 DEF Reach, Promise!Reach
<1>6. \A a : Promise!Sound(a) <=> Sound(a)
  <2>1. \A a : Promise!CanSignIn(a) <=> CanSignIn(a)
    BY <1>0 DEF CanSignIn, MethodCount, Promise!CanSignIn, Promise!MethodCount
  <2>2. \A a : Promise!OneAccountPerProviderOf(a) <=> OneAccountPerProviderOf(a)
    BY DEF OneAccountPerProviderOf, Promise!OneAccountPerProviderOf
  <2>3. \A a : Promise!DistinctIds(a) <=> DistinctIds(a)
    BY DEF DistinctIds, Promise!DistinctIds
  <2> QED
    BY <2>1, <2>2, <2>3 DEF Sound, Promise!Sound
<1> QED
  BY <1>1, <1>2, <1>5, <1>6

(* The commit of a registration is RegisterUser, of a change ChangeUser. *)
LEMMA CommitImplements ==
  ASSUME WritePathInv, NEW r \in Requests, pc[r] = "saved", Publish(r)
  PROVE  Promise!Next
<1> DEFINE u == userId[r]
           accts == [v \in UserIds |-> StoredUser(v)]
<1>1. /\ u \in UserIds /\ user[r] \in User
      /\ \A v \in UserIds : StoredUser(v)' = IF v = u THEN user[r] ELSE StoredUser(v)
  BY CommitOnUsers
<1>2. [v \in UserIds |-> StoredUser(v)]' = [accts EXCEPT ![u] = user[r]]
  BY <1>1
<1>3. \A v \in UserIds : accts[v] = StoredUser(v)
  OBVIOUS
<1>4. \A v \in UserIds : accts[v] # NoUser => Stored(v)
  BY DEF StoredUser
<1>5. CASE Registering(r)
  <2>1. /\ ~Stored(u) /\ Holding(r) /\ tx[r].row.email = user[r].email
    BY <1>5, SavedIsWritten DEF WritePathInv, RequestInv, RegisteringInv, WritesInv
  <2>2. PICK e \in Emails, h \in Hashes : user[r] = Committed(SetPassword(Register(e), h), 1)
    BY <1>5 DEF WritePathInv, RequestInv, RegisteringInv
  <2>3. user[r].email = e
    BY <2>2, RegisteredIsSound
  <2>4. ~Promise!Exists(u)
    BY <1>1, <1>4, <2>1 DEF Promise!Exists
  <2>5. Promise!EmailIsFree(e)
    <3> SUFFICES ASSUME NEW v \in UserIds, Stored(v) PROVE StoredUser(v).email # e
      BY <1>3, <1>4 DEF Promise!EmailIsFree, Promise!Exists
    <3>1. users[v].email # e
      BY <1>5, <2>1, <2>3 DEF WritePathInv, EmailInv
    <3> QED
      BY <3>1, StoredUsersAreUsers DEF WritePathInv
  <2>6. Promise!RegisterUser(u, e, h)
    BY <1>2, <2>2, <2>4, <2>5, SameAggregate DEF Promise!RegisterUser
  <2> QED
    BY <1>1, <2>6 DEF Promise!Next
<1>6. CASE Changing(r)
  <2>1. /\ Stored(u) /\ base[r] = StoredUser(u) /\ user[r] \in Reach(base[r])
    BY <1>6, PublishedIsSaved
  <2>2. base[r].version < MaxVersion /\ base[r] # NoUser
    BY <1>6 DEF WritePathInv, RequestInv, ChangingInv, Changing
  <2>3. Promise!Exists(u) /\ accts[u].version < MaxVersion
    BY <1>1, <2>1, <2>2 DEF Promise!Exists
  <2>4. Promise!KeysAreFree(u, user[r])
    <3> SUFFICES ASSUME NEW v \in UserIds \ {u}, Stored(v),
                        NEW a \in user[r].accounts, NEW b \in StoredUser(v).accounts
                 PROVE  Key(a) # Key(b)
      BY <1>3, <1>4, SameAggregate DEF Promise!KeysAreFree, Promise!Exists
    <3>1. b \in oauthAccounts[v]
      BY DEF StoredUser, ToDomain
    <3>2. a \in tx[r].inserted
      BY SavedIsWritten
    <3> QED
      BY <3>1, <3>2 DEF WritePathInv, KeyInv, KeyIsTaken
  <2>5. user[r] \in Reach(accts[u])
    BY <1>1, <2>1
  <2>6. Promise!ChangeUser(u)
    BY <1>2, <2>3, <2>4, <2>5, SameAggregate DEF Promise!ChangeUser
  <2> QED
    BY <1>1, <2>6 DEF Promise!Next
<1> QED
  BY <1>5, <1>6, SavedIsWritten

(* Seen through the committed rows, every unit of work happens at one       *)
(* instant on the whole aggregate, and only a commit is seen: the write     *)
(* path implements AtomicAccounts.                                          *)
THEOREM WritePathIsAtomic == Spec => ImplementsAtomicAccounts
<1>1. Init => Promise!Init
  BY DEF Init, Promise!Init, StoredUser, Stored
<1>2. WritePathInv /\ [Next]_vars => [Promise!Next]_([u \in UserIds |-> StoredUser(u)])
  <2> SUFFICES ASSUME WritePathInv, [Next]_vars
               PROVE  [Promise!Next]_([u \in UserIds |-> StoredUser(u)])
    OBVIOUS
  <2>1. CASE UNCHANGED tables
    BY <2>1 DEF tables, StoredUser, Stored
  <2>2. CASE \E r \in Requests : pc[r] = "saved" /\ Publish(r)
    BY <2>2, CommitImplements
  <2> QED
    BY <2>1, <2>2, StepsOnUsers
<1> QED
  BY <1>1, <1>2, WritePathIsConsistent, PTL DEF Spec, ImplementsAtomicAccounts, Promise!Spec

-----------------------------------------------------------------------------
(* What the stored users keep. *)

(* A request is told that it has committed by its own commit alone. *)
LEMMA OnlyCommitsReportSuccess ==
  ASSUME WritePathInv, NEW r \in Requests, NEW s \in Requests,
         \/ RefuseRegistration(s) \/ StartRegistration(s) \/ LoadUser(s)
         \/ Advance(s) \/ WriteUser(s) \/ InsertAccount(s)
         \/ CommitAnswerLost(s) \/ Fail(s) \/ AbortDeadlock(s),
         outcome'[r] = "committed", outcome[r] # "committed"
  PROVE  r = s /\ Commit(r)
<1>1. outcome \in [Requests -> Outcomes]
  BY DEF WritePathInv, TypeOK
<1>2. ASSUME NEW x, End(s, x), x # "committed" PROVE FALSE
  BY <1>1, <1>2 DEF End
<1>3. CASE RefuseRegistration(s)
  <2>1. PICK raw \in RawEmails : Rollback(s, EmailRefusal(EmailOf[raw]))
    BY <1>3 DEF RefuseRegistration
  <2>2. EmailRefusal(EmailOf[raw]) # "committed"
    BY DEF EmailRefusal, Accepted
  <2> QED
    BY <1>2, <2>1, <2>2 DEF Rollback
<1>4. CASE StartRegistration(s) \/ LoadUser(s)
  BY <1>1, <1>4 DEF StartRegistration, LoadUser
<1>5. CASE Advance(s)
  <2>1. CASE MethodThrows(s)
    <3>1. PICK reason \in Refusals(user[s]) : Rollback(s, reason)
      BY <2>1 DEF MethodThrows
    <3>2. reason # "committed"
      BY DEF Refusals, LinkRefusal, UnlinkRefusal, Accepted
    <3> QED
      BY <1>2, <3>1, <3>2 DEF Rollback
  <2>2. CASE Commit(s)
    BY <1>1, <2>2 DEF Commit, End
  <2>3. CASE HashPassword(s) \/ LoadPassword(s) \/ LoadAccounts(s) \/ CallMethod(s)
               \/ SavePassword(s) \/ DeleteAccounts(s) \/ FinishSave(s)
               \/ CallAnotherMethod(s)
    BY <2>3 DEF HashPassword, LoadPassword, LoadAccounts, CallMethod, SavePassword,
           DeleteAccounts, FinishSave, CallAnotherMethod
  <2> QED
    BY <1>5, <2>1, <2>2, <2>3 DEF Advance
<1>6. CASE WriteUser(s)
  BY <1>2, <1>6 DEF WriteUser, InsertUser, InsertUserFails, UpdateUser,
     UpdateUserMatchesNothing, WriteUserRow, Rollback
<1>7. CASE InsertAccount(s)
  <2>1. Rollback(s, "KEY_VIOLATION") \/ UNCHANGED outcome
    BY <1>7 DEF InsertAccount
  <2> QED
    BY <1>2, <2>1 DEF Rollback
<1>8. CASE CommitAnswerLost(s) \/ Fail(s) \/ AbortDeadlock(s)
  BY <1>2, <1>8 DEF CommitAnswerLost, Fail, AbortDeadlock, Rollback
<1> QED
  BY <1>3, <1>4, <1>5, <1>6, <1>7, <1>8

(* A change of a stored user is a commit: of what its request had loaded, by *)
(* what its methods make of it.                                              *)
LEMMA ReplacementsAreCommits ==
  ASSUME WritePathInv, [Next]_vars, NEW u \in UserIds, Stored(u),
         StoredUser(u)' # StoredUser(u)
  PROVE  \E r \in Requests : /\ userId[r] = u
                             /\ base[r] = StoredUser(u)
                             /\ user[r] = StoredUser(u)'
                             /\ user[r] \in Reach(base[r])
<1>1. ~UNCHANGED tables
  BY DEF tables, StoredUser, Stored
<1>2. PICK r \in Requests : pc[r] = "saved" /\ Publish(r)
  BY <1>1, StepsOnUsers
<1>3. userId[r] = u /\ user[r] = StoredUser(u)'
  BY <1>2, CommitOnUsers
<1>4. Changing(r)
  <2>1. Registering(r) \/ Changing(r)
    BY <1>2, SavedIsWritten
  <2> QED
    BY <1>3, <2>1 DEF WritePathInv, RequestInv, RegisteringInv
<1> QED
  BY <1>2, <1>3, <1>4, PublishedIsSaved

LEMMA SuccessesAreStored ==
  ASSUME WritePathInv, [Next]_vars PROVE SuccessIsStored
<1> SUFFICES ASSUME NEW r \in Requests, outcome'[r] = "committed", outcome[r] # "committed"
             PROVE  \E u \in UserIds : userId[r] = u /\ StoredUser(u)' = user[r]
  BY DEF SuccessIsStored
<1>1. Next
  BY DEF vars
<1>2. Commit(r)
  BY <1>1, OnlyCommitsReportSuccess DEF Next
<1> QED
  BY <1>2, CommitOnUsers DEF Commit

(* No update is lost: a commit that changes a stored user replaces exactly  *)
(* the aggregate its request had loaded, by exactly the one in its memory,  *)
(* and a request that is told it has committed has its aggregate stored.    *)
THEOREM UpdatesAreNotLost == Spec => NoUpdateIsLost
<1>1. WritePathInv /\ [Next]_vars => [ReplacesWhatWasLoaded /\ SuccessIsStored]_vars
  BY ReplacementsAreCommits, SuccessesAreStored DEF ReplacesWhatWasLoaded
<1> QED
  BY <1>1, WritePathIsConsistent, PTL DEF Spec, NoUpdateIsLost

(* The statement that reports a conflict finds the row at a later version   *)
(* than the loaded one: what the request wrote itself is never the reason.  *)
LEMMA MismatchIsReal ==
  ASSUME WritePathInv, NEW r \in Requests, UpdateUserMatchesNothing(r)
  PROVE  users[userId[r]].version > base[r].version
<1>1. pc[r] = "savingUser" /\ CurrentRow(r) # NoRow /\ CurrentRow(r).version # user[r].version
  BY DEF UpdateUserMatchesNothing, CanWriteUser, VersionMatches
<1>2. userId[r] \in UserIds /\ user[r] \in User /\ RequestInv(r)
  BY <1>1 DEF WritePathInv, RequestInv, IdleInv, Busy
<1>3. ~Holding(r)
  BY <1>1, <1>2 DEF RequestInv, WritesInv, Holding, CurrentRow
<1>4. CurrentRow(r) = users[userId[r]] /\ Stored(userId[r])
  BY <1>1, <1>3 DEF CurrentRow, Holding, Stored
<1>5. Changing(r)
  BY <1>1, <1>2, <1>4 DEF RequestInv, RegisteringInv, Registering, Changing, Saving
<1>6. /\ user[r] \in Successors(base[r])
      /\ base[r].version <= users[userId[r]].version
  BY <1>1, <1>2, <1>3, <1>5 DEF RequestInv, ChangingInv, Saving
<1>7. base[r] \in User /\ base[r].version \in Nat
  BY <1>5 DEF WritePathInv, TypeOK, Changing, User
<1>8. user[r].version = base[r].version
  BY <1>6, <1>7, SuccessorsAreUsers
<1>9. users[userId[r]].version \in Nat
  BY <1>2, <1>4 DEF WritePathInv, TypeOK, UserRow, Stored
<1> QED
  BY <1>1, <1>4, <1>6, <1>7, <1>8, <1>9

(* A conflict is reported only if somebody else wrote the user since it was *)
(* loaded.                                                                  *)
THEOREM NoFalseConflict == Spec => ConflictsAreReal
<1>1. WritePathInv /\ [Next]_vars => [ReportsOnlyRealConflicts]_vars
  <2> SUFFICES ASSUME WritePathInv, [Next]_vars, NEW r \in Requests,
                      outcome'[r] = "STALE_VERSION", outcome[r] # "STALE_VERSION"
               PROVE  users[userId[r]].version > base[r].version
    BY DEF ReportsOnlyRealConflicts
  <2> USE DEF WritePathInv, TypeOK
  <2>1. PICK s \in Requests :
          \/ RefuseRegistration(s) \/ StartRegistration(s) \/ LoadUser(s)
          \/ Advance(s) \/ WriteUser(s) \/ InsertAccount(s)
          \/ CommitAnswerLost(s) \/ Fail(s) \/ AbortDeadlock(s)
    BY DEF Next, vars
  <2>2. ASSUME NEW x, Rollback(s, x), x # "STALE_VERSION" PROVE FALSE
    BY <2>2 DEF Rollback, End
  <2>3. CASE RefuseRegistration(s)
    <3>1. PICK raw \in RawEmails : Rollback(s, EmailRefusal(EmailOf[raw]))
      BY <2>3 DEF RefuseRegistration
    <3>2. EmailRefusal(EmailOf[raw]) # "STALE_VERSION"
      BY DEF EmailRefusal, Accepted
    <3> QED
      BY <2>2, <3>1, <3>2
  <2>4. CASE StartRegistration(s) \/ LoadUser(s)
    BY <2>4 DEF StartRegistration, LoadUser
  <2>5. CASE Advance(s)
    <3>1. CASE MethodThrows(s)
      <4>1. PICK reason \in Refusals(user[s]) : Rollback(s, reason)
        BY <3>1 DEF MethodThrows
      <4>2. reason # "STALE_VERSION"
        BY DEF Refusals, LinkRefusal, UnlinkRefusal, Accepted
      <4> QED
        BY <2>2, <4>1, <4>2
    <3>2. CASE Commit(s)
      BY <3>2 DEF Commit, End
    <3>3. CASE HashPassword(s) \/ LoadPassword(s) \/ LoadAccounts(s) \/ CallMethod(s)
                 \/ SavePassword(s) \/ DeleteAccounts(s) \/ FinishSave(s)
                 \/ CallAnotherMethod(s)
      BY <3>3 DEF HashPassword, LoadPassword, LoadAccounts, CallMethod, SavePassword,
             DeleteAccounts, FinishSave, CallAnotherMethod
    <3> QED
      BY <2>5, <3>1, <3>2, <3>3 DEF Advance
  <2>6. CASE UpdateUserMatchesNothing(s)
    <3>1. s = r
      BY <2>6 DEF UpdateUserMatchesNothing, Rollback, End
    <3> QED
      BY <2>6, <3>1, MismatchIsReal
  <2>7. CASE InsertUser(s) \/ InsertUserFails(s) \/ UpdateUser(s)
    <3>1. CASE InsertUserFails(s)
      BY <2>2, <3>1 DEF InsertUserFails
    <3> QED
      BY <2>7, <3>1 DEF InsertUser, UpdateUser, WriteUserRow
  <2>8. CASE InsertAccount(s)
    <3>1. Rollback(s, "KEY_VIOLATION") \/ UNCHANGED outcome
      BY <2>8 DEF InsertAccount
    <3> QED
      BY <2>2, <3>1
  <2>9. CASE CommitAnswerLost(s)
    BY <2>9 DEF CommitAnswerLost, End
  <2>10. CASE Fail(s) \/ AbortDeadlock(s)
    BY <2>2, <2>10 DEF Fail, AbortDeadlock
  <2> QED
    BY <2>1, <2>3, <2>4, <2>5, <2>6, <2>7, <2>8, <2>9, <2>10 DEF WriteUser
<1> QED
  BY <1>1, WritePathIsConsistent, PTL DEF Spec, ConflictsAreReal

(* Every stored user can sign in, has one account per provider and accounts *)
(* that their ids tell apart.                                               *)
StoredSound == \A u \in UserIds : Stored(u) => Sound(StoredUser(u))

LEMMA NextSound == WritePathInv /\ StoredSound /\ [Next]_vars => StoredSound'
<1> SUFFICES ASSUME WritePathInv, StoredSound, [Next]_vars,
                    NEW u \in UserIds, Stored(u)'
             PROVE  Sound(StoredUser(u)')
  BY DEF StoredSound
<1>1. CASE UNCHANGED tables
  BY <1>1 DEF tables, StoredSound, StoredUser, Stored
<1>2. ASSUME NEW r \in Requests, pc[r] = "saved", Publish(r)
      PROVE  Sound(StoredUser(u)')
  <2>1. StoredUser(u)' = IF u = userId[r] THEN user[r] ELSE StoredUser(u)
    BY <1>2, CommitOnUsers
  <2>2. CASE u # userId[r]
    <3>1. Stored(u)
      BY <1>2, <2>2 DEF Publish, Stored, WritePathInv, TypeOK
    <3> QED
      BY <2>1, <2>2, <3>1 DEF StoredSound
  <2>3. CASE u = userId[r] /\ Registering(r)
    <3>1. PICK e \in Emails, h \in Hashes :
            user[r] = Committed(SetPassword(Register(e), h), 1)
      BY <1>2, <2>3 DEF WritePathInv, RequestInv, RegisteringInv
    <3> QED
      BY <2>1, <2>3, <3>1, RegisteredIsSound
  <2>4. CASE u = userId[r] /\ Changing(r)
    <3>1. Stored(u) /\ base[r] = StoredUser(u) /\ user[r] \in Reach(base[r])
      BY <1>2, <2>4, PublishedIsSaved
    <3>2. Sound(base[r])
      BY <3>1 DEF StoredSound
    <3>3. base[r] \in User
      BY <3>1, StoredUsersAreUsers DEF WritePathInv
    <3> QED
      BY <2>1, <2>4, <3>1, <3>2, <3>3, ReachIsSound
  <2> QED
    BY <1>2, <2>2, <2>3, <2>4, SavedIsWritten
<1> QED
  BY <1>1, <1>2, StepsOnUsers

(* Nobody is locked out, however the statements of requests interleave: the *)
(* rows that are committed always hold a way to sign in.                    *)
THEOREM NobodyIsLockedOut == Spec => []EveryStoredUserIsSound
<1>1. Init => StoredSound
  BY DEF Init, StoredSound, Stored
<1>2. StoredSound => EveryStoredUserIsSound
  <2> SUFFICES ASSUME StoredSound, NEW u \in UserIds, Promise!Exists(u)
               PROVE  Promise!Sound(StoredUser(u))
    BY DEF EveryStoredUserIsSound, Promise!EveryUserIsSound, Promise!Exists
  <2>1. Stored(u)
    BY DEF Promise!Exists, StoredUser
  <2>2. Sound(StoredUser(u))
    BY <2>1 DEF StoredSound
  <2> QED
    BY <2>2, SameAggregate
<1> QED
  BY <1>1, <1>2, NextSound, WritePathIsConsistent, PTL DEF Spec

(* The rows of two users never share an address or a provider account. *)
RowsAreApart ==
  \A u, v \in UserIds : u # v /\ Stored(u) /\ Stored(v) =>
    /\ users[u].email # users[v].email
    /\ \A a \in oauthAccounts[u], b \in oauthAccounts[v] : Key(a) # Key(b)

LEMMA NextApart == WritePathInv /\ RowsAreApart /\ [Next]_vars => RowsAreApart'
<1> SUFFICES ASSUME WritePathInv, RowsAreApart, [Next]_vars PROVE RowsAreApart'
  OBVIOUS
<1>1. CASE UNCHANGED tables
  BY <1>1 DEF tables, RowsAreApart, Stored
<1>2. ASSUME NEW r \in Requests, pc[r] = "saved", Publish(r)
      PROVE  RowsAreApart'
  <2> DEFINE w == userId[r]
  <2>1. /\ w \in UserIds /\ tx[r].row # NoRow /\ Holding(r)
        /\ users'[w] = tx[r].row /\ oauthAccounts'[w] = tx[r].inserted
        /\ tx[r].row.email = user[r].email
        /\ \A v \in UserIds \ {w} : users'[v] = users[v] /\ oauthAccounts'[v] = oauthAccounts[v]
    BY <1>2, SavedIsWritten, PublishedIsSaved DEF WritePathInv, RequestInv, WritesInv
  <2>2. ASSUME NEW v \in UserIds \ {w}, Stored(v) PROVE users[v].email # tx[r].row.email
    <3>1. CASE Registering(r)
      BY <2>1, <2>2, <3>1 DEF WritePathInv, EmailInv
    <3>2. CASE Changing(r)
      <4>1. Stored(w) /\ base[r] = StoredUser(w) /\ user[r] \in Reach(base[r])
        BY <1>2, <3>2, PublishedIsSaved
      <4>2. base[r] \in User /\ base[r].email = users[w].email
        BY <2>1, <4>1, StoredUsersAreUsers DEF WritePathInv
      <4>3. user[r].email = users[w].email
        BY <4>1, <4>2, ReachAreUsers
      <4> QED
        BY <2>1, <2>2, <4>1, <4>3 DEF RowsAreApart
    <3> QED
      BY <1>2, <3>1, <3>2, SavedIsWritten
  <2>3. ASSUME NEW v \in UserIds \ {w}, NEW a \in tx[r].inserted, NEW b \in oauthAccounts[v]
        PROVE  Key(a) # Key(b)
    BY <2>3 DEF WritePathInv, KeyInv, KeyIsTaken
  <2> HIDE DEF w
  <2> SUFFICES ASSUME NEW u \in UserIds, NEW v \in UserIds, u # v, Stored(u)', Stored(v)'
               PROVE  /\ users'[u].email # users'[v].email
                      /\ \A a \in oauthAccounts'[u], b \in oauthAccounts'[v] : Key(a) # Key(b)
    BY DEF RowsAreApart
  <2>4. CASE u = w
    BY <2>1, <2>2, <2>3, <2>4 DEF Stored
  <2>5. CASE v = w
    BY <2>1, <2>2, <2>3, <2>5 DEF Stored
  <2>6. CASE u # w /\ v # w
    BY <2>1, <2>6 DEF Stored, RowsAreApart
  <2> QED
    BY <2>4, <2>5, <2>6
<1> QED
  BY <1>1, <1>2, StepsOnUsers

(* An address names one user and a provider account signs in one user,      *)
(* however the statements of registrations and saves interleave.            *)
THEOREM IdentitiesAreUnique == Spec => [](OneUserPerEmail /\ OneUserPerKey)
<1>1. Init => RowsAreApart
  BY DEF Init, RowsAreApart, Stored
<1>2. WritePathInv /\ RowsAreApart => OneUserPerEmail /\ OneUserPerKey
  <2> SUFFICES ASSUME WritePathInv, RowsAreApart,
                      NEW u \in UserIds, NEW v \in UserIds, u # v, Stored(u), Stored(v)
               PROVE  /\ StoredUser(u).email # StoredUser(v).email
                      /\ \A a \in StoredUser(u).accounts, b \in StoredUser(v).accounts :
                           Key(a) # Key(b)
    BY SameAggregate
       DEF OneUserPerEmail, OneUserPerKey, Promise!OneUserPerEmail, Promise!OneUserPerKey,
           Promise!Exists, StoredUser
  <2> QED
    BY DEF RowsAreApart, StoredUser, ToDomain
<1> QED
  BY <1>1, <1>2, NextApart, WritePathIsConsistent, PTL DEF Spec

(* A provider account signs in one user, although saves delete and           *)
(* re-insert their accounts.                                                 *)
THEOREM KeysAreUnique == Spec => []OneUserPerKey
  BY IdentitiesAreUnique, PTL
(* A step takes nothing back from a stored, sound user. *)
LEMMA StepsTakeNothingBack ==
  ASSUME WritePathInv, StoredSound, [Next]_vars, NEW u \in UserIds
  PROVE  Promise!OnlyForward(u)
<1> SUFFICES ASSUME Promise!Exists(u) PROVE Promise!OnlyForward(u)
  BY DEF Promise!OnlyForward
<1>0. Stored(u)
  BY DEF Promise!Exists, StoredUser
<1>1. StoredUser(u) \in User /\ StoredUser(u) # NoUser /\ Sound(StoredUser(u))
  BY <1>0, StoredUsersAreUsers, NullsAreApart DEF WritePathInv, StoredSound
<1>2. CASE StoredUser(u)' = StoredUser(u)
  BY <1>1, <1>2 DEF Promise!OnlyForward
<1>3. CASE StoredUser(u)' # StoredUser(u)
  <2>1. PICK r \in Requests : /\ base[r] = StoredUser(u)
                             /\ user[r] = StoredUser(u)'
                             /\ user[r] \in Reach(base[r])
    BY <1>0, <1>3, ReplacementsAreCommits
  <2>2. user[r] # NoUser
    BY <1>1, <2>1, ReachIsSound, NullsAreApart
  <2> QED
    BY <1>1, <2>1, <2>2, ReachIsSound DEF Promise!OnlyForward
<1> QED
  BY <1>2, <1>3

(* What the abstract specification says of its changes is so of the rows: no *)
(* statement of any request takes back a user, an address, a verification,   *)
(* a suspension or a version that somebody may have seen.                    *)
THEOREM NothingStoredIsTakenBack == Spec => Promise!NothingIsTakenBack
<1>1. Init => StoredSound
  BY DEF Init, StoredSound, Stored
<1>2. WritePathInv /\ StoredSound /\ [Next]_vars =>
        [\A u \in UserIds : Promise!OnlyForward(u)]_([u \in UserIds |-> StoredUser(u)])
  BY StepsTakeNothingBack
<1> QED
  BY <1>1, <1>2, NextSound, WritePathIsConsistent, PTL DEF Spec, Promise!NothingIsTakenBack

(* A verification that was committed is not taken back by the save of a      *)
(* request that had loaded the user before it.                               *)
THEOREM VerificationsAreNotLost == Spec => VerificationsLast
<1>1. Init => StoredSound
  BY DEF Init, StoredSound, Stored
<1>2. WritePathInv /\ StoredSound /\ [Next]_vars =>
        \A u \in UserIds : Stored(u) /\ users[u].verified => Stored(u)' /\ users'[u].verified
  <2> SUFFICES ASSUME WritePathInv, StoredSound, [Next]_vars,
                      NEW u \in UserIds, Stored(u), users[u].verified
               PROVE  Stored(u)' /\ users'[u].verified
    OBVIOUS
  <2>1. Promise!OnlyForward(u)
    BY StepsTakeNothingBack
  <2>2. StoredUser(u) # NoUser /\ StoredUser(u).verified
    BY StoredUsersAreUsers, NullsAreApart DEF WritePathInv, StoredUser, ToDomain
  <2>3. StoredUser(u)' # NoUser /\ StoredUser(u)'.verified
    BY <2>1, <2>2 DEF Promise!OnlyForward, Promise!Exists
  <2> QED
    BY <2>3 DEF StoredUser, ToDomain, Stored
<1> QED
  BY <1>1, <1>2, NextSound, WritePathIsConsistent, PTL DEF Spec, VerificationsLast

-----------------------------------------------------------------------------
(* Who waits for whom. *)

(* Whoever is waited for has written its users row: the first statement of a *)
(* save comes before all that others wait for.                               *)
LEMMA WaitedForHold ==
  ASSUME WritePathInv, NEW q \in Requests, NEW r \in Requests, WaitsFor(q, r)
  PROVE  Holding(r)
<1>1. ~Holding(r) => tx[r] = EmptyTx
  BY DEF WritePathInv, RequestInv, WritesInv
<1> QED
  BY <1>1 DEF WaitsFor, UserRowWaitsFor, HoldsUser, HoldsEmail, HoldsKey, Holding, EmptyTx

(* Who is waited for and waits is inserting the accounts of a user it had    *)
(* loaded.                                                                   *)
LEMMA WaitedForWaitersInsertAccounts ==
  ASSUME WritePathInv, NEW q \in Requests, NEW r \in Requests, NEW s \in Requests,
         WaitsFor(q, r), WaitsFor(r, s)
  PROVE  pc[r] = "insertingAccounts" /\ Changing(r)
<1>1. Holding(r) /\ RequestInv(r)
  BY WaitedForHold DEF WritePathInv
<1>2. ~UserRowWaitsFor(r, s)
  <2> SUFFICES ASSUME UserRowWaitsFor(r, s) PROVE FALSE
    OBVIOUS
  <2>1. HoldsUser(s, userId[r])
    BY <1>1 DEF UserRowWaitsFor, CurrentRow, Holding
  <2> QED
    BY <1>1, <2>1 DEF HoldsUser, Holding, WritePathInv, RowLockInv, WaitsFor
<1>3. pc[r] = "insertingAccounts" /\ ToInsert(r) # {}
  BY <1>2 DEF WaitsFor
<1>4. ~Registering(r)
  <2> SUFFICES ASSUME Registering(r) PROVE FALSE
    OBVIOUS
  <2>1. PICK e \in Emails, h \in Hashes : user[r] = SetPassword(Register(e), h)
    BY <1>1, <1>3 DEF RequestInv, RegisteringInv, Saving, Writing
  <2>2. user[r].accounts = {}
    BY <2>1 DEF SetPassword, Register
  <2> QED
    BY <1>3, <2>2 DEF ToInsert
<1> QED
  BY <1>3, <1>4 DEF Registering, Changing, Saving, Writing

LEMMA CyclesAreOfAccounts ==
  ASSUME WritePathInv, NEW r \in Requests, OnWaitCycle(r)
  PROVE  pc[r] = "insertingAccounts" /\ Changing(r) /\ Holding(r)
<1>1. PICK n \in 1..Cardinality(Requests) : \E p \in [0..n -> Requests] :
        /\ p[0] = r /\ p[n] = r
        /\ \A i \in 0..(n - 1) : WaitsFor(p[i], p[i + 1])
  BY DEF OnWaitCycle
<1>2. PICK path \in [0..n -> Requests] :
        /\ path[0] = r /\ path[n] = r
        /\ \A i \in 0..(n - 1) : WaitsFor(path[i], path[i + 1])
  BY <1>1
<1>3. n \in Nat /\ n >= 1 /\ 0 \in 0..(n - 1) /\ (n - 1) \in 0..(n - 1)
  BY FS_CardinalityType, RequestsAreFinite
<1>4. WaitsFor(path[0], path[0 + 1]) /\ WaitsFor(path[n - 1], path[(n - 1) + 1])
  BY <1>2, <1>3
<1>5. path[1] \in Requests /\ path[n - 1] \in Requests
  BY <1>3
<1>6. 0 + 1 = 1 /\ (n - 1) + 1 = n
  BY <1>3
<1>7. WaitsFor(r, path[1]) /\ WaitsFor(path[n - 1], r)
  BY <1>2, <1>4, <1>6
<1> QED
  BY <1>5, <1>7, WaitedForWaitersInsertAccounts, WaitedForHold

(* However many requests there are, the only ones that deadlock are changes  *)
(* of different users at the last statement of a save                        *)
(* (drizzle-users.repository.ts:83-88): a registration never does.           *)
THEOREM RegistrationsNeverDeadlock == Spec => []OnlyAccountsDeadlock
<1>1. WritePathInv => OnlyAccountsDeadlock
  BY CyclesAreOfAccounts DEF OnlyAccountsDeadlock, Changing, WritePathInv, RowLockInv
<1> QED
  BY <1>1, WritePathIsConsistent, PTL

(* Requests that all wait for each other are on a cycle, some of them: a     *)
(* path that always goes on comes back, as there are finitely many.          *)
LEMMA EndlessWaitsAreCycles ==
  ASSUME NEW T \in SUBSET Requests, T # {}, \A r \in T : \E s \in T : WaitsFor(r, s)
  PROVE  \E r \in T : OnWaitCycle(r)
<1> DEFINE Behind == {e \in T \X T : WaitsFor(e[2], e[1])}
           N == Cardinality(Requests)
<1>1. \A r \in T : \E s \in T : <<s, r>> \in Behind
  OBVIOUS
<1>2. ~IsWellFoundedOn(Behind, T)
  <2> HIDE DEF Behind
  <2> QED
    BY <1>1, WFMin
<1>3. PICK f \in [Nat -> T] : \A n \in Nat : <<f[n + 1], f[n]>> \in Behind
  <2> HIDE DEF Behind
  <2> QED
    BY <1>2 DEF IsWellFoundedOn
<1>4. \A n \in Nat : f[n] \in T /\ WaitsFor(f[n], f[n + 1])
  BY <1>3
<1>5. N \in Nat
  BY FS_CardinalityType, RequestsAreFinite
<1>6. PICK i \in 0..N, j \in 0..N : i < j /\ f[i] = f[j]
  <2> DEFINE g == [n \in 0..N |-> f[n]]
  <2>1. IsFiniteSet(0..N) /\ Cardinality(0..N) = N + 1
    BY <1>5, FS_Interval
  <2>2. g \in [0..N -> Requests]
    BY <1>4, <1>5
  <2>3. \E x, y \in 0..N : x # y /\ g[x] = g[y]
    <3> HIDE DEF g
    <3>1. N < Cardinality(0..N)
      BY <1>5, <2>1
    <3> QED
      BY <2>1, <2>2, <3>1, RequestsAreFinite, FS_PigeonHole
  <2>4. PICK x \in 0..N, y \in 0..N : x # y /\ f[x] = f[y]
    BY <2>3
  <2>5. x < y \/ y < x
    BY <2>4, <1>5
  <2> QED
    BY <2>4, <2>5
<1> DEFINE n == j - i
           path == [k \in 0..n |-> f[i + k]]
<1>7. n \in 1..N /\ i \in Nat /\ \A k \in 0..n : i + k \in Nat
  BY <1>5, <1>6
<1>8. path \in [0..n -> Requests]
  BY <1>4, <1>7
<1>9. path[0] = f[i] /\ path[n] = f[i]
  BY <1>5, <1>6, <1>7
<1>10. \A k \in 0..(n - 1) : WaitsFor(path[k], path[k + 1])
  <2> TAKE k \in 0..(n - 1)
  <2>1. k \in 0..n /\ k + 1 \in 0..n /\ i + k \in Nat /\ i + (k + 1) = (i + k) + 1
    BY <1>7
  <2> QED
    BY <1>4, <2>1
<1>11. OnWaitCycle(f[i])
  <2> HIDE DEF path, n
  <2> QED
    BY <1>7, <1>8, <1>9, <1>10 DEF OnWaitCycle
<1> QED
  BY <1>4, <1>7, <1>11

(* Saves never come to a standstill: of the units of work under way one      *)
(* waits for nobody, or is on a cycle that the deadlock detector breaks.     *)
SomebodyMoves ==
  \A r \in Requests : Busy(r) =>
    \E s \in Requests : /\ Busy(s)
                        /\ OnWaitCycle(s) \/ \A q \in Requests : ~WaitsFor(s, q)

(* That is so for any number of requests: whoever is waited for is under way *)
(* itself, so that requests which all wait have a cycle among them.  It is   *)
(* what EveryUnitOfWorkEnds needs of the states, beside fairness.            *)
THEOREM SavesNeverStandStill == Spec => []SomebodyMoves
<1>1. WritePathInv => SomebodyMoves
  <2> SUFFICES ASSUME WritePathInv, NEW r \in Requests, Busy(r),
                      \A s \in Requests : Busy(s) => \E q \in Requests : WaitsFor(s, q)
               PROVE  \E s \in Requests : Busy(s) /\ OnWaitCycle(s)
    BY DEF SomebodyMoves
  <2> DEFINE T == {s \in Requests : Busy(s)}
  <2>1. ASSUME NEW s \in Requests, NEW q \in Requests, WaitsFor(s, q) PROVE Busy(q)
    <3>1. Holding(q) /\ RequestInv(q)
      BY <2>1, WaitedForHold DEF WritePathInv
    <3> QED
      BY <3>1 DEF RequestInv, IdleInv, Holding, EmptyTx
  <2>2. T # {} /\ \A s \in T : \E q \in T : WaitsFor(s, q)
    BY <2>1
  <2>3. \E s \in T : OnWaitCycle(s)
    <3> HIDE DEF T
    <3> QED
      BY <2>2, EndlessWaitsAreCycles DEF T
  <2> QED
    BY <2>3
<1> QED
  BY <1>1, WritePathIsConsistent, PTL


-----------------------------------------------------------------------------
(* Two registrations of one address *)

(* A registration that has found its address free and has not inserted it. *)
Unsaved(r) == base[r] = NoUser /\ pc[r] \in {"hashing", "savingUser"}

(* Somebody else has it by now. *)
Beaten(r) == Unsaved(r) /\ EmailIsTaken(r)

LEMMA OthersAreLeftAlone ==
  ASSUME WritePathInv, NEW s \in Requests, NEW r \in Requests \ {s},
         \/ RefuseRegistration(s) \/ StartRegistration(s) \/ LoadUser(s)
         \/ Advance(s) \/ WriteUser(s) \/ InsertAccount(s)
         \/ CommitAnswerLost(s) \/ Fail(s) \/ AbortDeadlock(s)
  PROVE  UNCHANGED <<pc[r], user[r], base[r], outcome[r]>>
<1> USE DEF WritePathInv, TypeOK
<1>1. ASSUME NEW x, End(s, x) PROVE UNCHANGED <<pc[r], user[r], base[r], outcome[r]>>
  BY <1>1 DEF End
<1>2. CASE StartRegistration(s) \/ LoadUser(s)
  BY <1>2 DEF StartRegistration, LoadUser
<1>3. CASE Advance(s)
  BY <1>1, <1>3 DEF Advance, HashPassword, LoadPassword, LoadAccounts, CallMethod, MethodThrows,
         SavePassword, DeleteAccounts, FinishSave, CallAnotherMethod, Commit, Rollback
<1>4. CASE WriteUser(s)
  BY <1>1, <1>4 DEF WriteUser, InsertUser, InsertUserFails, UpdateUser, UpdateUserMatchesNothing,
         WriteUserRow, Rollback
<1>5. CASE InsertAccount(s)
  <2>1. Rollback(s, "KEY_VIOLATION") \/ UNCHANGED <<pc, user, base, outcome>>
    BY <1>5 DEF InsertAccount
  <2> QED
    BY <1>1, <2>1 DEF Rollback
<1>6. CASE RefuseRegistration(s) \/ CommitAnswerLost(s) \/ Fail(s) \/ AbortDeadlock(s)
  BY <1>1, <1>6 DEF RefuseRegistration, CommitAnswerLost, Fail, AbortDeadlock, Rollback
<1> QED
  BY <1>2, <1>3, <1>4, <1>5, <1>6

(* A registration begins with an address that is free, and keeps it. *)
LEMMA UnsavedKeepTheirAddress ==
  ASSUME WritePathInv, Next, NEW r \in Requests, Unsaved(r)'
  PROVE  \/ Unsaved(r) /\ user'[r].email = user[r].email
         \/ ~Unsaved(r) /\ UNCHANGED tables /\ ~EmailIsTaken(r)'
<1>1. PICK s \in Requests :
        \/ RefuseRegistration(s) \/ StartRegistration(s) \/ LoadUser(s)
        \/ Advance(s) \/ WriteUser(s) \/ InsertAccount(s)
        \/ CommitAnswerLost(s) \/ Fail(s) \/ AbortDeadlock(s)
  BY DEF Next
<1>2. CASE s # r
  BY <1>1, <1>2, OthersAreLeftAlone DEF Unsaved
<1> SUFFICES ASSUME s = r
             PROVE  \/ Unsaved(r) /\ user'[r].email = user[r].email
                    \/ ~Unsaved(r) /\ UNCHANGED tables /\ ~EmailIsTaken(r)'
  BY <1>2
<1> USE DEF WritePathInv, TypeOK
<1>3. ASSUME NEW x, End(r, x) PROVE FALSE
  BY <1>3 DEF End, Unsaved
<1>4. CASE StartRegistration(r)
  <2>1. PICK raw \in RawEmails :
          /\ EmailRefusal(EmailOf[raw]) = Accepted /\ ~Busy(r)
          /\ user'[r] = Register(EmailOf[raw]) /\ UNCHANGED tables
    BY <1>4 DEF StartRegistration
  <2>2. ~\E u \in UserIds : Stored(u) /\ users[u].email = EmailOf[raw]
    BY <2>1 DEF EmailRefusal, Accepted
  <2>3. user'[r].email = EmailOf[raw]
    BY <2>1 DEF Register
  <2>4. ~EmailIsTaken(r)'
    BY <2>1, <2>2, <2>3 DEF EmailIsTaken, Stored, tables
  <2> QED
    BY <2>1, <2>4 DEF Unsaved, Busy
<1>5. CASE HashPassword(r)
  <2>1. PICK h \in Hashes : user'[r] = SetPassword(user[r], h)
    BY <1>5 DEF HashPassword
  <2>2. user[r] \in User
    BY <1>5 DEF HashPassword, RequestInv, IdleInv, Busy
  <2>3. user'[r].email = user[r].email
    BY <2>1, <2>2 DEF SetPassword, User
  <2> QED
    BY <1>5, <2>3 DEF HashPassword, Unsaved
<1>6. CASE CallMethod(r) \/ CallAnotherMethod(r)
  <2>1. base[r] # NoUser /\ UNCHANGED base
    BY <1>6 DEF CallMethod, CallAnotherMethod, RequestInv, ChangingInv, Changing
  <2> QED
    BY <2>1 DEF Unsaved
<1>7. CASE InsertAccount(r)
  <2>1. pc[r] = "insertingAccounts" /\ (Rollback(r, "KEY_VIOLATION") \/ UNCHANGED pc)
    BY <1>7 DEF InsertAccount
  <2> QED
    BY <1>3, <2>1 DEF Unsaved, Rollback
<1>8. CASE Advance(r)
  BY <1>3, <1>5, <1>6, <1>8 DEF Advance, LoadPassword, LoadAccounts, MethodThrows,
     SavePassword, DeleteAccounts, FinishSave, Commit, Rollback, Unsaved
<1>9. CASE WriteUser(r)
  BY <1>3, <1>9 DEF WriteUser, InsertUser, InsertUserFails, UpdateUser,
     UpdateUserMatchesNothing, WriteUserRow, Rollback, Unsaved
<1>10. CASE LoadUser(r)
  BY <1>10 DEF LoadUser, Unsaved
<1> QED
  BY <1>1, <1>3, <1>4, <1>7, <1>8, <1>9, <1>10
     DEF RefuseRegistration, CommitAnswerLost, Fail, AbortDeadlock, Rollback

(* Nobody but another registration of the address, which was under way at    *)
(* the same time, takes it from one that has found it free.                  *)
OnlyRivalsBeat ==
  \A r \in Requests : Beaten(r)' /\ ~Beaten(r) =>
    /\ Unsaved(r)
    /\ \E s \in Requests \ {r} :
         Registering(s) /\ pc[s] = "saved" /\ user[s].email = user[r].email

LEMMA RivalsBeat == WritePathInv /\ [Next]_vars => OnlyRivalsBeat
<1> SUFFICES ASSUME WritePathInv, [Next]_vars, NEW r \in Requests, Beaten(r)', ~Beaten(r)
             PROVE  /\ Unsaved(r)
                    /\ \E s \in Requests \ {r} :
                         Registering(s) /\ pc[s] = "saved" /\ user[s].email = user[r].email
  BY DEF OnlyRivalsBeat
<1>1. Next
  <2> SUFFICES ASSUME UNCHANGED vars PROVE FALSE
    OBVIOUS
  <2> QED
    BY DEF vars, Beaten, Unsaved, EmailIsTaken, Stored
<1>2. Unsaved(r) /\ user'[r].email = user[r].email /\ ~EmailIsTaken(r)
  BY <1>1, UnsavedKeepTheirAddress DEF Beaten
<1>3. PICK u \in UserIds : Stored(u)' /\ users'[u].email = user[r].email
  BY <1>2 DEF Beaten, EmailIsTaken
<1>4. ~(Stored(u) /\ users[u].email = user[r].email)
  BY <1>2 DEF EmailIsTaken
<1>5. ~UNCHANGED tables
  BY <1>3, <1>4 DEF tables, Stored
<1>6. PICK s \in Requests : pc[s] = "saved" /\ Publish(s)
  BY <1>5, StepsOnUsers
<1>7. s # r
  BY <1>2, <1>6 DEF Unsaved
<1>8. /\ userId[s] = u
      /\ users'[u] = ToRow(user[s], user[s].version) /\ user[s] \in User
  BY <1>3, <1>4, <1>6, SavedIsWritten, PublishedIsSaved DEF Stored
<1>9. user[s].email = user[r].email
  BY <1>3, <1>8 DEF ToRow
<1>10. ~Changing(s)
  <2> SUFFICES ASSUME Changing(s) PROVE FALSE
    OBVIOUS
  <2>1. Stored(u) /\ base[s] = StoredUser(u) /\ user[s] \in Reach(base[s])
    BY <1>6, <1>8, PublishedIsSaved
  <2>2. base[s] \in User /\ base[s].email = users[u].email
    BY <2>1, StoredUsersAreUsers DEF WritePathInv
  <2>3. user[s].email = users[u].email
    BY <2>1, <2>2, ReachAreUsers
  <2> QED
    BY <1>4, <1>9, <2>1, <2>3
<1> QED
  BY <1>2, <1>6, <1>7, <1>9, <1>10, SavedIsWritten

(* What the unique index refuses was found free and is taken by now. *)
OnlyTheBeatenFail ==
  \A r \in Requests : outcome'[r] = "EMAIL_VIOLATION" /\ outcome[r] # "EMAIL_VIOLATION" =>
    Beaten(r)

LEMMA TheBeatenFail == WritePathInv /\ [Next]_vars => OnlyTheBeatenFail
<1> SUFFICES ASSUME WritePathInv, [Next]_vars, NEW r \in Requests,
                    outcome'[r] = "EMAIL_VIOLATION", outcome[r] # "EMAIL_VIOLATION"
             PROVE  Beaten(r)
  BY DEF OnlyTheBeatenFail
<1> USE DEF WritePathInv, TypeOK
<1>1. PICK s \in Requests :
        \/ RefuseRegistration(s) \/ StartRegistration(s) \/ LoadUser(s)
        \/ Advance(s) \/ WriteUser(s) \/ InsertAccount(s)
        \/ CommitAnswerLost(s) \/ Fail(s) \/ AbortDeadlock(s)
  BY DEF Next, vars
<1>2. s = r
  BY <1>1, OthersAreLeftAlone
<1>3. ASSUME NEW x, End(r, x), x # "EMAIL_VIOLATION" PROVE FALSE
  BY <1>3 DEF End
<1>4. CASE InsertUserFails(r)
  <2>1. pc[r] = "savingUser" /\ CurrentRow(r) = NoRow /\ EmailIsTaken(r)
    BY <1>4 DEF InsertUserFails, CanWriteUser
  <2>2. ~Changing(r)
    BY <2>1 DEF CurrentRow, RequestInv, ChangingInv, Stored
  <2> QED
    BY <2>1, <2>2 DEF Beaten, Unsaved, Changing
<1>5. CASE RefuseRegistration(r)
  <2>1. PICK raw \in RawEmails : Rollback(r, EmailRefusal(EmailOf[raw]))
    BY <1>5 DEF RefuseRegistration
  <2>2. EmailRefusal(EmailOf[raw]) # "EMAIL_VIOLATION"
    BY DEF EmailRefusal, Accepted
  <2> QED
    BY <1>3, <2>1, <2>2 DEF Rollback
<1>6. CASE StartRegistration(r) \/ LoadUser(r)
  BY <1>6 DEF StartRegistration, LoadUser
<1>7. CASE MethodThrows(r)
  <2>1. PICK reason \in Refusals(user[r]) : Rollback(r, reason)
    BY <1>7 DEF MethodThrows
  <2>2. reason # "EMAIL_VIOLATION"
    BY DEF Refusals, LinkRefusal, UnlinkRefusal, Accepted
  <2> QED
    BY <1>3, <2>1, <2>2 DEF Rollback
<1>8. CASE Advance(r)
  BY <1>3, <1>7, <1>8 DEF Advance, HashPassword, LoadPassword, LoadAccounts, CallMethod,
     SavePassword, DeleteAccounts, FinishSave, CallAnotherMethod, Commit
<1>9. CASE WriteUser(r)
  BY <1>3, <1>4, <1>9 DEF WriteUser, InsertUser, UpdateUser, UpdateUserMatchesNothing,
     WriteUserRow, Rollback
<1>10. CASE InsertAccount(r)
  <2>1. Rollback(r, "KEY_VIOLATION") \/ UNCHANGED outcome
    BY <1>10 DEF InsertAccount
  <2> QED
    BY <1>3, <2>1 DEF Rollback
<1>11. CASE CommitAnswerLost(r) \/ Fail(r) \/ AbortDeadlock(r)
  BY <1>3, <1>11 DEF CommitAnswerLost, Fail, AbortDeadlock, Rollback
<1> QED
  BY <1>1, <1>2, <1>5, <1>6, <1>8, <1>9, <1>10, <1>11

(* A registration ends in the unique violation of its address only if it was *)
(* beaten by another registration of it, between its own check and its own   *)
(* INSERT (register-user.handler.ts:51-58): a race is the only way.          *)
THEOREM OnlyRacesViolate == Spec => [][OnlyRivalsBeat /\ OnlyTheBeatenFail]_vars
<1>1. WritePathInv /\ [Next]_vars => [OnlyRivalsBeat /\ OnlyTheBeatenFail]_vars
  BY RivalsBeat, TheBeatenFail
<1> QED
  BY <1>1, WritePathIsConsistent, PTL DEF Spec

(* Where units of work do not overlap, a taken address is always answered as *)
(* register-user.ts:27 documents it.                                         *)
THEOREM AloneTakenEmailsAreReported ==
  ASSUME \A r, s \in Requests : r = s
  PROVE  Spec => []TakenEmailIsReported
<1> DEFINE Unbeaten == \A r \in Requests : ~Beaten(r)
<1>1. Init => Unbeaten /\ TakenEmailIsReported
  BY DEF Init, Beaten, Unsaved, TakenEmailIsReported
<1>2. WritePathInv /\ Unbeaten /\ TakenEmailIsReported /\ [Next]_vars =>
        (Unbeaten /\ TakenEmailIsReported)'
  <2> SUFFICES ASSUME WritePathInv, Unbeaten, TakenEmailIsReported, [Next]_vars
               PROVE  Unbeaten' /\ TakenEmailIsReported'
    OBVIOUS
  <2>1. OnlyRivalsBeat /\ OnlyTheBeatenFail
    BY RivalsBeat, TheBeatenFail
  <2> QED
    BY <2>1 DEF OnlyRivalsBeat, OnlyTheBeatenFail, TakenEmailIsReported
<1> HIDE DEF Unbeaten
<1> QED
  BY <1>1, <1>2, WritePathIsConsistent, PTL DEF Spec
=============================================================================
