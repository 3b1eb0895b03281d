---------------------- MODULE UsersWritePathInvariant ----------------------
(***************************************************************************)
(* Why the write path keeps its promise: the inductive invariant behind    *)
(* ImplementsAtomicAccounts.  It says, for each place a request can be at, *)
(* how its memory and its uncommitted writes relate to the committed rows, *)
(* and what two requests can never hold at once.                           *)
(***************************************************************************)
EXTENDS UsersWritePath

Holding(r) == tx[r].row # NoRow

Writing == {"savingPassword", "deletingAccounts", "insertingAccounts"}
Saving == {"savingUser"} \cup Writing

Registering(r) == base[r] = NoUser /\ pc[r] \in {"hashing", "saved"} \cup Saving
Loading(r) == pc[r] \in {"loadingPassword", "loadingAccounts"}
Changing(r) == base[r] # NoUser

IdleInv(r) ==
  IF Busy(r)
    THEN userId[r] \in UserIds /\ user[r] \in User
    ELSE userId[r] = NoUserId /\ user[r] = NoUser /\ base[r] = NoUser /\ tx[r] = EmptyTx

(* A registration works on an id nobody else knows. *)
RegisteringInv(r) ==
  Registering(r) =>
    /\ ~Stored(userId[r])
    /\ \A s \in Requests \ {r} : userId[s] # userId[r]
    /\ pc[r] = "hashing" => \E e \in Emails : user[r] = Register(e)
    /\ pc[r] \in Saving =>
         \E e \in Emails, h \in Hashes : user[r] = SetPassword(Register(e), h)
    /\ pc[r] = "saved" =>
         \E e \in Emails, h \in Hashes : user[r] = Committed(SetPassword(Register(e), h), 1)

(* What load() has read so far is what is stored, or is known to be older. *)
LoadingInv(r) ==
  Loading(r) =>
    /\ base[r] = NoUser
    /\ Stored(userId[r])
    /\ user[r].version < MaxVersion
    /\ user[r].version <= users[userId[r]].version
    /\ user[r].version = users[userId[r]].version =>
         /\ ToRow(user[r], user[r].version) = users[userId[r]]
         /\ pc[r] = "loadingAccounts" => user[r].password = passwords[userId[r]]

(* The loaded aggregate is the stored one, or is known to be older; the one *)
(* in memory is what the methods called so far make of it.                  *)
ChangingInv(r) ==
  /\ pc[r] = "deciding" => Changing(r)
  /\ Changing(r) =>
    /\ pc[r] \in {"deciding", "saved"} \cup Saving
    /\ Stored(userId[r])
    /\ base[r].version < MaxVersion
    /\ base[r].version <= users[userId[r]].version
    /\ base[r].version = users[userId[r]].version => base[r] = StoredUser(userId[r])
    /\ pc[r] = "deciding" => user[r] = base[r]
    /\ pc[r] \in Saving =>
         \/ user[r] \in Successors(base[r]) /\ (pc[r] = "savingUser" => ~Holding(r))
         \/ /\ Holding(r)
            /\ \E mid \in Updated(base[r]) : user[r] \in Successors(mid)
    /\ pc[r] = "saved" => user[r] \in Reach(base[r])

(* A request that holds the users row has written, up to the statement it  *)
(* is at, what its memory says, and nobody has written the user since it   *)
(* was loaded.                                                             *)
WritesInv(r) ==
  /\ ~Holding(r) => tx[r] = EmptyTx
  /\ Holding(r) =>
       /\ pc[r] \in {"saved"} \cup Saving
       /\ Changing(r) => base[r].version = users[userId[r]].version
       /\ tx[r].row.email = user[r].email
  /\ pc[r] = "savingUser" /\ Holding(r) => Changing(r) /\ tx[r].row.version = user[r].version
  /\ pc[r] \in Writing => tx[r].row = ToRow(user[r], user[r].version + 1)
  /\ pc[r] = "saved" =>
       /\ tx[r].row = ToRow(user[r], user[r].version)
       /\ tx[r].inserted = user[r].accounts
  /\ pc[r] \in {"deletingAccounts", "insertingAccounts", "saved"} =>
       tx[r].password = user[r].password
  /\ pc[r] \in {"insertingAccounts", "saved"} =>
       tx[r].deleted /\ tx[r].inserted \subseteq user[r].accounts

(* Two requests never hold the same users row. *)
RowLockInv ==
  \A r, s \in Requests : r # s /\ Holding(r) /\ Holding(s) => userId[r] # userId[s]

(* A registration that has inserted its row holds its address alone. *)
EmailInv ==
  \A r \in Requests : Registering(r) /\ Holding(r) =>
    /\ \A v \in UserIds : Stored(v) => users[v].email # tx[r].row.email
    /\ \A s \in Requests \ {r} : Holding(s) => tx[s].row.email # tx[r].row.email

(* A request that has inserted an account holds its key alone. *)
KeyInv ==
  \A r \in Requests : \A a \in tx[r].inserted :
    /\ ~KeyIsTaken(userId[r], Key(a))
    /\ \A s \in Requests \ {r} : \A b \in tx[s].inserted : Key(a) # Key(b)

RequestInv(r) ==
  IdleInv(r) /\ RegisteringInv(r) /\ LoadingInv(r) /\ ChangingInv(r) /\ WritesInv(r)

WritePathInv ==
  /\ TypeOK
  /\ \A r \in Requests : RequestInv(r)
  /\ RowLockInv /\ EmailInv /\ KeyInv
=============================================================================
