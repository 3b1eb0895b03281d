--------------------------- MODULE AtomicAccounts ---------------------------
(***************************************************************************)
(* What the write path promises: every unit of work on a user happens at   *)
(* one instant, on the whole aggregate.  UsersWritePath, with its          *)
(* statements, locks and versions, implements this specification.          *)
(***************************************************************************)
EXTENDS UserAggregate

CONSTANTS
  UserIds,     \* ids UserId.next() may draw
  NoUser,      \* no user is stored under an id
  MaxVersion   \* bound: no unit of work starts on a user of this version

ASSUME NoUserIsNotAUser == NoUser \notin User
ASSUME MaxVersionIsPositive == MaxVersion \in Nat \ {0}

VARIABLE accounts   \* the committed aggregate of every id

Exists(u) == accounts[u] # NoUser

Init == accounts = [u \in UserIds |-> NoUser]

EmailIsFree(email) == \A u \in UserIds : Exists(u) => accounts[u].email # email

KeysAreFree(u, after) ==
  \A v \in UserIds \ {u} : Exists(v) =>
    \A a \in after.accounts, b \in accounts[v].accounts : Key(a) # Key(b)

RegisterUser(u, email, hash) ==
  /\ ~Exists(u)
  /\ EmailIsFree(email)
  /\ accounts' = [accounts EXCEPT ![u] = Committed(SetPassword(Register(email), hash), 1)]

ChangeUser(u) ==
  /\ Exists(u)
  /\ accounts[u].version < MaxVersion
  /\ \E after \in Reach(accounts[u]) :
       /\ accounts' = [accounts EXCEPT ![u] = after]
       /\ KeysAreFree(u, after)

Next ==
  \E u \in UserIds :
    \/ \E email \in Emails, hash \in Hashes : RegisterUser(u, email, hash)
    \/ ChangeUser(u)

Spec == Init /\ [][Next]_accounts

-----------------------------------------------------------------------------
TypeOK == accounts \in [UserIds -> User \cup {NoUser}]

(* Nobody is locked out: every stored user keeps a way to sign in, one     *)
(* account per provider at most, and accounts an id tells apart            *)
(* (user.entity.ts: the guards of unlink and linkOAuth).                   *)
EveryUserIsSound == \A u \in UserIds : Exists(u) => Sound(accounts[u])

(* An address names one user: the unique index on users.email behind the   *)
(* pre-check of RegisterUserHandler.                                       *)
OneUserPerEmail ==
  \A u, v \in UserIds :
    Exists(u) /\ Exists(v) /\ accounts[u].email = accounts[v].email => u = v

(* A provider account signs in one user: the unique index on               *)
(* (provider, provider_account_id).                                        *)
OneUserPerKey ==
  \A u, v \in UserIds : Exists(u) /\ Exists(v) =>
    \A a \in accounts[u].accounts, b \in accounts[v].accounts :
      Key(a) = Key(b) => u = v

OnlyForward(u) ==
  Exists(u) =>
    /\ accounts'[u] # NoUser
    /\ accounts'[u].email = accounts[u].email
    /\ accounts[u].verified => accounts'[u].verified
    /\ accounts[u].status = "suspended" => accounts'[u].status = "suspended"
    /\ accounts'[u] # accounts[u] => accounts'[u].version > accounts[u].version

(* Whatever a change does, it never un-verifies or re-addresses a user,    *)
(* re-activates a suspended one, or leaves the version where it was, and   *)
(* no user disappears.                                                     *)
NothingIsTakenBack == [][\A u \in UserIds : OnlyForward(u)]_accounts
=============================================================================
