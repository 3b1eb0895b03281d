---------------------------- MODULE UserAggregate ----------------------------
(***************************************************************************)
(* The User aggregate: an account and every way its owner can sign in, as  *)
(* src/identity/domain/entities/user.entity.ts defines it.  Everything     *)
(* here is an operator on a user; the modules that extend this one hold    *)
(* the state.                                                              *)
(*                                                                         *)
(* Abstractions.  A user's id is the key it is stored under, not a field.  *)
(* Timestamps are left out, except that emailVerifiedAt tells a verified   *)
(* address from an unverified one.  The accounts are a set: nothing in the *)
(* aggregate reads their order.  OAuthAccountId.next() draws an id that no *)
(* account of the user has; ids of different users are never compared.  A  *)
(* profile vouches if the provider has verified an address and it is the   *)
(* user's.                                                                 *)
(***************************************************************************)
EXTENDS Naturals, FiniteSets

CONSTANTS
  Emails,       \* normalised addresses
  Providers,    \* identity providers
  ExternalIds,  \* a provider's ids for its own accounts
  AccountIds,   \* ids of linked accounts
  Hashes,       \* stored password hashes
  NoPassword,   \* the null of the password credential
  Profiles,     \* the profiles providers may answer with
  Operations    \* the aggregate methods the callers use

OperationNames == {"setPassword", "linkOAuth", "unlink", "verifyEmail", "suspend"}

ASSUME NoPasswordIsNotAHash == NoPassword \notin Hashes
ASSUME ProfilesAreProfiles ==
  Profiles \subseteq [provider : Providers, externalId : ExternalIds, vouches : BOOLEAN]
ASSUME OperationsAreMethods == Operations \subseteq OperationNames

Account == [id : AccountIds, provider : Providers, externalId : ExternalIds]

Key(account) == <<account.provider, account.externalId>>

Statuses == {"active", "suspended"}

User ==
  [email    : Emails,
   verified : BOOLEAN,
   status   : Statuses,
   password : Hashes \cup {NoPassword},
   accounts : {S \in SUBSET Account : IsFiniteSet(S)},
   version  : Nat]

PasswordRef == [kind |-> "password"]
MethodRef == {PasswordRef} \cup [kind : {"oauth"}, id : AccountIds]

-----------------------------------------------------------------------------
(* The methods.  Refused methods throw and leave the user alone; Accepted    *)
(* stands for "does not throw".                                              *)

Accepted == "accepted"

Register(email) ==
  [email |-> email, verified |-> FALSE, status |-> "active",
   password |-> NoPassword, accounts |-> {}, version |-> 0]

MethodCount(user) ==
  (IF user.password = NoPassword THEN 0 ELSE 1) + Cardinality(user.accounts)

HasOAuthAccount(user, provider) == \E a \in user.accounts : a.provider = provider

SetPassword(user, hash) == [user EXCEPT !.password = hash]

LinkRefusal(user, profile) ==
  IF HasOAuthAccount(user, profile.provider) THEN "ALREADY_LINKED" ELSE Accepted

FreshIds(user) == AccountIds \ {a.id : a \in user.accounts}

LinkOAuth(user, profile, id) ==
  [user EXCEPT
     !.accounts = @ \cup {[id |-> id, provider |-> profile.provider,
                           externalId |-> profile.externalId]},
     !.verified = @ \/ profile.vouches]

IsLinked(user, ref) ==
  IF ref = PasswordRef THEN user.password # NoPassword
                       ELSE \E a \in user.accounts : a.id = ref.id

(* Bug: the guard lets the last method go. *)
UnlinkRefusalOffByOne(user, ref) ==
  IF MethodCount(user) < 1 THEN "LAST_METHOD"
  ELSE IF ~IsLinked(user, ref) THEN "NOT_LINKED" ELSE Accepted

UnlinkRefusal(user, ref) ==
  IF MethodCount(user) <= 1 THEN "LAST_METHOD"
  ELSE IF ~IsLinked(user, ref) THEN "NOT_LINKED" ELSE Accepted

Unlink(user, ref) ==
  IF ref = PasswordRef
    THEN [user EXCEPT !.password = NoPassword]
    ELSE [user EXCEPT !.accounts = {a \in @ : a.id # ref.id}]

VerifyEmail(user) == [user EXCEPT !.verified = TRUE]

Suspend(user) == [user EXCEPT !.status = "suspended"]

Committed(user, version) == [user EXCEPT !.version = version]

-----------------------------------------------------------------------------
(* What a caller of one method can leave behind, and can be refused with. *)

Results(user) ==
  [setPassword |-> {SetPassword(user, h) : h \in Hashes},
   linkOAuth   |-> {LinkOAuth(user, p, id) :
                      p  \in {q \in Profiles : LinkRefusal(user, q) = Accepted},
                      id \in FreshIds(user)},
   unlink      |-> {Unlink(user, ref) :
                      ref \in {r \in MethodRef : UnlinkRefusal(user, r) = Accepted}},
   verifyEmail |-> {VerifyEmail(user)},
   suspend     |-> {Suspend(user)}]

Successors(user) ==
  LET results == Results(user) IN UNION {results[op] : op \in Operations}

(* A unit of work calls one method and saves, once or twice. *)
Updated(user) == {Committed(after, user.version + 1) : after \in Successors(user)}
Reach(user) == Updated(user) \cup UNION {Updated(mid) : mid \in Updated(user)}

Refusals(user) ==
  (  (IF "linkOAuth" \in Operations
        THEN {LinkRefusal(user, p) : p \in Profiles} ELSE {})
   \cup
     (IF "unlink" \in Operations
        THEN {UnlinkRefusal(user, r) : r \in MethodRef} ELSE {}) )
  \ {Accepted}

-----------------------------------------------------------------------------
(* What the aggregate promises of every user it lets a caller save. *)

CanSignIn(user) == MethodCount(user) >= 1

OneAccountPerProviderOf(user) ==
  \A a, b \in user.accounts : a.provider = b.provider => a = b

DistinctIds(user) == \A a, b \in user.accounts : a.id = b.id => a = b

Sound(user) == CanSignIn(user) /\ OneAccountPerProviderOf(user) /\ DistinctIds(user)
=============================================================================
