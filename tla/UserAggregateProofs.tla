------------------------ MODULE UserAggregateProofs ------------------------
(* Lemmas about the methods of the User aggregate, for every value of the    *)
(* constants.                                                                *)
EXTENDS UserAggregate, TLAPS, FiniteSetTheorems

(* The number of methods is a natural number, and it is positive when there  *)
(* is a password or an account: MethodCount counts what it says.             *)
LEMMA MethodCountIsNat ==
  ASSUME NEW a \in User
  PROVE  /\ MethodCount(a) \in Nat
         /\ Cardinality(a.accounts) \in Nat
         /\ CanSignIn(a) <=> a.password # NoPassword \/ a.accounts # {}
<1>1. IsFiniteSet(a.accounts)
  BY DEF User
<1>2. Cardinality(a.accounts) \in Nat
  BY <1>1, FS_CardinalityType
<1>3. Cardinality(a.accounts) = 0 <=> a.accounts = {}
  BY <1>1, FS_EmptySet
<1> QED
  BY <1>2, <1>3 DEF MethodCount, CanSignIn

(* setPassword leaves a sound user sound, even one that had no method. *)
LEMMA SetPasswordIsSound ==
  ASSUME NEW a \in User, NEW h \in Hashes,
         OneAccountPerProviderOf(a), DistinctIds(a)
  PROVE  SetPassword(a, h) \in User /\ Sound(SetPassword(a, h))
<1> DEFINE b == SetPassword(a, h)
<1>1. b \in User
  BY DEF SetPassword, User
<1>2. b.accounts = a.accounts /\ b.password = h
  BY DEF SetPassword, User
<1>3. CanSignIn(b)
  BY <1>1, <1>2, MethodCountIsNat, NoPasswordIsNotAHash
<1> QED
  BY <1>1, <1>2, <1>3 DEF Sound, OneAccountPerProviderOf, DistinctIds

(* An accepted linkOAuth adds an account of a new provider under a new id. *)
LEMMA LinkOAuthIsSound ==
  ASSUME NEW a \in User, Sound(a), NEW p \in Profiles, NEW id \in FreshIds(a),
         LinkRefusal(a, p) = Accepted
  PROVE  LinkOAuth(a, p, id) \in User /\ Sound(LinkOAuth(a, p, id))
<1> DEFINE new == [id |-> id, provider |-> p.provider, externalId |-> p.externalId]
           b == LinkOAuth(a, p, id)
<1>1. new \in Account /\ p.vouches \in BOOLEAN
  BY ProfilesAreProfiles DEF FreshIds, Account
<1>2. IsFiniteSet(a.accounts \cup {new})
  <2>1. IsFiniteSet(a.accounts)
    BY DEF User
  <2> HIDE DEF new
  <2> QED
    BY <2>1, FS_AddElement
<1>3. b.accounts = a.accounts \cup {new}
  BY DEF LinkOAuth, User
<1>4. b \in User
  <2>1. (a.verified \/ p.vouches) \in BOOLEAN
    BY <1>1 DEF User
  <2>2. a.accounts \cup {new} \in {S \in SUBSET Account : IsFiniteSet(S)}
    BY <1>1, <1>2 DEF User
  <2> QED
    BY <2>1, <2>2 DEF LinkOAuth, User
<1>5. CanSignIn(b)
  BY <1>3, <1>4, MethodCountIsNat
<1>6. \A x \in a.accounts : x.provider # new.provider /\ x.id # new.id
  BY DEF LinkRefusal, HasOAuthAccount, Accepted, FreshIds
<1> QED
  BY <1>3, <1>4, <1>5, <1>6 DEF Sound, OneAccountPerProviderOf, DistinctIds

(* An accepted unlink takes away one method of at least two: the guard       *)
(* "methodCount <= 1" of user.entity.ts:139 is exactly strong enough.        *)
LEMMA UnlinkIsSound ==
  ASSUME NEW a \in User, Sound(a), NEW ref \in MethodRef,
         UnlinkRefusal(a, ref) = Accepted
  PROVE  Unlink(a, ref) \in User /\ Sound(Unlink(a, ref))
<1> DEFINE b == Unlink(a, ref)
<1>0. MethodCount(a) > 1 /\ IsLinked(a, ref)
  BY MethodCountIsNat DEF UnlinkRefusal, Accepted
<1>1. IsFiniteSet(a.accounts)
  BY DEF User
<1>2. CASE ref = PasswordRef
  <2>1. b \in User /\ b.accounts = a.accounts
    BY <1>2 DEF Unlink, User
  <2>2. Cardinality(a.accounts) # 0
    BY <1>0, MethodCountIsNat DEF MethodCount
  <2>3. a.accounts # {}
    BY <2>2, FS_EmptySet
  <2>4. CanSignIn(b)
    BY <2>1, <2>3, MethodCountIsNat
  <2> QED
    BY <2>1, <2>4 DEF Sound, OneAccountPerProviderOf, DistinctIds
<1>3. CASE ref # PasswordRef
  <2> DEFINE rest == {x \in a.accounts : x.id # ref.id}
  <2>1. PICK gone \in a.accounts : gone.id = ref.id
    BY <1>0, <1>3 DEF IsLinked
  <2>2. rest = a.accounts \ {gone}
    BY <2>1 DEF Sound, DistinctIds
  <2>3. IsFiniteSet(rest) /\ Cardinality(rest) = Cardinality(a.accounts) - 1
    BY <1>1, <2>1, <2>2, FS_RemoveElement
  <2>4. b.accounts = rest /\ b.password = a.password
    BY <1>3 DEF Unlink, User
  <2>5. b \in User
    <3>1. rest \in {S \in SUBSET Account : IsFiniteSet(S)}
      BY <2>3 DEF User
    <3> QED
      BY <1>3, <3>1 DEF Unlink, User
  <2>6. MethodCount(b) = MethodCount(a) - 1
    BY <2>3, <2>4, MethodCountIsNat DEF MethodCount
  <2>7. CanSignIn(b)
    BY <1>0, <2>6, MethodCountIsNat DEF CanSignIn
  <2> QED
    BY <2>4, <2>5, <2>7 DEF Sound, OneAccountPerProviderOf, DistinctIds
<1> QED
  BY <1>2, <1>3

(* Whatever method a caller of a sound user gets through, the user stays     *)
(* sound, keeps its address and version, and is neither un-verified nor      *)
(* re-activated.                                                             *)
THEOREM SuccessorsAreSound ==
  ASSUME NEW a \in User, Sound(a), NEW b \in Successors(a)
  PROVE  /\ b \in User
         /\ Sound(b)
         /\ b.version = a.version /\ b.email = a.email
         /\ a.verified => b.verified
         /\ a.status = "suspended" => b.status = "suspended"
<1>1. PICK op \in Operations : b \in Results(a)[op]
  BY DEF Successors
<1>2. op \in OperationNames
  BY <1>1, OperationsAreMethods
<1>3. CASE op = "setPassword"
  <2>1. PICK h \in Hashes : b = SetPassword(a, h)
    BY <1>1, <1>3 DEF Results
  <2> QED
    BY <2>1, SetPasswordIsSound DEF Sound, SetPassword, User
<1>4. CASE op = "linkOAuth"
  <2>1. PICK p \in Profiles, id \in FreshIds(a) :
          LinkRefusal(a, p) = Accepted /\ b = LinkOAuth(a, p, id)
    BY <1>1, <1>4 DEF Results
  <2> QED
    BY <2>1, LinkOAuthIsSound DEF LinkOAuth, User
<1>5. CASE op = "unlink"
  <2>1. PICK ref \in MethodRef :
          UnlinkRefusal(a, ref) = Accepted /\ b = Unlink(a, ref)
    BY <1>1, <1>5 DEF Results
  <2> QED
    BY <2>1, UnlinkIsSound DEF Unlink, User
<1>6. CASE op = "verifyEmail"
  <2>1. b = VerifyEmail(a)
    BY <1>1, <1>6 DEF Results
  <2>2. b \in User /\ b.accounts = a.accounts /\ b.password = a.password
    BY <2>1 DEF VerifyEmail, User
  <2> QED
    BY <2>1, <2>2, MethodCountIsNat
       DEF Sound, OneAccountPerProviderOf, DistinctIds, VerifyEmail, User
<1>7. CASE op = "suspend"
  <2>1. b = Suspend(a)
    BY <1>1, <1>7 DEF Results
  <2>2. b \in User /\ b.accounts = a.accounts /\ b.password = a.password
    BY <2>1 DEF Suspend, User, Statuses
  <2> QED
    BY <2>1, <2>2, MethodCountIsNat
       DEF Sound, OneAccountPerProviderOf, DistinctIds, Suspend, User
<1> QED
  BY <1>2, <1>3, <1>4, <1>5, <1>6, <1>7 DEF OperationNames

(* One save of a sound user moves it one version on and keeps it sound. *)
LEMMA UpdatedIsSound ==
  ASSUME NEW a \in User, Sound(a), NEW b \in Updated(a)
  PROVE  /\ b \in User
         /\ Sound(b)
         /\ b.version = a.version + 1 /\ b.email = a.email
         /\ a.verified => b.verified
         /\ a.status = "suspended" => b.status = "suspended"
<1>1. PICK c \in Successors(a) : b = Committed(c, a.version + 1)
  BY DEF Updated
<1>2. c \in User /\ Sound(c) /\ a.version + 1 \in Nat
  BY SuccessorsAreSound DEF User
<1>3. /\ b \in User
      /\ b.accounts = c.accounts /\ b.password = c.password
      /\ b.version = a.version + 1 /\ b.email = c.email
      /\ b.verified = c.verified /\ b.status = c.status
  BY <1>1, <1>2 DEF Committed, User
<1>4. Sound(b)
  BY <1>2, <1>3, MethodCountIsNat DEF Sound, OneAccountPerProviderOf, DistinctIds
<1> QED
  BY <1>3, <1>4, SuccessorsAreSound

(* A whole unit of work, one save or two, keeps a user sound and only moves *)
(* it forward.                                                              *)
LEMMA ReachIsSound ==
  ASSUME NEW a \in User, Sound(a), NEW b \in Reach(a)
  PROVE  /\ b \in User
         /\ Sound(b)
         /\ b.version > a.version /\ b.email = a.email
         /\ a.verified => b.verified
         /\ a.status = "suspended" => b.status = "suspended"
<1>1. CASE b \in Updated(a)
  <2>1. a.version \in Nat
    BY DEF User
  <2> QED
    BY <1>1, <2>1, UpdatedIsSound
<1>2. CASE b \in UNION {Updated(mid) : mid \in Updated(a)}
  <2>1. PICK mid \in Updated(a) : b \in Updated(mid)
    BY <1>2
  <2>2. mid \in User /\ Sound(mid) /\ mid.version = a.version + 1 /\ mid.email = a.email
    BY UpdatedIsSound
  <2>3. b \in User /\ Sound(b) /\ b.version = mid.version + 1 /\ b.email = mid.email
    BY <2>1, <2>2, UpdatedIsSound
  <2>4. a.version \in Nat
    BY DEF User
  <2>5. a.verified => b.verified
    BY <2>1, <2>2, UpdatedIsSound
  <2>6. a.status = "suspended" => b.status = "suspended"
    BY <2>1, <2>2, UpdatedIsSound
  <2> QED
    BY <2>2, <2>3, <2>4, <2>5, <2>6
<1> QED
  BY <1>1, <1>2 DEF Reach

(* What a registration stores is a user with one way to sign in. *)
LEMMA RegisteredIsSound ==
  ASSUME NEW email \in Emails, NEW hash \in Hashes
  PROVE  LET a == Committed(SetPassword(Register(email), hash), 1) IN
         /\ a \in User /\ Sound(a)
         /\ a.email = email /\ a.accounts = {}
<1> DEFINE r == Register(email)
           s == SetPassword(r, hash)
           a == Committed(s, 1)
<1>1. r \in User /\ r.accounts = {} /\ r.email = email
  BY FS_EmptySet DEF Register, User, Statuses
<1>2. s \in User /\ Sound(s) /\ s.accounts = {} /\ s.email = email
  <2>1. OneAccountPerProviderOf(r) /\ DistinctIds(r)
    BY <1>1 DEF OneAccountPerProviderOf, DistinctIds
  <2>2. s \in User /\ Sound(s)
    BY <1>1, <2>1, SetPasswordIsSound
  <2> QED
    BY <1>1, <2>2 DEF SetPassword, User
<1>3. /\ a \in User /\ a.accounts = s.accounts /\ a.password = s.password
      /\ a.email = s.email
  BY <1>2 DEF Committed, User
<1> QED
  BY <1>2, <1>3, MethodCountIsNat DEF Sound, OneAccountPerProviderOf, DistinctIds

(* Without soundness - of an aggregate assembled by a torn load, say - a     *)
(* method still makes a user of a user, at the same version and address.     *)
LEMMA SuccessorsAreUsers ==
  ASSUME NEW a \in User, NEW b \in Successors(a)
  PROVE  b \in User /\ b.version = a.version /\ b.email = a.email
<1>1. PICK op \in Operations : b \in Results(a)[op]
  BY DEF Successors
<1>2. op \in OperationNames
  BY <1>1, OperationsAreMethods
<1>3. CASE op = "setPassword"
  <2>1. PICK h \in Hashes : b = SetPassword(a, h)
    BY <1>1, <1>3 DEF Results
  <2> QED
    BY <2>1 DEF SetPassword, User
<1>4. CASE op = "linkOAuth"
  <2>1. PICK p \in Profiles, id \in FreshIds(a) : b = LinkOAuth(a, p, id)
    BY <1>1, <1>4 DEF Results
  <2> DEFINE new == [id |-> id, provider |-> p.provider, externalId |-> p.externalId]
  <2>2. new \in Account /\ (a.verified \/ p.vouches) \in BOOLEAN
    BY ProfilesAreProfiles DEF FreshIds, Account, User
  <2>3. IsFiniteSet(a.accounts)
    BY DEF User
  <2>4. IsFiniteSet(a.accounts \cup {new})
    <3> HIDE DEF new
    <3> QED
      BY <2>3, FS_AddElement
  <2>5. a.accounts \cup {new} \in {S \in SUBSET Account : IsFiniteSet(S)}
    BY <2>2, <2>4 DEF User
  <2> QED
    BY <2>1, <2>2, <2>5 DEF LinkOAuth, User
<1>5. CASE op = "unlink"
  <2>1. PICK ref \in MethodRef : b = Unlink(a, ref)
    BY <1>1, <1>5 DEF Results
  <2> DEFINE rest == {x \in a.accounts : x.id # ref.id}
  <2>2. IsFiniteSet(a.accounts) /\ rest \subseteq a.accounts
    BY DEF User
  <2>3. IsFiniteSet(rest)
    <3> HIDE DEF rest
    <3> QED
      BY <2>2, FS_Subset
  <2>4. rest \in {S \in SUBSET Account : IsFiniteSet(S)}
    BY <2>3 DEF User
  <2> QED
    BY <2>1, <2>4 DEF Unlink, User
<1>6. CASE op = "verifyEmail"
  <2>1. b = VerifyEmail(a)
    BY <1>1, <1>6 DEF Results
  <2> QED
    BY <2>1 DEF VerifyEmail, User
<1>7. CASE op = "suspend"
  <2>1. b = Suspend(a)
    BY <1>1, <1>7 DEF Results
  <2> QED
    BY <2>1 DEF Suspend, User, Statuses
<1> QED
  BY <1>2, <1>3, <1>4, <1>5, <1>6, <1>7 DEF OperationNames

(* committed(next) changes the version and nothing else. *)
LEMMA CommittedChangesVersion ==
  ASSUME NEW a \in User, NEW n \in Nat
  PROVE  /\ Committed(a, n) \in User
         /\ Committed(a, n).version = n
         /\ Committed(a, n).email = a.email
         /\ Committed(a, n).accounts = a.accounts
         /\ Committed(a, n).password = a.password
         /\ Committed(a, n).verified = a.verified
         /\ Committed(a, n).status = a.status
BY DEF Committed, User

(* One save, of any user. *)
LEMMA UpdatedAreUsers ==
  ASSUME NEW a \in User, NEW b \in Updated(a)
  PROVE  b \in User /\ b.version = a.version + 1 /\ b.email = a.email
<1>1. PICK c \in Successors(a) : b = Committed(c, a.version + 1)
  BY DEF Updated
<1>2. c \in User /\ c.email = a.email /\ a.version + 1 \in Nat
  BY SuccessorsAreUsers DEF User
<1> QED
  BY <1>1, <1>2, CommittedChangesVersion

(* One save or two, of any user. *)
LEMMA ReachAreUsers ==
  ASSUME NEW a \in User, NEW b \in Reach(a)
  PROVE  /\ b \in User
         /\ b.version \in {a.version + 1, a.version + 2}
         /\ b.email = a.email
         /\ b.version = a.version + 1 => b \in Updated(a)
<1>1. a.version \in Nat
  BY DEF User
<1>2. CASE b \in Updated(a)
  BY <1>2, UpdatedAreUsers
<1>3. CASE b \in UNION {Updated(mid) : mid \in Updated(a)}
  <2>1. PICK mid \in Updated(a) : b \in Updated(mid)
    BY <1>3
  <2>2. mid \in User /\ mid.version = a.version + 1 /\ mid.email = a.email
    BY UpdatedAreUsers
  <2>3. b \in User /\ b.version = mid.version + 1 /\ b.email = mid.email
    BY <2>1, <2>2, UpdatedAreUsers
  <2> QED
    BY <1>1, <2>2, <2>3
<1> QED
  BY <1>2, <1>3 DEF Reach
=============================================================================
