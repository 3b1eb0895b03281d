------------------------ MODULE UsersReadPathProofs ------------------------
(***************************************************************************)
(* What AtomicAccounts, and then UsersReadPath, which reads between its    *)
(* steps, guarantee for every value of the constants.                      *)
(*                                                                         *)
(* A walk skips nobody because the place of a row, the number of rows that *)
(* sort before it, only grows, and a page that a row comes after is full.  *)
(***************************************************************************)
EXTENDS UsersReadPath, UserAggregateProofs

-----------------------------------------------------------------------------
(* Atomic units of work *)

(* Every id holds a user or nobody, and every user that is held is sound. *)
Inv == TypeOK /\ EveryUserIsSound

LEMMA InitInv == Init => Inv
  BY DEF Init, Inv, TypeOK, EveryUserIsSound, Exists

LEMMA NextInv == Inv /\ [Next]_accounts => Inv'
<1> SUFFICES ASSUME Inv, [Next]_accounts PROVE Inv'
  OBVIOUS
<1>1. ASSUME NEW u \in UserIds, NEW email \in Emails, NEW hash \in Hashes,
             RegisterUser(u, email, hash)
      PROVE  Inv'
  <2> DEFINE a == Committed(SetPassword(Register(email), hash), 1)
  <2>1. a \in User /\ Sound(a)
    BY RegisteredIsSound
  <2>2. accounts' = [accounts EXCEPT ![u] = a]
    BY <1>1 DEF RegisterUser
  <2> HIDE DEF a
  <2> QED
    BY <2>1, <2>2 DEF Inv, TypeOK, EveryUserIsSound, Exists
<1>2. ASSUME NEW u \in UserIds, ChangeUser(u)
      PROVE  Inv'
  <2>1. accounts[u] \in User /\ Sound(accounts[u])
    BY <1>2 DEF ChangeUser, Inv, TypeOK, EveryUserIsSound, Exists
  <2>2. PICK after \in Reach(accounts[u]) : accounts' = [accounts EXCEPT ![u] = after]
    BY <1>2 DEF ChangeUser
  <2>3. after \in User /\ Sound(after)
    BY <2>1, <2>2, ReachIsSound
  <2> QED
    BY <2>2, <2>3 DEF Inv, TypeOK, EveryUserIsSound, Exists
<1>3. CASE UNCHANGED accounts
  BY <1>3 DEF Inv, TypeOK, EveryUserIsSound, Exists
<1> QED
  BY <1>1, <1>2, <1>3 DEF Next

(* The accounts are always well-typed: what a unit of work stores under an *)
(* id is a user, never a half of one.                                      *)
THEOREM TypeCorrectness == Spec => []TypeOK
<1>1. Inv => TypeOK
  BY DEF Inv
<1> QED
  BY <1>1, InitInv, NextInv, PTL DEF Spec

(* Nobody is ever locked out, whatever methods callers use and in whatever *)
(* order: every stored user keeps a way to sign in (user.entity.ts:137).   *)
THEOREM NobodyIsLockedOut == Spec => []EveryUserIsSound
<1>1. Inv => EveryUserIsSound
  BY DEF Inv
<1> QED
  BY <1>1, InitInv, NextInv, PTL DEF Spec

(* The step property behind NothingIsTakenBack, from the invariant. *)
LEMMA StepTakesNothingBack ==
  ASSUME Inv, Next, NEW v \in UserIds
  PROVE  OnlyForward(v)
<1> SUFFICES ASSUME Exists(v) PROVE OnlyForward(v)
  BY DEF OnlyForward
<1>0. accounts[v] # NoUser
  BY DEF Exists
<1>1. ASSUME NEW u \in UserIds, NEW email \in Emails, NEW hash \in Hashes,
             RegisterUser(u, email, hash)
      PROVE  accounts'[v] = accounts[v]
  BY <1>1 DEF RegisterUser, Exists, Inv, TypeOK
<1>2. ASSUME NEW u \in UserIds, ChangeUser(u), u = v
      PROVE  /\ accounts'[v] # NoUser
             /\ accounts'[v].email = accounts[v].email
             /\ accounts[v].verified => accounts'[v].verified
             /\ accounts[v].status = "suspended" => accounts'[v].status = "suspended"
             /\ accounts'[v].version > accounts[v].version
  <2>1. accounts[v] \in User /\ Sound(accounts[v])
    BY DEF Inv, TypeOK, EveryUserIsSound, Exists
  <2>2. PICK after \in Reach(accounts[v]) : accounts'[v] = after
    BY <1>2 DEF ChangeUser, Inv, TypeOK
  <2>3. after \in User /\ NoUser \notin User
    BY <2>1, <2>2, ReachIsSound, NoUserIsNotAUser
  <2> QED
    BY <2>1, <2>2, <2>3, ReachIsSound
<1>3. ASSUME NEW u \in UserIds, ChangeUser(u), u # v
      PROVE  accounts'[v] = accounts[v]
  BY <1>3 DEF ChangeUser, Inv, TypeOK
<1> QED
  BY <1>0, <1>1, <1>2, <1>3 DEF OnlyForward, Next

(* No step takes back a user, its address, a verification, a suspension or  *)
(* a version.                                                               *)
THEOREM ChangesOnlyMoveForward == Spec => NothingIsTakenBack
<1>1. Inv /\ [Next]_accounts => [\A u \in UserIds : OnlyForward(u)]_accounts
  BY StepTakesNothingBack
<1> QED
  BY <1>1, InitInv, NextInv, PTL DEF Spec, NothingIsTakenBack

(* An address names one user and a provider account signs in one user: the  *)
(* guards of the two operations keep both apart.                            *)
UniqueInv == Inv /\ OneUserPerEmail /\ OneUserPerKey

LEMMA NextUnique == UniqueInv /\ [Next]_accounts => UniqueInv'
<1> SUFFICES ASSUME UniqueInv, [Next]_accounts PROVE OneUserPerEmail' /\ OneUserPerKey'
  BY NextInv DEF UniqueInv
<1> USE DEF UniqueInv, Inv, TypeOK
<1>1. ASSUME NEW u \in UserIds, NEW email \in Emails, NEW hash \in Hashes,
             RegisterUser(u, email, hash)
      PROVE  OneUserPerEmail' /\ OneUserPerKey'
  <2> DEFINE a == Committed(SetPassword(Register(email), hash), 1)
  <2>1. a.email = email /\ a.accounts = {}
    BY RegisteredIsSound
  <2>2. accounts' = [accounts EXCEPT ![u] = a]
    BY <1>1 DEF RegisterUser
  <2>3. EmailIsFree(email)
    BY <1>1 DEF RegisterUser
  <2> HIDE DEF a
  <2> QED
    BY <2>1, <2>2, <2>3 DEF OneUserPerEmail, OneUserPerKey, EmailIsFree, Exists
<1>2. ASSUME NEW u \in UserIds, ChangeUser(u)
      PROVE  OneUserPerEmail' /\ OneUserPerKey'
  <2>1. accounts[u] \in User /\ Sound(accounts[u])
    BY <1>2 DEF ChangeUser, EveryUserIsSound, Exists
  <2>2. PICK after \in Reach(accounts[u]) :
          accounts' = [accounts EXCEPT ![u] = after] /\ KeysAreFree(u, after)
    BY <1>2 DEF ChangeUser
  <2>3. after.email = accounts[u].email /\ Exists(u)
    BY <1>2, <2>1, <2>2, ReachIsSound DEF ChangeUser
  <2>4. OneUserPerEmail'
    BY <2>2, <2>3 DEF OneUserPerEmail, Exists
  <2>5. OneUserPerKey'
    BY <2>2, <2>3 DEF OneUserPerKey, KeysAreFree, Exists
  <2> QED
    BY <2>4, <2>5
<1>3. CASE UNCHANGED accounts
  BY <1>3 DEF OneUserPerEmail, OneUserPerKey, Exists
<1> QED
  BY <1>1, <1>2, <1>3 DEF Next

(* Whatever is stored, an address names one user and a provider account     *)
(* signs in one user.                                                       *)
THEOREM IdentitiesAreUnique == Spec => [](OneUserPerEmail /\ OneUserPerKey)
<1>1. Init => UniqueInv
  BY InitInv DEF UniqueInv, Init, OneUserPerEmail, OneUserPerKey, Exists
<1>2. UniqueInv => OneUserPerEmail /\ OneUserPerKey
  BY DEF UniqueInv
<1> QED
  BY <1>1, <1>2, NextUnique, PTL DEF Spec

-----------------------------------------------------------------------------
(* Rows in an order: the rank of a row is the number of rows before it.      *)

(* The ranks of rows that sort apart differ, as their keys do. *)
LEMMA RanksGrow ==
  ASSUME NEW M, IsFiniteSet(M), NEW k \in [M -> Int],
         NEW u \in M, NEW w \in M, k[u] < k[w]
  PROVE  /\ Cardinality({v \in M : k[v] < k[u]}) \in Nat
         /\ Cardinality({v \in M : k[v] < k[w]}) \in Nat
         /\ Cardinality({v \in M : k[v] < k[u]}) < Cardinality({v \in M : k[v] < k[w]})
<1> DEFINE A == {v \in M : k[v] < k[u]}
           B == {v \in M : k[v] < k[w]}
<1>1. IsFiniteSet(A) /\ IsFiniteSet(B)
  BY FS_Subset
<1>2. A \in SUBSET B /\ u \in B /\ u \notin A
  OBVIOUS
<1> HIDE DEF A, B
<1>3. Cardinality(A) \in Nat /\ Cardinality(B) \in Nat
  BY <1>1, FS_CardinalityType
<1>4. Cardinality(A) <= Cardinality(B) /\ Cardinality(A) # Cardinality(B)
  BY <1>1, <1>2, FS_Subset
<1> QED
  BY <1>3, <1>4 DEF A, B

(* Every place before that of a row is taken. *)
LEMMA RanksAreContiguous ==
  ASSUME NEW M, IsFiniteSet(M), NEW k \in [M -> Int],
         \A a, b \in M : k[a] = k[b] => a = b,
         NEW u \in M, NEW n \in Nat, n <= Cardinality({v \in M : k[v] < k[u]})
  PROVE  \E w \in M : Cardinality({v \in M : k[v] < k[w]}) = n
<1> DEFINE Ahead(w) == {v \in M : k[v] < k[w]}
           S == {w \in M : n <= Cardinality(Ahead(w))}
           T == {Ahead(w) : w \in S}
<1>1. \A w \in M : IsFiniteSet(Ahead(w)) /\ Cardinality(Ahead(w)) \in Nat
  BY FS_Subset, FS_CardinalityType
<1>2. PICK m \in S : \A w \in S : ~(Ahead(w) \subseteq Ahead(m) /\ Ahead(w) # Ahead(m))
  <2>1. \A w \in M : Ahead(w) \in SUBSET M
    OBVIOUS
  <2>2. u \in S
    OBVIOUS
  <2> HIDE DEF Ahead
  <2>3. T \subseteq FiniteSubsetsOf(M)
    BY <1>1, <2>1 DEF FiniteSubsetsOf
  <2>4. T # {}
    BY <2>2
  <2>5. PICK x \in T : \A y \in T : ~(<<y, x>> \in StrictSubsetOrdering(M))
    BY <2>3, <2>4, FS_StrictSubsetOrderingWellFounded, WFMin
  <2>6. PICK m \in S : x = Ahead(m)
    OBVIOUS
  <2>7. ASSUME NEW w \in S, Ahead(w) \subseteq Ahead(m), Ahead(w) # Ahead(m) PROVE FALSE
    <3>1. Ahead(w) \in T /\ <<Ahead(w), x>> \in (SUBSET M) \X (SUBSET M)
      BY <2>1, <2>6
    <3>2. <<Ahead(w), x>> \in StrictSubsetOrdering(M)
      BY <2>6, <2>7, <3>1 DEF StrictSubsetOrdering
    <3> QED
      BY <2>5, <3>1, <3>2
  <2> QED
    BY <2>7
<1>3. \A w \in Ahead(m) : w \in M /\ w \notin S
  <2> SUFFICES ASSUME NEW w \in Ahead(m) PROVE w \notin S
    OBVIOUS
  <2>1. w \in M /\ m \in M /\ k[w] < k[m]
    OBVIOUS
  <2>2. Ahead(w) \subseteq Ahead(m)
    BY <2>1
  <2>3. w \notin Ahead(w)
    BY <2>1
  <2> QED
    BY <1>2, <2>2, <2>3
<1>4. Cardinality(Ahead(m)) <= n
  <2> DEFINE f == [w \in Ahead(m) |-> Cardinality(Ahead(w))]
  <2>1. ASSUME NEW w \in Ahead(m) PROVE Cardinality(Ahead(w)) \in 0..(n-1)
    <3>1. w \in M /\ ~(n <= Cardinality(Ahead(w)))
      BY <1>3
    <3>2. Cardinality(Ahead(w)) \in Nat
      BY <1>1, <3>1
    <3> QED
      BY <3>1, <3>2
  <2>2. ASSUME NEW a \in Ahead(m), NEW b \in Ahead(m), f[a] = f[b] PROVE a = b
    <3>1. a \in M /\ b \in M /\ Cardinality(Ahead(a)) = Cardinality(Ahead(b))
      BY <2>2
    <3>2. ~(k[a] < k[b]) /\ ~(k[b] < k[a])
      BY <3>1, RanksGrow, IsFiniteSet(M)
    <3>3. k[a] \in Int /\ k[b] \in Int
      BY <3>1
    <3>4. k[a] = k[b]
      BY <3>2, <3>3
    <3> QED
      BY <3>1, <3>4
  <2>3. f \in Injection(Ahead(m), 0..(n-1))
    BY <2>1, <2>2 DEF Injection, IsInjective
  <2>4. IsFiniteSet(0..(n-1)) /\ Cardinality(0..(n-1)) = n
    <3>1. 0 \in Int /\ n - 1 \in Int /\ (0 > n - 1 => n = 0)
      OBVIOUS
    <3> QED
      BY <3>1, FS_Interval
  <2> HIDE DEF f, Ahead
  <2> QED
    BY <2>3, <2>4, FS_Injection
<1>5. m \in M /\ n <= Cardinality(Ahead(m))
  OBVIOUS
<1> HIDE DEF Ahead
<1>6. Cardinality(Ahead(m)) = n
  BY <1>1, <1>4, <1>5
<1> QED
  BY <1>5, <1>6 DEF Ahead

RowsBefore(M, k, u) == {v \in M : k[v] < k[u]}

RowsBetween(M, k, o, l) == {w \in M : Cardinality(RowsBefore(M, k, w)) \in o..(o + l - 1)}

(* A page that a row comes after is full. *)
LEMMA PagesFill ==
  ASSUME NEW M, IsFiniteSet(M), NEW k \in [M -> Int],
         \A a, b \in M : k[a] = k[b] => a = b,
         NEW u \in M, NEW o \in Nat, NEW l \in Nat \ {0},
         o + l <= Cardinality(RowsBefore(M, k, u))
  PROVE  l <= Cardinality(RowsBetween(M, k, o, l))
<1> USE DEF RowsBefore, RowsBetween
<1> DEFINE r(w) == Cardinality({v \in M : k[v] < k[w]})
           P == {w \in M : r(w) \in o..(o + l - 1)}
           f == [i \in o..(o + l - 1) |-> CHOOSE w \in M : r(w) = i]
<1>0. r(u) \in Nat
  BY FS_Subset, FS_CardinalityType
<1>1. \A i \in o..(o + l - 1) : \E w \in M : r(w) = i
  <2> TAKE i \in o..(o + l - 1)
  <2>1. i \in Nat /\ i <= r(u)
    BY <1>0
  <2> QED
    BY <2>1, RanksAreContiguous
<1> HIDE DEF r
<1>2. \A i \in o..(o + l - 1) : f[i] \in P /\ r(f[i]) = i
  BY <1>1
<1>3. f \in Injection(o..(o + l - 1), P)
  BY <1>2 DEF Injection, IsInjective
<1>4. IsFiniteSet(P)
  BY FS_Subset
<1>5. Cardinality(o..(o + l - 1)) = l
  BY FS_Interval
<1> HIDE DEF f, P
<1>6. l <= Cardinality(P)
  BY <1>3, <1>4, <1>5, FS_Injection
<1> QED
  BY <1>6 DEF P, r

-----------------------------------------------------------------------------
(* The inductive invariant.  Where no two rows sort alike a row has one key  *)
(* and one place, and places only grow.                                      *)

SortKey(u, sort) ==
  IF sort.descending THEN -Column(u, sort.field) ELSE Column(u, sort.field)

Place(u, query) ==
  Cardinality({v \in Matching(query.search) : SortKey(v, query.sort) < SortKey(u, query.sort)})

Calls == {Idle} \cup Walks \cup Gets \cup MethodLists

(* Whom a walk has not seen yet is still to come. *)
NobodyIsBehind(w) ==
  /\ w.over => w.there \subseteq w.seen
  /\ ~w.over /\ "page" \in w.open =>
       \A u \in w.there : u \in w.seen \/ Offset(w.query, w.page) <= Place(u, w.query)
  /\ ~w.over /\ "page" \notin w.open =>
       \A u \in w.there :
         \/ u \in w.seen \cup w.rows
         \/ /\ Offset(w.query, w.page) + w.query.limit <= Place(u, w.query)
            /\ w.query.limit <= Cardinality(w.rows)

(* If nobody joined, a walk has seen the places before its page once each. *)
PlacesAreSeenOnce(w) ==
  /\ "count" \notin w.open => w.total = Cardinality(w.there)
  /\ ~w.over =>
       /\ w.seen = {u \in w.there : Place(u, w.query) < Offset(w.query, w.page)}
       /\ w.listed = Cardinality(w.seen)
  /\ ~w.over /\ "page" \notin w.open =>
       w.rows = {u \in w.there : Place(u, w.query) \in
                   Offset(w.query, w.page)..(Offset(w.query, w.page) + w.query.limit - 1)}
  /\ w.over => w.listed = Cardinality(w.there) /\ "count" \notin w.open

WalkOK(w) ==
  /\ w.there \subseteq Matching(w.query.search)
  /\ Untied(w.query) => NobodyIsBehind(w)
  /\ Untied(w.query) /\ Matching(w.query.search) = w.there => PlacesAreSeenOnce(w)

GetOK(g) == g.there => Exists(g.id) /\ (g.open = {} => g.found)

(* A user that is as it was has been as it was. *)
MethodsOK(m) ==
  m.before # NoUser =>
    /\ Exists(m.id)
    /\ accounts[m.id] # m.before => accounts[m.id].version > m.before.version
    /\ accounts[m.id] = m.before =>
         /\ "password" \notin m.open => (m.password <=> m.before.password # NoPassword)
         /\ "oauth" \notin m.open => m.oauth = m.before.accounts

CallOK(x) ==
  /\ x.op = "list" => WalkOK(x)
  /\ x.op = "get" => GetOK(x)
  /\ x.op = "methods" => MethodsOK(x)

ReadInv ==
  /\ Inv
  /\ call \in [Clients -> Calls]
  /\ \A c \in Clients, x \in Calls : call[c] = x => CallOK(x)

-----------------------------------------------------------------------------
(* Matching rows, their keys and their places *)

LEMMA MatchingIsFinite ==
  ASSUME NEW search PROVE IsFiniteSet(Matching(search))
  BY IdsAreFinite, FS_Subset DEF Matching

LEMMA ColumnType ==
  ASSUME TypeOK, NEW search, NEW u \in Matching(search), NEW field
  PROVE  Column(u, field) \in Nat
<1>1. u \in UserIds /\ accounts[u] \in User
  BY DEF TypeOK, Matching, Exists
<1>2. accounts[u].email \in Emails
  BY <1>1 DEF User
<1> QED
  BY <1>1, <1>2, TimesAreNumbers, EmailsAreOrdered DEF Column

LEMMA KeyType ==
  ASSUME TypeOK, NEW search, NEW u \in Matching(search), NEW sort \in Sorts
  PROVE  SortKey(u, sort) \in Int
  BY ColumnType DEF SortKey

LEMMA KeysTellApart ==
  ASSUME TypeOK, NEW query \in Queries, Untied(query),
         NEW u \in Matching(query.search), NEW v \in Matching(query.search),
         SortKey(u, query.sort) = SortKey(v, query.sort)
  PROVE  u = v
<1>1. Column(u, query.sort.field) \in Nat /\ Column(v, query.sort.field) \in Nat
  BY ColumnType
<1>2. Column(u, query.sort.field) = Column(v, query.sort.field)
  BY <1>1 DEF SortKey
<1> QED
  BY <1>2 DEF Untied

LEMMA PlaceType ==
  ASSUME NEW query, NEW u PROVE Place(u, query) \in Nat
<1>1. IsFiniteSet({v \in Matching(query.search) :
                     SortKey(v, query.sort) < SortKey(u, query.sort)})
  BY MatchingIsFinite, FS_Subset
<1> QED
  BY <1>1, FS_CardinalityType DEF Place

LEMMA RankIsPlace ==
  ASSUME TypeOK, NEW query \in Queries, Untied(query), NEW tie \in Ties,
         NEW u \in Matching(query.search)
  PROVE  Rank(u, query, tie) = Place(u, query)
<1>1. \A v \in Matching(query.search) :
        Precedes(v, u, query.sort, tie) <=> SortKey(v, query.sort) < SortKey(u, query.sort)
  <2> TAKE v \in Matching(query.search)
  <2>1. Column(u, query.sort.field) \in Nat /\ Column(v, query.sort.field) \in Nat
    BY ColumnType
  <2>2. Column(v, query.sort.field) = Column(u, query.sort.field) => ~(tie[v] < tie[u])
    <3> SUFFICES ASSUME Column(v, query.sort.field) = Column(u, query.sort.field)
                 PROVE  ~(tie[v] < tie[u])
      OBVIOUS
    <3>1. u = v /\ tie[u] \in Nat
      BY TiesAreOrders DEF Untied, Matching
    <3> QED
      BY <3>1
  <2> QED
    BY <2>1, <2>2 DEF Precedes, SortKey
<1> QED
  BY <1>1 DEF Rank, Place

LEMMA PageIsPlaces ==
  ASSUME TypeOK, NEW query \in Queries, Untied(query), NEW tie \in Ties, NEW page
  PROVE  Page(query, page, tie) =
           {u \in Matching(query.search) :
              Place(u, query) \in Offset(query, page)..(Offset(query, page) + query.limit - 1)}
  BY RankIsPlace DEF Page

LEMMA OffsetType ==
  ASSUME NEW query \in Queries, NEW page \in Nat \ {0}
  PROVE  /\ Offset(query, page) \in Nat
         /\ query.limit \in Nat \ {0}
         /\ Offset(query, page + 1) = Offset(query, page) + query.limit
         /\ Offset(query, 1) = 0
<1>1. query.limit \in Nat \ {0}
  BY LimitsArePositive DEF Queries
<1> DEFINE l == query.limit
<1> HIDE DEF l
<1>2. l \in Nat /\ page - 1 \in Nat
  BY <1>1 DEF l
<1>3. (page - 1) * l \in Nat /\ (page + 1 - 1) * l = (page - 1) * l + l /\ (1 - 1) * l = 0
  BY <1>2
<1> QED
  BY <1>1, <1>3 DEF Offset, l

(* A page that somebody comes after is full. *)
LEMMA PagesBeforeAreFull ==
  ASSUME TypeOK, NEW query \in Queries, Untied(query), NEW tie \in Ties,
         NEW page \in Nat \ {0}, NEW u \in Matching(query.search),
         Offset(query, page) + query.limit <= Place(u, query)
  PROVE  query.limit <= Cardinality(Page(query, page, tie))
<1> DEFINE M == Matching(query.search)
           k == [v \in M |-> SortKey(v, query.sort)]
           o == Offset(query, page)
           l == query.limit
<1>1. IsFiniteSet(M)
  BY MatchingIsFinite
<1>2. k \in [M -> Int]
  BY KeyType DEF Queries
<1>3. \A a, b \in M : k[a] = k[b] => a = b
  BY KeysTellApart
<1>4. o \in Nat /\ l \in Nat \ {0}
  BY OffsetType
<1>5. \A w \in M : Place(w, query) = Cardinality({v \in M : k[v] < k[w]})
  BY DEF Place
<1>6. Page(query, page, tie) = {w \in M : Place(w, query) \in o..(o + l - 1)}
  BY PageIsPlaces
<1> HIDE DEF M, k, o, l
<1>7. o + l <= Cardinality(RowsBefore(M, k, u)) /\ u \in M
  BY <1>5 DEF RowsBefore, o, l, M
<1>8. l <= Cardinality(RowsBetween(M, k, o, l))
  BY <1>1, <1>2, <1>3, <1>4, <1>7, PagesFill
<1>9. Page(query, page, tie) = RowsBetween(M, k, o, l)
  BY <1>5, <1>6 DEF RowsBefore, RowsBetween
<1> QED
  BY <1>8, <1>9 DEF l
-----------------------------------------------------------------------------
(* Units of work: nobody leaves and rows keep their keys, so that places     *)
(* only grow, and do not change where nobody joins.                          *)

LEMMA UsersStay ==
  ASSUME Inv, Next, NEW u \in UserIds, Exists(u)
  PROVE  /\ Exists(u)'
         /\ accounts'[u].email = accounts[u].email
         /\ accounts'[u] # accounts[u] => accounts'[u].version > accounts[u].version
  BY StepTakesNothingBack DEF OnlyForward, Exists

LEMMA RowsStay ==
  ASSUME Inv, Next, NEW search, NEW u \in Matching(search)
  PROVE  /\ u \in Matching(search)'
         /\ \A field : Column(u, field)' = Column(u, field)
         /\ \A sort : SortKey(u, sort)' = SortKey(u, sort)
<1>1. u \in UserIds /\ Exists(u) /\ accounts[u].email \in search
  BY DEF Matching
<1>2. Exists(u)' /\ accounts'[u].email = accounts[u].email
  BY <1>1, UsersStay
<1>3. u \in Matching(search)'
  BY <1>1, <1>2 DEF Matching
<1>4. \A field : Column(u, field)' = Column(u, field)
  BY <1>2 DEF Column
<1> QED
  BY <1>2, <1>3, <1>4 DEF SortKey, Column

LEMMA TiesStay ==
  ASSUME Inv, Next, NEW query, Untied(query)' PROVE Untied(query)
<1> SUFFICES ASSUME NEW u \in Matching(query.search), NEW v \in Matching(query.search),
                    Column(u, query.sort.field) = Column(v, query.sort.field)
             PROVE  u = v
  BY DEF Untied
<1>1. u \in Matching(query.search)' /\ v \in Matching(query.search)'
  BY RowsStay
<1>2. Column(u, query.sort.field)' = Column(v, query.sort.field)'
  BY RowsStay
<1> QED
  BY <1>1, <1>2 DEF Untied

LEMMA PlacesGrow ==
  ASSUME Inv, Next, NEW query, NEW u \in Matching(query.search)
  PROVE  /\ Place(u, query) \in Nat
         /\ Place(u, query)' \in Nat
         /\ Place(u, query) <= Place(u, query)'
         /\ Matching(query.search)' = Matching(query.search) => Place(u, query)' = Place(u, query)
<1> DEFINE A == {v \in Matching(query.search) : SortKey(v, query.sort) < SortKey(u, query.sort)}
           B == {v \in Matching(query.search)' :
                   SortKey(v, query.sort)' < SortKey(u, query.sort)'}
<1>1. A \in SUBSET B
  BY RowsStay
<1>2. IsFiniteSet(B)
  <2>1. Matching(query.search)' \subseteq UserIds
    BY DEF Matching
  <2> QED
    BY <2>1, IdsAreFinite, FS_Subset
<1>3. Place(u, query) = Cardinality(A) /\ Place(u, query)' = Cardinality(B)
  BY DEF Place
<1>4. Matching(query.search)' = Matching(query.search) => A = B
  BY RowsStay
<1> HIDE DEF A, B
<1>5. IsFiniteSet(A) /\ Cardinality(A) <= Cardinality(B)
  BY <1>1, <1>2, FS_Subset
<1>6. Cardinality(A) \in Nat /\ Cardinality(B) \in Nat
  BY <1>2, <1>5, FS_CardinalityType
<1> QED
  BY <1>3, <1>4, <1>5, <1>6

LEMMA WalkStays ==
  ASSUME Inv, Next, NEW w \in Walks, WalkOK(w) PROVE WalkOK(w)'
<1> DEFINE M == Matching(w.query.search)
<1>0. w.query \in Queries /\ w.page \in Nat \ {0}
  BY DEF Walks
<1>1. w.there \subseteq M /\ M \subseteq M'
  BY RowsStay DEF WalkOK
<1>2. \A u \in w.there : /\ Place(u, w.query) \in Nat
                         /\ Place(u, w.query)' \in Nat
                         /\ Place(u, w.query) <= Place(u, w.query)'
  BY <1>1, PlacesGrow
<1>3. Offset(w.query, w.page) \in Nat /\ w.query.limit \in Nat
  BY <1>0, OffsetType
<1>4. Offset(w.query, w.page)' = Offset(w.query, w.page)
  BY DEF Offset
<1>5. ASSUME Untied(w.query)' PROVE NobodyIsBehind(w)'
  <2>1. NobodyIsBehind(w)
    BY <1>5, TiesStay DEF WalkOK
  <2> QED
    BY <2>1, <1>2, <1>3, <1>4 DEF NobodyIsBehind
<1>6. ASSUME Untied(w.query)', M' = w.there PROVE PlacesAreSeenOnce(w)'
  <2>1. M = w.there
    BY <1>1, <1>6
  <2>2. PlacesAreSeenOnce(w)
    BY <1>6, <2>1, TiesStay DEF WalkOK
  <2>3. \A u \in w.there : Place(u, w.query)' = Place(u, w.query)
    BY <1>1, <1>6, <2>1, PlacesGrow
  <2> HIDE DEF M
  <2>4. {u \in w.there : Place(u, w.query)' < Offset(w.query, w.page)}
          = {u \in w.there : Place(u, w.query) < Offset(w.query, w.page)}
    BY <2>3
  <2>5. \A l : {u \in w.there : Place(u, w.query)' \in Offset(w.query, w.page)..l}
                 = {u \in w.there : Place(u, w.query) \in Offset(w.query, w.page)..l}
    BY <2>3
  <2> QED
    BY <2>2, <2>4, <2>5, <1>4 DEF PlacesAreSeenOnce
<1> QED
  BY <1>1, <1>5, <1>6 DEF WalkOK

LEMMA CallStays ==
  ASSUME Inv, Next, NEW x \in Calls, CallOK(x) PROVE CallOK(x)'
<1>1. CASE x = Idle
  BY <1>1 DEF CallOK, Idle
<1>2. CASE x \in Walks
  <2>1. x.op = "list"
    BY <1>2 DEF Walks
  <2>2. WalkOK(x)'
    BY <1>2, <2>1, WalkStays DEF CallOK
  <2> QED
    BY <2>1, <2>2 DEF CallOK
<1>3. CASE x \in Gets
  <2>1. x.op = "get" /\ x.id \in UserIds
    BY <1>3 DEF Gets
  <2>2. GetOK(x)'
    BY <2>1, UsersStay DEF CallOK, GetOK
  <2> QED
    BY <2>1, <2>2 DEF CallOK
<1>4. CASE x \in MethodLists
  <2>1. x.op = "methods" /\ x.id \in UserIds /\ x.before \in User \cup {NoUser}
    BY <1>4 DEF MethodLists
  <2>2. ASSUME x.before # NoUser PROVE MethodsOK(x)'
    <3>1. MethodsOK(x) /\ Exists(x.id)
      BY <2>1, <2>2 DEF CallOK, MethodsOK
    <3>2. Exists(x.id)' /\ (accounts'[x.id] # accounts[x.id] =>
                              accounts'[x.id].version > accounts[x.id].version)
      BY <2>1, <3>1, UsersStay
    <3>3. accounts[x.id].version \in Nat /\ accounts'[x.id].version \in Nat
      <4>1. Inv'
        BY NextInv
      <4>2. accounts[x.id] \in User /\ accounts'[x.id] \in User
        BY <2>1, <3>1, <3>2, <4>1 DEF Inv, TypeOK, Exists
      <4> QED
        BY <4>2 DEF User
    <3>4. x.before.version \in Nat
      BY <2>1, <2>2 DEF User
    <3> QED
      BY <3>1, <3>2, <3>3, <3>4 DEF MethodsOK
  <2> QED
    BY <2>1, <2>2 DEF CallOK, MethodsOK
<1> QED
  BY <1>1, <1>2, <1>3, <1>4 DEF Calls
-----------------------------------------------------------------------------
(* Reads: they leave the users alone and change one call. *)

LEMMA UnchangedAccounts ==
  ASSUME UNCHANGED accounts, NEW x, CallOK(x) PROVE CallOK(x)'
<1>1. \A search : Matching(search)' = Matching(search)
  BY DEF Matching, Exists
<1>2. \A u, field : Column(u, field)' = Column(u, field)
  BY DEF Column
<1>3. \A u, sort : SortKey(u, sort)' = SortKey(u, sort)
  BY <1>2 DEF SortKey
<1>4. \A u, query : Place(u, query)' = Place(u, query)
  BY <1>1, <1>3 DEF Place
<1>5. \A query : Untied(query)' <=> Untied(query)
  BY <1>1, <1>2 DEF Untied
<1>6. WalkOK(x) => WalkOK(x)'
  BY <1>1, <1>4, <1>5 DEF WalkOK, NobodyIsBehind, PlacesAreSeenOnce, Offset
<1>7. (GetOK(x) => GetOK(x)') /\ (MethodsOK(x) => MethodsOK(x)')
  BY DEF GetOK, MethodsOK, Exists
<1> QED
  BY <1>6, <1>7 DEF CallOK

LEMMA ReadKeeps ==
  ASSUME ReadInv, NEW c \in Clients, UNCHANGED accounts,
         \E n \in Calls : CallOK(n) /\ call' = [call EXCEPT ![c] = n]
  PROVE  ReadInv'
<1>1. PICK n \in Calls : CallOK(n) /\ call' = [call EXCEPT ![c] = n]
  OBVIOUS
<1>2. Inv'
  BY DEF ReadInv, Inv, TypeOK, EveryUserIsSound, Exists
<1>3. call' \in [Clients -> Calls]
  BY <1>1 DEF ReadInv
<1>4. ASSUME NEW d \in Clients, NEW x \in Calls, call'[d] = x PROVE CallOK(x)'
  <2>1. CallOK(x)
    BY <1>1, <1>4 DEF ReadInv
  <2> QED
    BY <2>1, UnchangedAccounts
<1> QED
  BY <1>2, <1>3, <1>4 DEF ReadInv

LEMMA StartWalkKeeps ==
  ASSUME ReadInv, NEW c \in Clients, NEW query \in Queries, StartWalk(c, query) PROVE ReadInv'
<1> DEFINE M == Matching(query.search)
           w == Walk(query, 1, M, {}, 0)
<1>1. M \subseteq UserIds
  BY DEF Matching
<1>2. w \in Walks
  BY <1>1 DEF Walk, Walks
<1>3. \A u \in M : Place(u, query) \in Nat
  BY PlaceType
<1>4. Offset(query, 1) = 0
  BY OffsetType
<1>5. WalkOK(w)
  <2> HIDE DEF M
  <2>1. NobodyIsBehind(w)
    BY <1>3, <1>4 DEF NobodyIsBehind, Walk
  <2>2. {u \in M : Place(u, query) < 0} = {}
    BY <1>3
  <2>3. PlacesAreSeenOnce(w)
    BY <2>2, <1>4, FS_EmptySet DEF PlacesAreSeenOnce, Walk
  <2>4. w.there = M /\ w.query = query
    BY DEF Walk
  <2> QED
    BY <2>1, <2>3, <2>4 DEF WalkOK, M
<1>6. w \in Calls /\ w.op = "list"
  BY <1>2 DEF Calls, Walk
<1>7. CallOK(w)
  <2> HIDE DEF w
  <2> QED
    BY <1>5, <1>6 DEF CallOK
<1>8. call' = [call EXCEPT ![c] = w] /\ UNCHANGED accounts
  BY DEF StartWalk
<1> HIDE DEF w
<1> QED
  BY <1>6, <1>7, <1>8, ReadKeeps

LEMMA StartGetKeeps ==
  ASSUME ReadInv, NEW c \in Clients, NEW u \in UserIds, StartGet(c, u) PROVE ReadInv'
<1> DEFINE g == [op |-> "get", open |-> {"user"}, id |-> u, there |-> Exists(u), found |-> FALSE]
<1>1. g \in Gets
  BY DEF Gets, Exists
<1>2. CallOK(g)
  BY DEF CallOK, GetOK
<1>3. call' = [call EXCEPT ![c] = g] /\ UNCHANGED accounts
  BY DEF StartGet
<1> HIDE DEF g
<1> QED
  BY <1>1, <1>2, <1>3, ReadKeeps DEF Calls

LEMMA StartMethodsKeeps ==
  ASSUME ReadInv, NEW c \in Clients, NEW u \in UserIds, StartMethods(c, u) PROVE ReadInv'
<1> DEFINE m == [op |-> "methods", open |-> {"password", "oauth"}, id |-> u,
                 before |-> accounts[u], password |-> FALSE, oauth |-> {}]
<1>1. accounts[u] \in User \cup {NoUser}
  BY DEF ReadInv, Inv, TypeOK
<1>2. m \in MethodLists
  BY <1>1 DEF MethodLists
<1>3. CallOK(m)
  BY DEF CallOK, MethodsOK, Exists
<1>4. call' = [call EXCEPT ![c] = m] /\ UNCHANGED accounts
  BY DEF StartMethods
<1> HIDE DEF m
<1> QED
  BY <1>2, <1>3, <1>4, ReadKeeps DEF Calls

(* What an answer makes of a call of the same kind. *)
LEMMA SelectUserKeeps ==
  ASSUME ReadInv, NEW c \in Clients, SelectUser(c) PROVE ReadInv'
<1>1. PICK x \in Calls : call[c] = x
  BY DEF ReadInv
<1>2. "user" \in x.open
  BY <1>1 DEF SelectUser, Answered
<1>3. x \in Gets
  BY <1>2 DEF Calls, Idle, Walks, Gets, MethodLists
<1> DEFINE g == [[x EXCEPT !.found = CurrentUser(x.id)] EXCEPT !.open = @ \ {"user"}]
<1>4. g \in Gets
  BY <1>3 DEF Gets, CurrentUser, Exists
<1>5. GetOK(x)
  BY <1>1, <1>3 DEF ReadInv, CallOK, Gets
<1>6. CallOK(g)
  BY <1>3, <1>5 DEF CallOK, GetOK, Gets, CurrentUser
<1>7. call' = [call EXCEPT ![c] = g] /\ UNCHANGED accounts
  BY <1>1 DEF SelectUser, Answered
<1> HIDE DEF g
<1> QED
  BY <1>4, <1>6, <1>7, ReadKeeps DEF Calls

LEMMA SelectPasswordKeeps ==
  ASSUME ReadInv, NEW c \in Clients, SelectPassword(c) PROVE ReadInv'
<1>1. PICK x \in Calls : call[c] = x
  BY DEF ReadInv
<1>2. "password" \in x.open
  BY <1>1 DEF SelectPassword, Answered
<1>3. x \in MethodLists
  BY <1>2 DEF Calls, Idle, Walks, Gets, MethodLists
<1> DEFINE m == [[x EXCEPT !.password = HasPassword(x.id)] EXCEPT !.open = @ \ {"password"}]
<1>4. m \in MethodLists
  BY <1>3 DEF MethodLists, HasPassword, Exists
<1>5. MethodsOK(x)
  BY <1>1, <1>3 DEF ReadInv, CallOK, MethodLists
<1>6. CallOK(m)
  BY <1>3, <1>5 DEF CallOK, MethodsOK, MethodLists, HasPassword
<1>7. call' = [call EXCEPT ![c] = m] /\ UNCHANGED accounts
  BY <1>1 DEF SelectPassword, Answered
<1> HIDE DEF m
<1> QED
  BY <1>4, <1>6, <1>7, ReadKeeps DEF Calls

LEMMA SelectAccountsKeeps ==
  ASSUME ReadInv, NEW c \in Clients, SelectAccounts(c) PROVE ReadInv'
<1>1. PICK x \in Calls : call[c] = x
  BY DEF ReadInv
<1>2. "oauth" \in x.open
  BY <1>1 DEF SelectAccounts, Answered
<1>3. x \in MethodLists
  BY <1>2 DEF Calls, Idle, Walks, Gets, MethodLists
<1> DEFINE m == [[x EXCEPT !.oauth = AccountsOf(x.id)] EXCEPT !.open = @ \ {"oauth"}]
<1>4. AccountsOf(x.id) \in SUBSET Account
  BY <1>3 DEF AccountsOf, MethodLists, ReadInv, Inv, TypeOK, Exists, User
<1>5. m \in MethodLists
  BY <1>3, <1>4 DEF MethodLists
<1>6. MethodsOK(x)
  BY <1>1, <1>3 DEF ReadInv, CallOK, MethodLists
<1>7. CallOK(m)
  BY <1>3, <1>6 DEF CallOK, MethodsOK, MethodLists, AccountsOf
<1>8. call' = [call EXCEPT ![c] = m] /\ UNCHANGED accounts
  BY <1>1 DEF SelectAccounts, Answered
<1> HIDE DEF m
<1> QED
  BY <1>5, <1>7, <1>8, ReadKeeps DEF Calls
LEMMA SelectPageKeeps ==
  ASSUME ReadInv, NEW c \in Clients, SelectPage(c) PROVE ReadInv'
<1>1. PICK x \in Calls : call[c] = x
  BY DEF ReadInv
<1>2. PICK tie \in Ties : Answered(c, "page", [x EXCEPT !.rows = Page(x.query, x.page, tie)])
  BY <1>1 DEF SelectPage
<1>3. "page" \in x.open
  BY <1>1, <1>2 DEF Answered
<1>4. x \in Walks
  BY <1>3 DEF Calls, Idle, Walks, Gets, MethodLists
<1> DEFINE P == Page(x.query, x.page, tie)
           w == [[x EXCEPT !.rows = P] EXCEPT !.open = @ \ {"page"}]
           o == Offset(x.query, x.page)
           l == x.query.limit
<1>5. P \subseteq UserIds
  BY DEF Page, Matching
<1>6. w \in Walks
  BY <1>4, <1>5 DEF Walks
<1>7. /\ w.query = x.query /\ w.page = x.page /\ w.there = x.there /\ w.seen = x.seen
      /\ w.listed = x.listed /\ w.over = x.over /\ w.total = x.total
      /\ w.rows = P /\ w.open = x.open \ {"page"} /\ w.op = "list" /\ x.op = "list"
  BY <1>4 DEF Walks
<1>8. WalkOK(x) /\ TypeOK
  BY <1>1, <1>7 DEF ReadInv, CallOK, Inv
<1>9. x.query \in Queries /\ x.page \in Nat \ {0} /\ o \in Nat /\ l \in Nat \ {0}
  BY <1>4, OffsetType DEF Walks
<1> HIDE DEF w, P, o, l
<1>10. ASSUME Untied(x.query) PROVE P = {u \in Matching(x.query.search) : Place(u, x.query) \in o..(o + l - 1)}
  BY <1>8, <1>9, <1>10, PageIsPlaces DEF P, o, l
<1>11. ASSUME Untied(x.query) PROVE NobodyIsBehind(w)
  <2>1. NobodyIsBehind(x)
    BY <1>8, <1>11 DEF WalkOK
  <2>2. ASSUME ~x.over, NEW u \in x.there, u \notin x.seen, u \notin P
        PROVE  o + l <= Place(u, x.query) /\ l <= Cardinality(P)
    <3>1. u \in Matching(x.query.search)
      BY <1>8 DEF WalkOK
    <3>2. o <= Place(u, x.query) /\ Place(u, x.query) \in Nat
      BY <2>1, <2>2, <1>3, PlaceType DEF NobodyIsBehind, o
    <3>3. o + l <= Place(u, x.query)
      BY <1>9, <1>10, <1>11, <2>2, <3>1, <3>2
    <3> QED
      BY <1>8, <1>9, <1>11, <3>1, <3>3, PagesBeforeAreFull DEF P, o, l
  <2> QED
    BY <2>1, <2>2, <1>7 DEF NobodyIsBehind, o, l
<1>12. ASSUME Untied(x.query), Matching(x.query.search) = x.there PROVE PlacesAreSeenOnce(w)
  <2>1. PlacesAreSeenOnce(x)
    BY <1>8, <1>12 DEF WalkOK
  <2>2. P = {u \in x.there : Place(u, x.query) \in o..(o + l - 1)}
    BY <1>10, <1>12
  <2> QED
    BY <2>1, <2>2, <1>7 DEF PlacesAreSeenOnce, o, l
<1>13. CallOK(w)
  BY <1>7, <1>8, <1>11, <1>12 DEF CallOK, WalkOK
<1>14. call' = [call EXCEPT ![c] = w] /\ UNCHANGED accounts
  BY <1>1, <1>2 DEF Answered, w, P
<1> QED
  BY <1>6, <1>13, <1>14, ReadKeeps DEF Calls

LEMMA CountUsersKeeps ==
  ASSUME ReadInv, NEW c \in Clients, CountUsers(c) PROVE ReadInv'
<1>1. PICK x \in Calls : call[c] = x
  BY DEF ReadInv
<1>2. "count" \in x.open
  BY <1>1 DEF CountUsers, Answered
<1>3. x \in Walks
  BY <1>2 DEF Calls, Idle, Walks, Gets, MethodLists
<1> DEFINE t == Cardinality(Matching(x.query.search))
           w == [[x EXCEPT !.total = t] EXCEPT !.open = @ \ {"count"}]
<1>4. t \in Nat
  BY MatchingIsFinite, FS_CardinalityType
<1>5. w \in Walks
  BY <1>3, <1>4 DEF Walks
<1>6. /\ w.query = x.query /\ w.page = x.page /\ w.there = x.there /\ w.seen = x.seen
      /\ w.listed = x.listed /\ w.over = x.over /\ w.total = t
      /\ w.rows = x.rows /\ w.open = x.open \ {"count"} /\ w.op = "list" /\ x.op = "list"
  BY <1>3 DEF Walks
<1>7. WalkOK(x)
  BY <1>1, <1>6 DEF ReadInv, CallOK
<1>8. call' = [call EXCEPT ![c] = w] /\ UNCHANGED accounts
  BY <1>1 DEF CountUsers, Answered
<1>9. t = Cardinality(Matching(x.query.search))
  OBVIOUS
<1> HIDE DEF w, t
<1>10. NobodyIsBehind(x) => NobodyIsBehind(w)
  BY <1>6 DEF NobodyIsBehind
<1>11. PlacesAreSeenOnce(x) /\ Matching(x.query.search) = x.there => PlacesAreSeenOnce(w)
  BY <1>6, <1>9 DEF PlacesAreSeenOnce
<1>12. CallOK(w)
  BY <1>6, <1>7, <1>10, <1>11 DEF CallOK, WalkOK
<1> QED
  BY <1>5, <1>8, <1>12, ReadKeeps DEF Calls

(* An answered page is whole, and with a short one the walk has seen all. *)
LEMMA AnswerListKeeps ==
  ASSUME ReadInv, NEW c \in Clients, AnswerList(c) PROVE ReadInv'
<1>1. PICK x \in Calls : call[c] = x
  BY DEF ReadInv
<1>2. x.op = "list" /\ x.open = {} /\ ~x.over
  BY <1>1 DEF AnswerList
<1>3. x \in Walks
  BY <1>2 DEF Calls, Idle, Walks, Gets, MethodLists
<1> DEFINE seen == x.seen \cup x.rows
           listed == x.listed + Cardinality(x.rows)
           o == Offset(x.query, x.page)
           l == x.query.limit
<1>4. WalkOK(x)
  BY <1>1, <1>2 DEF ReadInv, CallOK
<1>5. /\ x.query \in Queries /\ x.page \in Nat \ {0} /\ o \in Nat /\ l \in Nat \ {0}
      /\ x.page + 1 \in Nat \ {0} /\ Offset(x.query, x.page + 1) = o + l
  BY <1>3, OffsetType DEF Walks
<1>6. /\ x.rows \in SUBSET UserIds /\ x.seen \in SUBSET UserIds /\ x.listed \in Nat
      /\ x.there \in SUBSET UserIds
  BY <1>3 DEF Walks
<1>7. /\ IsFiniteSet(x.rows) /\ IsFiniteSet(x.seen)
      /\ Cardinality(x.rows) \in Nat /\ Cardinality(x.seen) \in Nat
  BY <1>6, IdsAreFinite, FS_Subset, FS_CardinalityType
<1>8. seen \in SUBSET UserIds /\ listed \in Nat
  BY <1>6, <1>7
<1>9. ASSUME PlacesAreSeenOnce(x)
      PROVE  /\ seen = {u \in x.there : Place(u, x.query) < o + l}
             /\ listed = Cardinality(seen)
             /\ x.total = Cardinality(x.there)
  <2>1. /\ x.seen = {u \in x.there : Place(u, x.query) < o}
        /\ x.rows = {u \in x.there : Place(u, x.query) \in o..(o + l - 1)}
        /\ x.listed = Cardinality(x.seen)
        /\ x.total = Cardinality(x.there)
    BY <1>2, <1>9 DEF PlacesAreSeenOnce
  <2>2. \A u : Place(u, x.query) \in Nat
    BY PlaceType
  <2> HIDE DEF o, l
  <2>3. seen = {u \in x.there : Place(u, x.query) < o + l}
    BY <2>1, <2>2, <1>5
  <2>4. x.seen \cap x.rows = {}
    BY <2>1, <2>2, <1>5
  <2>5. Cardinality(x.seen \cup x.rows) = Cardinality(x.seen) + Cardinality(x.rows) - Cardinality({})
    BY <2>4, <1>7, FS_Union
  <2>6. Cardinality(x.seen \cup x.rows) = Cardinality(x.seen) + Cardinality(x.rows)
    BY <2>5, <1>7, FS_EmptySet
  <2> QED
    BY <2>1, <2>3, <2>6
<1>10. CASE Cardinality(x.rows) < l
  <2> DEFINE w == [x EXCEPT !.seen = seen, !.listed = listed, !.over = TRUE]
  <2>1. w \in Walks
    BY <1>3, <1>8 DEF Walks
  <2>2. /\ w.query = x.query /\ w.page = x.page /\ w.there = x.there /\ w.seen = seen
        /\ w.listed = listed /\ w.over = TRUE /\ w.total = x.total
        /\ w.rows = x.rows /\ w.open = {} /\ w.op = "list"
    BY <1>2, <1>3 DEF Walks
  <2>3. call' = [call EXCEPT ![c] = w] /\ UNCHANGED accounts
    <3>1. call' = [call EXCEPT ![c].seen = seen, ![c].listed = listed, ![c].over = TRUE]
      BY <1>1, <1>10 DEF AnswerList
    <3>2. call \in [Clients -> Calls]
      BY DEF ReadInv
    <3> HIDE DEF seen, listed
    <3> QED
      BY <1>1, <3>1, <3>2 DEF AnswerList
  <2> HIDE DEF w
  <2>4. NobodyIsBehind(x) => x.there \subseteq seen
    BY <1>2, <1>5, <1>7, <1>10 DEF NobodyIsBehind
  <2>5. NobodyIsBehind(x) => NobodyIsBehind(w)
    BY <2>2, <2>4 DEF NobodyIsBehind
  <2>6. ASSUME NobodyIsBehind(x), PlacesAreSeenOnce(x) PROVE PlacesAreSeenOnce(w)
    <3>1. seen = x.there
      BY <1>9, <2>4, <2>6
    <3> QED
      BY <1>9, <2>2, <2>6, <3>1 DEF PlacesAreSeenOnce
  <2>7. CallOK(w)
    BY <1>4, <2>2, <2>5, <2>6 DEF CallOK, WalkOK
  <2> QED
    BY <2>1, <2>3, <2>7, ReadKeeps DEF Calls
<1>11. CASE ~(Cardinality(x.rows) < l)
  <2> DEFINE w == Walk(x.query, x.page + 1, x.there, seen, listed)
  <2>1. w \in Walks
    BY <1>5, <1>6, <1>8 DEF Walk, Walks
  <2>2. /\ w.query = x.query /\ w.page = x.page + 1 /\ w.there = x.there /\ w.seen = seen
        /\ w.listed = listed /\ w.over = FALSE /\ w.open = {"page", "count"} /\ w.op = "list"
    BY DEF Walk
  <2>3. call' = [call EXCEPT ![c] = w] /\ UNCHANGED accounts
    BY <1>1, <1>11 DEF AnswerList
  <2> HIDE DEF w
  <2>4. NobodyIsBehind(x) => NobodyIsBehind(w)
    BY <1>2, <1>5, <2>2 DEF NobodyIsBehind
  <2>5. PlacesAreSeenOnce(x) => PlacesAreSeenOnce(w)
    BY <1>5, <1>9, <2>2 DEF PlacesAreSeenOnce
  <2>6. CallOK(w)
    BY <1>4, <2>2, <2>4, <2>5 DEF CallOK, WalkOK
  <2> QED
    BY <2>1, <2>3, <2>6, ReadKeeps DEF Calls
<1> QED
  BY <1>10, <1>11

-----------------------------------------------------------------------------
(* The theorems *)

LEMMA ReadInitInv == ReadInit => ReadInv
<1>1. ReadInit => Inv
  BY InitInv DEF ReadInit
<1>2. CallOK(Idle)
  BY DEF CallOK, Idle
<1> QED
  BY <1>1, <1>2 DEF ReadInit, ReadInv, Calls

LEMMA ReadNextInv == ReadInv /\ [ReadNext]_readVars => ReadInv'
<1> SUFFICES ASSUME ReadInv, [ReadNext]_readVars PROVE ReadInv'
  OBVIOUS
<1>1. CASE Next /\ UNCHANGED call
  <2>1. Inv'
    BY <1>1, NextInv DEF ReadInv
  <2>2. ASSUME NEW c \in Clients, NEW x \in Calls, call'[c] = x PROVE CallOK(x)'
    BY <1>1, <2>2, CallStays DEF ReadInv
  <2> QED
    BY <1>1, <2>1, <2>2 DEF ReadInv
<1>2. ASSUME NEW c \in Clients, Read(c) PROVE ReadInv'
  BY <1>2, StartWalkKeeps, SelectPageKeeps, CountUsersKeeps, AnswerListKeeps, StartGetKeeps,
     SelectUserKeeps, StartMethodsKeeps, SelectPasswordKeeps, SelectAccountsKeeps DEF Read
<1>3. CASE UNCHANGED readVars
  <2>1. UNCHANGED accounts /\ UNCHANGED call
    BY <1>3 DEF readVars
  <2>2. Inv'
    BY <2>1, NextInv DEF ReadInv
  <2>3. ASSUME NEW c \in Clients, NEW x \in Calls, call'[c] = x PROVE CallOK(x)'
    BY <2>1, <2>3, UnchangedAccounts DEF ReadInv
  <2> QED
    BY <2>1, <2>2, <2>3 DEF ReadInv
<1> QED
  BY <1>1, <1>2, <1>3 DEF ReadNext

LEMMA ReadsKeepInv == ReadSpec => []ReadInv
  BY ReadInitInv, ReadNextInv, PTL DEF ReadSpec

(* What a client holds is always well-typed, over well-typed users. *)
THEOREM ReadTypeCorrectness == ReadSpec => []ReadTypeOK
<1>1. ReadInv => ReadTypeOK
  BY DEF ReadInv, Inv, ReadTypeOK, Calls
<1> QED
  BY <1>1, ReadsKeepInv, PTL

(* Whoever was registered when a client began to read pages is on one of     *)
(* them, for any number of users and registrations and any page size         *)
(* (drizzle-users.queries.ts:45).                                            *)
THEOREM PagesSkipNobody == ReadSpec => []WalkSeesEveryone
<1>1. ReadInv => WalkSeesEveryone
  <2> SUFFICES ASSUME ReadInv, NEW c \in Clients, WalkIsOver(c), Untied(call[c].query)
               PROVE  call[c].there \subseteq call[c].seen
    BY DEF WalkSeesEveryone
  <2>1. PICK x \in Calls : call[c] = x
    BY DEF ReadInv
  <2>2. CallOK(x) /\ x.op = "list" /\ x.over /\ Untied(x.query)
    BY <2>1 DEF ReadInv, WalkIsOver
  <2> QED
    BY <2>1, <2>2 DEF CallOK, WalkOK, NobodyIsBehind
<1> QED
  BY <1>1, ReadsKeepInv, PTL

(* Where nobody who matches registers meanwhile, pages hold everybody once   *)
(* and the total counts them.                                                *)
THEOREM QuietWalksAreExact == ReadSpec => []UndisturbedWalkIsExact
<1>1. ReadInv => UndisturbedWalkIsExact
  <2> SUFFICES ASSUME ReadInv, NEW c \in Clients, WalkIsOver(c), Untied(call[c].query),
                      Matching(call[c].query.search) = call[c].there
               PROVE  /\ call[c].listed = Cardinality(call[c].there)
                      /\ call[c].total = Cardinality(call[c].there)
    BY DEF UndisturbedWalkIsExact
  <2>1. PICK x \in Calls : call[c] = x
    BY DEF ReadInv
  <2>2. /\ CallOK(x) /\ x.op = "list" /\ x.over /\ Untied(x.query)
        /\ Matching(x.query.search) = x.there
    BY <2>1 DEF ReadInv, WalkIsOver
  <2> QED
    BY <2>1, <2>2 DEF CallOK, WalkOK, PlacesAreSeenOnce
<1> QED
  BY <1>1, ReadsKeepInv, PTL

(* UserNotFound is never the answer about somebody who was registered when   *)
(* the request came (get-user.handler.ts:20).                                *)
THEOREM NotFoundIsTrue == ReadSpec => []NotFoundMeansAbsent
<1>1. ReadInv => NotFoundMeansAbsent
  <2> SUFFICES ASSUME ReadInv, NEW c \in Clients, call[c].op = "get", call[c].open = {},
                      ~call[c].found
               PROVE  ~call[c].there
    BY DEF NotFoundMeansAbsent
  <2>1. PICK x \in Calls : call[c] = x
    BY DEF ReadInv
  <2>2. CallOK(x)
    BY <2>1 DEF ReadInv
  <2> QED
    BY <2>1, <2>2 DEF CallOK, GetOK
<1> QED
  BY <1>1, ReadsKeepInv, PTL

(* A list of sign-in methods of a user nobody changed is the user's own, and *)
(* is not empty (drizzle-users.queries.ts:90).                               *)
THEOREM MethodsAreWhole == ReadSpec => []MethodsAreTornOnlyByChanges
<1>1. ReadInv => MethodsAreTornOnlyByChanges
  <2> SUFFICES ASSUME ReadInv, NEW c \in Clients, call[c].op = "methods", call[c].open = {},
                      Exists(call[c].id), accounts[call[c].id] = call[c].before
               PROVE  /\ call[c].password <=> call[c].before.password # NoPassword
                      /\ call[c].oauth = call[c].before.accounts
                      /\ call[c].password \/ call[c].oauth # {}
    BY DEF MethodsAreTornOnlyByChanges
  <2>1. PICK x \in Calls : call[c] = x
    BY DEF ReadInv
  <2>2. x \in MethodLists /\ MethodsOK(x)
    BY <2>1 DEF ReadInv, CallOK, Calls, Idle, Walks, Gets, MethodLists
  <2>3. x.before # NoUser /\ x.id \in UserIds
    BY <2>1, <2>2 DEF Exists, MethodLists
  <2>4. (x.password <=> x.before.password # NoPassword) /\ x.oauth = x.before.accounts
    BY <2>1, <2>2, <2>3 DEF MethodsOK
  <2>5. Sound(x.before)
    BY <2>1, <2>3 DEF ReadInv, Inv, EveryUserIsSound
  <2>6. x.before.password # NoPassword \/ x.before.accounts # {}
    BY <2>5, FS_EmptySet DEF Sound, CanSignIn, MethodCount
  <2> QED
    BY <2>1, <2>4, <2>6
<1> QED
  BY <1>1, ReadsKeepInv, PTL
=============================================================================
