--------------------------- MODULE UsersReadPath ---------------------------
(***************************************************************************)
(* The read side of the users: DrizzleUsersQueries, the handlers over it   *)
(* and what its clients piece together.  Reads run outside a transaction,  *)
(* each statement on a connection and a snapshot of its own, while units   *)
(* of work commit: the users are those of AtomicAccounts, which the write  *)
(* path implements.                                                        *)
(*                                                                         *)
(* A page is a set: rows are told apart by the page they are on, not by    *)
(* their place on it.  A search is the set of addresses it matches.        *)
(***************************************************************************)
EXTENDS AtomicAccounts

CONSTANTS
  Clients,
  Searches,    \* subsets of Emails; all of them where there is no search
  Limits,      \* page sizes
  CreatedAt,   \* the time an id is drawn at: one clock gives both
  EmailOrder,  \* the place of an address in the order of its column
  Ties         \* orders the database may leave rows in that sort alike

ASSUME IdsAreFinite == IsFiniteSet(UserIds)
ASSUME SearchesMatchEmails == Searches \subseteq SUBSET Emails
ASSUME LimitsArePositive == Limits \subseteq Nat \ {0}
ASSUME TimesAreNumbers == CreatedAt \in [UserIds -> Nat]
ASSUME EmailsAreOrdered ==
  /\ EmailOrder \in [Emails -> Nat]
  /\ \A a, b \in Emails : EmailOrder[a] = EmailOrder[b] => a = b
ASSUME TiesAreOrders ==
  /\ Ties \subseteq [UserIds -> Nat]
  /\ \A tie \in Ties : \A u, v \in UserIds : tie[u] = tie[v] => u = v
VARIABLE call   \* what each client asks; open are the statements still to answer

readVars == <<accounts, call>>

Sorts == [field : {"createdAt", "email"}, descending : BOOLEAN]

Queries == [sort : Sorts, search : Searches, limit : Limits]

-----------------------------------------------------------------------------
(* The statements *)

Column(u, field) == IF field = "email" THEN EmailOrder[accounts[u].email] ELSE CreatedAt[u]

(* ORDER BY one column, nothing after it. *)
Precedes(u, v, sort, tie) ==
  LET a == Column(u, sort.field)
      b == Column(v, sort.field)
  IN \/ IF sort.descending THEN a > b ELSE a < b
     \/ a = b /\ tie[u] < tie[v]

Matching(search) == {u \in UserIds : Exists(u) /\ accounts[u].email \in search}

Rank(u, query, tie) ==
  Cardinality({v \in Matching(query.search) : Precedes(v, u, query.sort, tie)})

(* Bug: pages counted from zero. *)
OffsetFromZero(query, page) == page * query.limit

Offset(query, page) == (page - 1) * query.limit

(* Bug: LIMIT one too many. *)
PageAndOneMore(query, page, tie) ==
  {u \in Matching(query.search) :
     Rank(u, query, tie) \in Offset(query, page)..(Offset(query, page) + query.limit)}

(* LIMIT and OFFSET *)
Page(query, page, tie) ==
  {u \in Matching(query.search) :
     Rank(u, query, tie) \in Offset(query, page)..(Offset(query, page) + query.limit - 1)}

HasPassword(u) == Exists(u) /\ accounts[u].password # NoPassword

(* Bug: an inner join with the password credentials. *)
UserByCredential(u) == HasPassword(u)

CurrentUser(u) == Exists(u)

(* Bug: only the accounts of verified users are listed. *)
VerifiedAccounts(u) == IF Exists(u) /\ accounts[u].verified THEN accounts[u].accounts ELSE {}

AccountsOf(u) == IF Exists(u) THEN accounts[u].accounts ELSE {}

-----------------------------------------------------------------------------
(* The calls *)

Idle == [op |-> "idle", open |-> {}]

(* The answer to a statement of the call of c. *)
Answered(c, statement, answer) ==
  /\ statement \in call[c].open
  /\ call' = [call EXCEPT ![c] = [answer EXCEPT !.open = @ \ {statement}]]
  /\ UNCHANGED accounts

(* A client that reads page after page until one is short.  What was there  *)
(* when it started, whom it has seen and how many rows that took are noted. *)
Walk(query, page, there, seen, listed) ==
  [op |-> "list", open |-> {"page", "count"}, query |-> query, page |-> page, rows |-> {},
   total |-> 0, there |-> there, seen |-> seen, listed |-> listed, over |-> FALSE]

ReadInit == Init /\ call = [c \in Clients |-> Idle]

StartWalk(c, query) ==
  /\ call[c] = Idle
  /\ call' = [call EXCEPT ![c] = Walk(query, 1, Matching(query.search), {}, 0)]
  /\ UNCHANGED accounts

(* ListUsersHandler and list: the page and the count, concurrently. *)
SelectPage(c) ==
  \E tie \in Ties :
    Answered(c, "page", [call[c] EXCEPT !.rows = Page(call[c].query, call[c].page, tie)])

CountUsers(c) ==
  Answered(c, "count", [call[c] EXCEPT !.total = Cardinality(Matching(call[c].query.search))])

(* The client then asks for the next page, unless this one is short. *)
AnswerList(c) ==
  /\ call[c].op = "list" /\ call[c].open = {} /\ ~call[c].over
  /\ LET seen   == call[c].seen \cup call[c].rows
         listed == call[c].listed + Cardinality(call[c].rows)
     IN IF Cardinality(call[c].rows) < call[c].query.limit
        THEN call' = [call EXCEPT ![c].seen = seen, ![c].listed = listed, ![c].over = TRUE]
        ELSE call' = [call EXCEPT ![c] = Walk(call[c].query, call[c].page + 1,
                                              call[c].there, seen, listed)]
  /\ UNCHANGED accounts

(* GetUserHandler and byId: one statement.  found is FALSE for UserNotFound. *)
StartGet(c, u) ==
  /\ call[c] = Idle
  /\ call' = [call EXCEPT ![c] = [op |-> "get", open |-> {"user"}, id |-> u,
                                  there |-> Exists(u), found |-> FALSE]]
  /\ UNCHANGED accounts

SelectUser(c) ==
  Answered(c, "user", [call[c] EXCEPT !.found = CurrentUser(call[c].id)])

(* methodsOf: two statements, concurrently.  The user at the start is noted. *)
StartMethods(c, u) ==
  /\ call[c] = Idle
  /\ call' = [call EXCEPT ![c] = [op |-> "methods", open |-> {"password", "oauth"}, id |-> u,
                                  before |-> accounts[u], password |-> FALSE, oauth |-> {}]]
  /\ UNCHANGED accounts

SelectPassword(c) ==
  Answered(c, "password", [call[c] EXCEPT !.password = HasPassword(call[c].id)])

SelectAccounts(c) ==
  Answered(c, "oauth", [call[c] EXCEPT !.oauth = AccountsOf(call[c].id)])

Read(c) ==
  \/ \E query \in Queries : StartWalk(c, query)
  \/ SelectPage(c)
  \/ CountUsers(c)
  \/ AnswerList(c)
  \/ \E u \in UserIds : StartGet(c, u) \/ StartMethods(c, u)
  \/ SelectUser(c)
  \/ SelectPassword(c)
  \/ SelectAccounts(c)

ReadNext == \/ Next /\ UNCHANGED call
            \/ \E c \in Clients : Read(c)

ReadSpec == ReadInit /\ [][ReadNext]_readVars

-----------------------------------------------------------------------------
(* What clients may rely on *)

Walks ==
  [op : {"list"}, open : SUBSET {"page", "count"}, query : Queries, page : Nat \ {0},
   rows : SUBSET UserIds, total : Nat, there : SUBSET UserIds, seen : SUBSET UserIds,
   listed : Nat, over : BOOLEAN]
Gets == [op : {"get"}, open : SUBSET {"user"}, id : UserIds, there : BOOLEAN, found : BOOLEAN]
MethodLists ==
  [op : {"methods"}, open : SUBSET {"password", "oauth"}, id : UserIds,
   before : User \cup {NoUser}, password : BOOLEAN, oauth : SUBSET Account]

ReadTypeOK == TypeOK /\ call \in [Clients -> {Idle} \cup Walks \cup Gets \cup MethodLists]

(* No two rows that match sort alike. *)
Untied(query) ==
  \A u, v \in Matching(query.search) :
    Column(u, query.sort.field) = Column(v, query.sort.field) => u = v

WalkIsOver(c) == call[c].op = "list" /\ call[c].over

(* Offset pages over a table that grows (drizzle-users.queries.ts:45-46,     *)
(* list-users.handler.ts:17): a client that reads until a page is short has  *)
(* seen everybody who was there when it started, whoever registers in        *)
(* between and shifts the pages.  Where rows sort alike it may not: nothing  *)
(* follows the column in ORDER BY, and Untied leaves those searches out.     *)
WalkSeesEveryone ==
  \A c \in Clients :
    WalkIsOver(c) /\ Untied(call[c].query) => call[c].there \subseteq call[c].seen

(* If nobody who matches registered meanwhile, the pages hold everybody      *)
(* once and the total counts them (list-users.ts: items and meta.total).     *)
UndisturbedWalkIsExact ==
  \A c \in Clients :
    /\ WalkIsOver(c) /\ Untied(call[c].query)
    /\ Matching(call[c].query.search) = call[c].there
    => /\ call[c].listed = Cardinality(call[c].there)
       /\ call[c].total = Cardinality(call[c].there)

(* UserNotFound (get-user.handler.ts:20-22) is the truth: whoever was        *)
(* registered before the request came, whatever became of it, is found.      *)
NotFoundMeansAbsent ==
  \A c \in Clients :
    call[c].op = "get" /\ call[c].open = {} /\ ~call[c].found => ~call[c].there

(* methodsOf assembles its list from two snapshots                           *)
(* (drizzle-users.queries.ts:90-105): it may be one that the user never      *)
(* had, an empty one even, but only if the user was changed meanwhile.       *)
MethodsAreTornOnlyByChanges ==
  \A c \in Clients :
    /\ call[c].op = "methods" /\ call[c].open = {}
    /\ Exists(call[c].id) /\ accounts[call[c].id] = call[c].before
    => /\ call[c].password <=> call[c].before.password # NoPassword
       /\ call[c].oauth = call[c].before.accounts
       /\ call[c].password \/ call[c].oauth # {}
=============================================================================
