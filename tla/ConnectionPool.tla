---------------------------- MODULE ConnectionPool ----------------------------
(***************************************************************************)
(* Requests share a pool of connections (DatabaseModule) until the process *)
(* is told to stop.  A registration keeps one connection from BEGIN to     *)
(* COMMIT, over the hashing of the password; a list asks for two at once;  *)
(* GET /users/:id and the health probe ask for one.  Waiting for a         *)
(* connection may time out.  On a signal the server closes once every      *)
(* request it took is answered, and only then is the pool ended.           *)
(*                                                                         *)
(* The database answers every statement (the pool sets no limit to that),  *)
(* but connections break and new ones are refused.  Nobody listens to the  *)
(* errors of the pool, or of a connection that a transaction has taken out *)
(* of it: one that breaks there takes the process with it.                 *)
(***************************************************************************)
EXTENDS Naturals, FiniteSets

CONSTANTS
  Requests,
  Kind,      \* what each request asks for
  Max        \* connections of the pool

(* read: GET /users/:id, and the health probe, which answers "down" for failed. *)
Kinds == {"register", "list", "read"}

ASSUME RequestsAreFinite == IsFiniteSet(Requests)
ASSUME KindsAreKnown == Kind \in [Requests -> Kinds]
ASSUME MaxIsPositive == Max \in Nat \ {0}

VARIABLES
  server,    \* listening, closing on a signal, closed; the process gone, or crashed
  pool,      \* open, ending, ended
  idle,      \* how many connections are open and free
  phase,     \* of each request
  at,        \* where the transaction of a registration is
  state,     \* of each statement; a transaction is its request's first one
  ahead      \* the statements that waited before it when it was sent

vars == <<server, pool, idle, phase, at, state, ahead>>

Statements == Requests \X {1, 2}

StatementsOf(r) == IF Kind[r] = "list" THEN {<<r, 1>>, <<r, 2>>} ELSE {<<r, 1>>}

In(s) == {v \in Statements : state[v] = s}

Transaction(r) == <<r, 1>>

InTransaction(r) == Kind[r] = "register" /\ state[Transaction(r)] = "running"

Alive == server \notin {"gone", "crashed"}

Init ==
  /\ server = "listening"
  /\ pool = "open"
  /\ idle = 0
  /\ phase = [r \in Requests |-> "outside"]
  /\ at = [r \in Requests |-> "lookup"]
  /\ state = [s \in Statements |-> "unsent"]
  /\ ahead = [s \in Statements |-> {}]

-----------------------------------------------------------------------------
(* The pool *)

(* Statements queue in the order they are sent; an ended pool refuses them. *)
Send(statements) ==
  /\ state' = [s \in Statements |->
                 IF s \notin statements THEN state[s]
                 ELSE IF pool = "open" THEN "queued" ELSE "refused"]
  /\ ahead' = [s \in Statements |->
                 IF s \notin statements THEN ahead[s]
                 ELSE In("queued") \cup {v \in statements : v[2] < s[2]}]

IsFirst(s) == state[s] = "queued" /\ ahead[s] \cap In("queued") = {}

CanConnect == idle = 0 /\ Cardinality(In("running")) < Max

(* A free connection if there is one, else a new one.  An ending pool gives  *)
(* none.                                                                     *)
Grant(s) ==
  /\ Alive /\ pool = "open" /\ IsFirst(s)
  /\ idle > 0 \/ CanConnect
  /\ idle' = IF idle > 0 THEN idle - 1 ELSE 0
  /\ state' = [state EXCEPT ![s] = "running"]
  /\ ahead' = [ahead EXCEPT ![s] = {}]
  /\ UNCHANGED <<server, pool, phase, at>>

GivesUp(s) ==
  /\ state' = [state EXCEPT ![s] = "failed"]
  /\ ahead' = [ahead EXCEPT ![s] = {}]
  /\ UNCHANGED <<server, pool, idle, phase, at>>

(* connectionTimeoutMillis *)
TimeOut(s) == Alive /\ state[s] = "queued" /\ GivesUp(s)

(* The database refuses a new connection. *)
ConnectFails(s) == Alive /\ pool = "open" /\ IsFirst(s) /\ CanConnect /\ GivesUp(s)

(* The connection of a statement that is over is free for the next, unless   *)
(* it is destroyed, as the pool does with one whose query failed.            *)
Finish(s, outcome, destroyed) ==
  /\ Alive /\ state[s] = "running"
  /\ state' = [state EXCEPT ![s] = outcome]
  /\ idle' = IF pool = "open" /\ ~destroyed THEN idle + 1 ELSE idle
  /\ UNCHANGED <<server, pool, phase, at, ahead>>

(* idleTimeoutMillis *)
IdleTimeOut ==
  /\ Alive /\ idle > 0
  /\ idle' = idle - 1
  /\ UNCHANGED <<server, pool, phase, at, state, ahead>>

(* An 'error' that nobody listens to, of a free connection or of one that a  *)
(* transaction holds.                                                        *)
ConnectionBreaks ==
  /\ Alive
  /\ idle > 0 \/ \E r \in Requests : InTransaction(r)
  /\ server' = "crashed"
  /\ UNCHANGED <<pool, idle, phase, at, state, ahead>>

-----------------------------------------------------------------------------
(* Requests *)

Accept(r) ==
  /\ server = "listening"
  /\ phase[r] = "outside"
  /\ phase' = [phase EXCEPT ![r] = "accepted"]
  /\ UNCHANGED <<server, pool, idle, at, state, ahead>>

(* The pipe refuses what does not fit the contract. *)
Refuse(r) ==
  /\ Alive /\ phase[r] = "accepted"
  /\ phase' = [phase EXCEPT ![r] = "answered"]
  /\ UNCHANGED <<server, pool, idle, at, state, ahead>>

(* The handler sends its statements: BEGIN for @Transactional(), both of list. *)
Run(r) ==
  /\ Alive /\ phase[r] = "accepted"
  /\ phase' = [phase EXCEPT ![r] = "running"]
  /\ Send(StatementsOf(r))
  /\ UNCHANGED <<server, pool, idle, at>>

NextStep == [lookup |-> "hash", hash |-> "save", save |-> "commit"]

(* Bug: the save goes through the raw client, on a connection of its own. *)
StepOnRawClient(r) ==
  /\ Alive /\ InTransaction(r) /\ at[r] # "commit"
  /\ IF at[r] = "save" /\ state[<<r, 2>>] = "unsent"
     THEN Send({<<r, 2>>}) /\ UNCHANGED at
     ELSE /\ at[r] = "save" => state[<<r, 2>>] = "done"
          /\ at' = [at EXCEPT ![r] = NextStep[@]]
          /\ UNCHANGED <<state, ahead>>
  /\ UNCHANGED <<server, pool, idle, phase>>

(* RegisterUserHandler.execute, on the connection of its transaction. *)
Step(r) ==
  /\ Alive /\ InTransaction(r) /\ at[r] # "commit"
  /\ at' = [at EXCEPT ![r] = NextStep[@]]
  /\ UNCHANGED <<server, pool, idle, phase, state, ahead>>

Commit(r) == InTransaction(r) /\ at[r] = "commit" /\ Finish(Transaction(r), "done", FALSE)

Rollback(r) == InTransaction(r) /\ Finish(Transaction(r), "failed", FALSE)

(* Reads are answered by their statement alone. *)
Read(s, outcome) == ~InTransaction(s[1]) /\ Finish(s, outcome, outcome = "failed")

Failed(r) == \E s \in StatementsOf(r) : state[s] \in {"failed", "refused"}

Succeeded(r) == \A s \in StatementsOf(r) : state[s] = "done"

(* Bug: the first statement to answer answers the list. *)
AnswerFirst(r) ==
  /\ Alive /\ phase[r] = "running"
  /\ \E s \in StatementsOf(r) : state[s] \in {"done", "failed", "refused"}
  /\ phase' = [phase EXCEPT ![r] = "answered"]
  /\ UNCHANGED <<server, pool, idle, at, state, ahead>>

(* Promise.all: the first failure answers, whatever the other statement does. *)
Answer(r) ==
  /\ Alive /\ phase[r] = "running"
  /\ Failed(r) \/ Succeeded(r)
  /\ phase' = [phase EXCEPT ![r] = "answered"]
  /\ UNCHANGED <<server, pool, idle, at, state, ahead>>

-----------------------------------------------------------------------------
(* enableShutdownHooks: the server, then onApplicationShutdown, then the exit *)

Signal ==
  /\ server = "listening"
  /\ server' = "closing"
  /\ UNCHANGED <<pool, idle, phase, at, state, ahead>>

CloseServer ==
  /\ server = "closing"
  /\ \A r \in Requests : phase[r] \in {"outside", "answered"}
  /\ server' = "closed"
  /\ UNCHANGED <<pool, idle, phase, at, state, ahead>>

(* Bug: the pool is ended in onModuleDestroy, before the server closes. *)
EndPoolOnDestroy ==
  /\ server \in {"closing", "closed"} /\ pool = "open"
  /\ pool' = "ending" /\ idle' = 0
  /\ UNCHANGED <<server, phase, at, state, ahead>>

EndPool ==
  /\ server = "closed" /\ pool = "open"
  /\ pool' = "ending" /\ idle' = 0
  /\ UNCHANGED <<server, phase, at, state, ahead>>

(* Bug: a pool that also waits for the statements it will not grant. *)
PoolEndsWhenNobodyWaits ==
  /\ Alive /\ pool = "ending" /\ In("running") = {} /\ In("queued") = {}
  /\ pool' = "ended"
  /\ UNCHANGED <<server, idle, phase, at, state, ahead>>

(* pool.end() resolves when every connection is back. *)
PoolEnds ==
  /\ Alive /\ pool = "ending" /\ In("running") = {}
  /\ pool' = "ended"
  /\ UNCHANGED <<server, idle, phase, at, state, ahead>>

(* Bug: end() is called and not awaited. *)
ExitUnawaited ==
  /\ server = "closed" /\ pool # "open"
  /\ server' = "gone"
  /\ UNCHANGED <<pool, idle, phase, at, state, ahead>>

Exit ==
  /\ server = "closed" /\ pool = "ended"
  /\ server' = "gone"
  /\ UNCHANGED <<pool, idle, phase, at, state, ahead>>

Next ==
  \/ \E r \in Requests :
       \/ Accept(r)
       \/ Refuse(r)
       \/ Run(r)
       \/ Step(r)
       \/ Commit(r)
       \/ Rollback(r)
       \/ Answer(r)
  \/ \E s \in Statements :
       \/ Grant(s)
       \/ TimeOut(s)
       \/ ConnectFails(s)
       \/ \E outcome \in {"done", "failed"} : Read(s, outcome)
  \/ IdleTimeOut
  \/ ConnectionBreaks
  \/ Signal
  \/ CloseServer
  \/ EndPool
  \/ PoolEnds
  \/ Exit

(* Timers need not fire, nothing has to break and nobody need be refused;    *)
(* what was sent is answered.                                                *)
Fairness ==
  /\ \A r \in Requests :
       /\ WF_vars(Run(r))
       /\ WF_vars(Step(r))
       /\ WF_vars(Commit(r))
       /\ WF_vars(Answer(r))
  /\ \A s \in Statements :
       /\ WF_vars(Grant(s))
       /\ WF_vars(\E outcome \in {"done", "failed"} : Read(s, outcome))
  /\ WF_vars(CloseServer)
  /\ WF_vars(EndPool)
  /\ WF_vars(PoolEnds)
  /\ WF_vars(Exit)

Spec == Init /\ [][Next]_vars

FairSpec == Spec /\ Fairness

-----------------------------------------------------------------------------
TypeOK ==
  /\ server \in {"listening", "closing", "closed", "gone", "crashed"}
  /\ pool \in {"open", "ending", "ended"}
  /\ idle \in Nat
  /\ phase \in [Requests -> {"outside", "accepted", "running", "answered"}]
  /\ at \in [Requests -> {"lookup", "hash", "save", "commit"}]
  /\ state \in [Statements -> {"unsent", "queued", "running", "done", "failed", "refused"}]
  /\ ahead \in [Statements -> SUBSET Statements]

(* A request taken before the signal, whenever its handler runs, never meets *)
(* an ended pool (database.module.ts:106: the pool is ended on application   *)
(* shutdown, after the server has closed).                                   *)
NoRequestMeetsAnEndedPool == \A s \in Statements : state[s] # "refused"

(* "The pool closes on shutdown so the process can exit"                     *)
(* (database.module.ts:50): by then every request taken has been answered    *)
(* and no statement, not one its request gave up on either, is cut short.    *)
ExitCutsNothingShort ==
  server = "gone" =>
    /\ \A r \in Requests : phase[r] \in {"outside", "answered"}
    /\ In("running") = {}

(* A connection is in use for a request that was answered only if the other  *)
(* statement of the same list failed (drizzle-users.queries.ts:34).          *)
OnlyFailuresLeaveStatementsBehind ==
  \A s \in Statements :
    phase[s[1]] = "answered" /\ state[s] \in {"queued", "running"} =>
      \E v \in Statements : v[1] = s[1] /\ v # s /\ state[v] \in {"failed", "refused"}

(* Statements never wait for each other in a circle: of those that wait one  *)
(* can be granted a connection, or somebody has one and waits for no other   *)
(* before it gives it back (register-user.handler.ts:42: the statements of   *)
(* a transaction go over the connection of its BEGIN).                       *)
QueueAlwaysMoves ==
  pool = "open" /\ In("queued") # {} =>
    \/ \E s \in Statements : IsFirst(s) /\ (idle > 0 \/ CanConnect)
    \/ \E s \in In("running") :
         InTransaction(s[1]) => \A v \in In("queued") : v[1] # s[1]

(* Nobody starves for a connection, and those who hold one are not waiting   *)
(* for another: every request taken is answered even if no timer ever fires, *)
(* and though connections fail, unless one takes the process with it.        *)
EveryRequestIsAnswered ==
  \A r \in Requests : phase[r] = "accepted" ~> phase[r] = "answered" \/ server = "crashed"

(* A signal ends the process, requests in flight and statements left behind  *)
(* notwithstanding.                                                          *)
SignalLeadsToExit == server = "closing" ~> ~Alive
=============================================================================
