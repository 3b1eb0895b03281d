------------------------- MODULE ConnectionPoolProofs -------------------------
(* What ConnectionPool guarantees for any number of requests and             *)
(* connections.                                                              *)
EXTENDS ConnectionPool, TLAPS, FiniteSetTheorems

(* The pool is open as long as the server has requests to answer. *)
ShutdownInOrder ==
  /\ pool # "open" => server \in {"closed", "gone", "crashed"}
  /\ server \in {"closed", "gone"} => \A r \in Requests : phase[r] \in {"outside", "answered"}
  /\ server = "gone" => pool = "ended"
  /\ pool = "ended" => In("running") = {}

(* Requests send their own statements, when they run. *)
SentByRunning ==
  \A s \in Statements :
    \/ phase[s[1]] \in {"outside", "accepted"}
    \/ s \notin StatementsOf(s[1])
    => state[s] = "unsent"

PoolInv ==
  /\ TypeOK
  /\ ShutdownInOrder
  /\ SentByRunning
  /\ NoRequestMeetsAnEndedPool
  /\ OnlyFailuresLeaveStatementsBehind

LEMMA StatementTypes ==
  /\ \A s \in Statements : s[1] \in Requests /\ s = <<s[1], s[2]>>
  /\ \A r \in Requests : StatementsOf(r) \subseteq Statements /\ Transaction(r) \in StatementsOf(r)
  /\ \A r \in Requests : \A s \in StatementsOf(r) : s[1] = r
  BY DEF Statements, StatementsOf, Transaction

LEMMA InitPoolInv == Init => PoolInv
<1> SUFFICES ASSUME Init PROVE PoolInv
  OBVIOUS
<1>1. TypeOK
  BY DEF Init, TypeOK
<1>2. ShutdownInOrder /\ SentByRunning /\ NoRequestMeetsAnEndedPool
      /\ OnlyFailuresLeaveStatementsBehind
  BY StatementTypes DEF Init, ShutdownInOrder, SentByRunning, NoRequestMeetsAnEndedPool,
     OnlyFailuresLeaveStatementsBehind
<1> QED
  BY <1>1, <1>2 DEF PoolInv

(* A statement that is not running any more, or may run now. *)
LEMMA StateSteps ==
  ASSUME PoolInv, NEW s \in Statements, NEW to \in {"running", "done", "failed"},
         state[s] \in {"queued", "running"}, to = "running" => pool = "open",
         state' = [state EXCEPT ![s] = to],
         ahead' = ahead \/ ahead' = [ahead EXCEPT ![s] = {}],
         idle' \in Nat, UNCHANGED <<server, pool, phase, at>>
  PROVE  PoolInv'
<1>1. TypeOK'
  BY DEF PoolInv, TypeOK
<1>2. SentByRunning'
  BY DEF PoolInv, TypeOK, SentByRunning, StatementsOf
<1>3. NoRequestMeetsAnEndedPool'
  BY DEF PoolInv, TypeOK, NoRequestMeetsAnEndedPool
<1>4. ShutdownInOrder'
  <2>1. pool = "ended" => In("running")' = {}
    BY DEF PoolInv, ShutdownInOrder, TypeOK, In
  <2> QED
    BY <2>1 DEF PoolInv, ShutdownInOrder
<1>5. OnlyFailuresLeaveStatementsBehind'
  <2> SUFFICES ASSUME NEW t \in Statements, phase[t[1]] = "answered",
                      state'[t] \in {"queued", "running"}
               PROVE  \E v \in Statements : v[1] = t[1] /\ v # t /\ state'[v] \in {"failed", "refused"}
    BY DEF OnlyFailuresLeaveStatementsBehind
  <2>1. state[t] \in {"queued", "running"}
    BY DEF PoolInv, TypeOK
  <2>2. PICK v \in Statements : v[1] = t[1] /\ v # t /\ state[v] \in {"failed", "refused"}
    BY <2>1 DEF PoolInv, OnlyFailuresLeaveStatementsBehind
  <2>3. state'[v] = state[v]
    BY <2>2 DEF PoolInv, TypeOK
  <2> QED
    BY <2>2, <2>3
<1> QED
  BY <1>1, <1>2, <1>3, <1>4, <1>5 DEF PoolInv

(* A request that is answered, before it ran or by its statements. *)
LEMMA AnswerSteps ==
  ASSUME PoolInv, NEW r \in Requests,
         phase[r] = "accepted" \/ (phase[r] = "running" /\ (Failed(r) \/ Succeeded(r))),
         phase' = [phase EXCEPT ![r] = "answered"],
         UNCHANGED <<server, pool, idle, at, state, ahead>>
  PROVE  PoolInv'
<1>1. TypeOK' /\ NoRequestMeetsAnEndedPool'
  BY DEF PoolInv, TypeOK, NoRequestMeetsAnEndedPool
<1>2. In("running")' = In("running")
  BY DEF In
<1>3. ShutdownInOrder'
  BY <1>2 DEF PoolInv, TypeOK, ShutdownInOrder
<1>4. SentByRunning'
  BY StatementTypes DEF PoolInv, TypeOK, SentByRunning, StatementsOf
<1>5. OnlyFailuresLeaveStatementsBehind'
  <2> SUFFICES ASSUME NEW t \in Statements, phase'[t[1]] = "answered",
                      state[t] \in {"queued", "running"}
               PROVE  \E v \in Statements : v[1] = t[1] /\ v # t /\ state[v] \in {"failed", "refused"}
    BY DEF OnlyFailuresLeaveStatementsBehind
  <2>1. CASE t[1] # r
    BY <2>1, StatementTypes DEF PoolInv, TypeOK, OnlyFailuresLeaveStatementsBehind
  <2>2. CASE t[1] = r
    <3>1. phase[r] = "running" /\ t \in StatementsOf(r)
      BY <2>2 DEF PoolInv, SentByRunning
    <3>2. ~Succeeded(r)
      BY <3>1 DEF Succeeded
    <3>3. PICK v \in StatementsOf(r) : state[v] \in {"failed", "refused"}
      BY <3>1, <3>2 DEF Failed
    <3> QED
      BY <2>2, <3>3, StatementTypes
  <2> QED
    BY <2>1, <2>2
<1> QED
  BY <1>1, <1>3, <1>4, <1>5 DEF PoolInv

(* A request that sends its statements does so while the pool is open. *)
LEMMA RunStep ==
  ASSUME PoolInv, NEW r \in Requests, Run(r) PROVE PoolInv'
<1>1. pool = "open" /\ server \notin {"closed", "gone"}
  BY DEF Run, Alive, PoolInv, ShutdownInOrder, TypeOK
<1>2. /\ phase[r] = "accepted" /\ phase' = [phase EXCEPT ![r] = "running"]
      /\ UNCHANGED <<server, pool, idle, at>>
  BY DEF Run
<1>3. /\ state' = [s \in Statements |-> IF s \notin StatementsOf(r) THEN state[s] ELSE "queued"]
      /\ ahead' = [s \in Statements |->
                     IF s \notin StatementsOf(r) THEN ahead[s]
                     ELSE In("queued") \cup {v \in StatementsOf(r) : v[2] < s[2]}]
  BY <1>1 DEF Run, Send
<1>4. TypeOK'
  <2>1. ahead' \in [Statements -> SUBSET Statements]
    BY <1>3, StatementTypes DEF PoolInv, TypeOK, In
  <2> QED
    BY <1>2, <1>3, <2>1 DEF PoolInv, TypeOK
<1>5. ShutdownInOrder'
  BY <1>1, <1>2 DEF ShutdownInOrder, PoolInv, TypeOK
<1>6. SentByRunning'
  BY <1>2, <1>3, StatementTypes DEF PoolInv, TypeOK, SentByRunning, StatementsOf
<1>7. NoRequestMeetsAnEndedPool'
  BY <1>3 DEF PoolInv, NoRequestMeetsAnEndedPool
<1>8. OnlyFailuresLeaveStatementsBehind'
  <2> SUFFICES ASSUME NEW t \in Statements, phase'[t[1]] = "answered",
                      state'[t] \in {"queued", "running"}
               PROVE  \E v \in Statements : v[1] = t[1] /\ v # t /\ state'[v] \in {"failed", "refused"}
    BY DEF OnlyFailuresLeaveStatementsBehind
  <2>1. t[1] # r /\ phase[t[1]] = "answered" /\ t[1] \in Requests
    BY <1>2, StatementTypes DEF PoolInv, TypeOK
  <2>2. \A v \in Statements : v[1] = t[1] => state'[v] = state[v]
    BY <1>3, <2>1, StatementTypes
  <2> QED
    BY <2>1, <2>2 DEF PoolInv, OnlyFailuresLeaveStatementsBehind
<1> QED
  BY <1>4, <1>5, <1>6, <1>7, <1>8 DEF PoolInv

(* Steps that leave requests and statements alone. *)
Shutdown ==
  Signal \/ CloseServer \/ EndPool \/ PoolEnds \/ Exit \/ IdleTimeOut \/ ConnectionBreaks

LEMMA ShutdownSteps ==
  ASSUME PoolInv, Shutdown PROVE PoolInv'
<1>1. UNCHANGED <<phase, at, state, ahead>>
  BY DEF Shutdown, Signal, CloseServer, EndPool, PoolEnds, Exit, IdleTimeOut, ConnectionBreaks
<1>2. TypeOK'
  BY <1>1 DEF PoolInv, TypeOK, Shutdown, Signal, CloseServer,
     EndPool, PoolEnds, Exit, IdleTimeOut, ConnectionBreaks
<1>3. In("running")' = In("running")
  BY <1>1 DEF In
<1>4. ShutdownInOrder'
  BY <1>1, <1>3 DEF PoolInv, TypeOK, ShutdownInOrder, Shutdown, Signal, CloseServer,
     EndPool, PoolEnds, Exit, IdleTimeOut, ConnectionBreaks
<1>5. SentByRunning' /\ NoRequestMeetsAnEndedPool' /\ OnlyFailuresLeaveStatementsBehind'
  BY <1>1 DEF PoolInv, SentByRunning, NoRequestMeetsAnEndedPool, OnlyFailuresLeaveStatementsBehind,
     StatementsOf
<1> QED
  BY <1>2, <1>4, <1>5 DEF PoolInv

LEMMA NextPoolInv == PoolInv /\ [Next]_vars => PoolInv'
<1> SUFFICES ASSUME PoolInv, [Next]_vars PROVE PoolInv'
  OBVIOUS
<1>1. ASSUME NEW r \in Requests, Accept(r) PROVE PoolInv'
  <2>1. /\ phase[r] = "outside" /\ phase' = [phase EXCEPT ![r] = "accepted"] /\ server = "listening"
        /\ UNCHANGED <<server, pool, idle, at, state, ahead>>
    BY <1>1 DEF Accept
  <2>2. TypeOK' /\ NoRequestMeetsAnEndedPool'
    BY <2>1 DEF PoolInv, TypeOK, NoRequestMeetsAnEndedPool
  <2>3. ShutdownInOrder'
    BY <2>1 DEF PoolInv, ShutdownInOrder
  <2>4. SentByRunning'
    BY <2>1, StatementTypes DEF PoolInv, TypeOK, SentByRunning, StatementsOf
  <2>5. OnlyFailuresLeaveStatementsBehind'
    BY <2>1, StatementTypes DEF PoolInv, TypeOK, OnlyFailuresLeaveStatementsBehind
  <2> QED
    BY <2>2, <2>3, <2>4, <2>5 DEF PoolInv
<1>2. ASSUME NEW r \in Requests, Refuse(r) \/ Answer(r) PROVE PoolInv'
  BY <1>2, AnswerSteps DEF Refuse, Answer
<1>3. ASSUME NEW r \in Requests, Run(r) PROVE PoolInv'
  BY <1>3, RunStep
<1>4. ASSUME NEW r \in Requests, Step(r) PROVE PoolInv'
  <2>1. at[r] # "commit" /\ at' = [at EXCEPT ![r] = NextStep[at[r]]]
        /\ UNCHANGED <<server, pool, idle, phase, state, ahead>>
    BY <1>4 DEF Step
  <2>2. NextStep[at[r]] \in {"hash", "save", "commit"}
    BY <2>1 DEF NextStep, PoolInv, TypeOK
  <2>3. TypeOK'
    BY <2>1, <2>2 DEF PoolInv, TypeOK
  <2>4. In("running")' = In("running")
    BY <2>1 DEF In
  <2> QED
    BY <2>1, <2>3, <2>4 DEF PoolInv, ShutdownInOrder, SentByRunning, NoRequestMeetsAnEndedPool,
       OnlyFailuresLeaveStatementsBehind, StatementsOf
<1>5. ASSUME NEW s \in Statements, NEW outcome \in {"done", "failed"},
             NEW destroyed \in BOOLEAN, Finish(s, outcome, destroyed)
      PROVE  PoolInv'
  <2>1. idle' \in Nat
    BY <1>5 DEF Finish, PoolInv, TypeOK
  <2> QED
    BY <1>5, <2>1, StateSteps DEF Finish
<1>6. ASSUME NEW s \in Statements, Grant(s) PROVE PoolInv'
  <2>1. idle' \in Nat
    BY <1>6 DEF Grant, PoolInv, TypeOK
  <2> QED
    BY <1>6, <2>1, StateSteps DEF Grant, IsFirst
<1>7. ASSUME NEW s \in Statements, TimeOut(s) \/ ConnectFails(s) PROVE PoolInv'
  <2>1. idle' \in Nat
    BY <1>7 DEF TimeOut, ConnectFails, GivesUp, PoolInv, TypeOK
  <2> QED
    BY <1>7, <2>1, StateSteps DEF TimeOut, ConnectFails, GivesUp, IsFirst
<1>8. ASSUME NEW s \in Statements, NEW outcome \in {"done", "failed"}, Read(s, outcome)
      PROVE  PoolInv'
  BY <1>5, <1>8 DEF Read
<1>11. ASSUME NEW r \in Requests, Commit(r) \/ Rollback(r) PROVE PoolInv'
  BY <1>5, <1>11, StatementTypes DEF Commit, Rollback
<1>9. CASE Shutdown
  BY <1>9, ShutdownSteps
<1>10. CASE UNCHANGED vars
  <2>1. UNCHANGED <<server, pool, idle, phase, at, state, ahead>>
    BY <1>10 DEF vars
  <2>2. In("running")' = In("running")
    BY <2>1 DEF In
  <2> QED
    BY <2>1, <2>2 DEF PoolInv, TypeOK, ShutdownInOrder, SentByRunning, NoRequestMeetsAnEndedPool,
       OnlyFailuresLeaveStatementsBehind, StatementsOf
<1> QED
  BY <1>1, <1>2, <1>3, <1>4, <1>5, <1>6, <1>7, <1>8, <1>9, <1>10, <1>11 DEF Next, Shutdown

LEMMA PoolIsConsistent == Spec => []PoolInv
  BY InitPoolInv, NextPoolInv, PTL DEF Spec

(* The types of the pool's state hold at every moment. *)
THEOREM PoolTypeCorrectness == Spec => []TypeOK
<1>1. PoolInv => TypeOK
  BY DEF PoolInv
<1> QED
  BY <1>1, PoolIsConsistent, PTL

(* However many requests are in flight at the signal and whenever their      *)
(* handlers run, none meets an ended pool (database.module.ts:106).          *)
THEOREM RequestsMeetAnOpenPool == Spec => []NoRequestMeetsAnEndedPool
<1>1. PoolInv => NoRequestMeetsAnEndedPool
  BY DEF PoolInv
<1> QED
  BY <1>1, PoolIsConsistent, PTL

(* When the process goes every request it took has been answered and no      *)
(* statement is under way, the ones left behind by a failed list included.   *)
THEOREM ShutdownIsGraceful == Spec => []ExitCutsNothingShort
<1>1. PoolInv => ExitCutsNothingShort
  BY DEF PoolInv, ShutdownInOrder, ExitCutsNothingShort
<1> QED
  BY <1>1, PoolIsConsistent, PTL

(* An answered request keeps a connection, or a place in the queue, only     *)
(* through the other half of a list that failed (drizzle-users.queries.ts:34). *)
THEOREM OnlyFailedListsLinger == Spec => []OnlyFailuresLeaveStatementsBehind
<1>1. PoolInv => OnlyFailuresLeaveStatementsBehind
  BY DEF PoolInv
<1> QED
  BY <1>1, PoolIsConsistent, PTL
-----------------------------------------------------------------------------
(* The queue *)

(* What was before a statement has been sent; what is before that was before *)
(* it too.                                                                   *)
QueueInv ==
  \A s \in In("queued") :
    /\ s \notin ahead[s]
    /\ \A v \in ahead[s] : state[v] # "unsent"
    /\ \A v \in ahead[s] \cap In("queued") : ahead[v] \cap In("queued") \subseteq ahead[s]

(* Nobody joins the queue. *)
NobodyJoins ==
  /\ In("queued")' \subseteq In("queued")
  /\ \A s \in In("queued")' : ahead'[s] = ahead[s]
  /\ \A s \in Statements : state'[s] = "unsent" => state[s] = "unsent"

LEMMA StatementsAreFinite ==
  /\ IsFiniteSet(Statements)
  /\ \A s : IsFiniteSet(In(s)) /\ Cardinality(In(s)) \in Nat
<1>1. IsFiniteSet({1, 2})
  <2>1. IsFiniteSet({} \cup {1})
    BY FS_EmptySet, FS_AddElement
  <2>2. IsFiniteSet(({} \cup {1}) \cup {2})
    BY <2>1, FS_AddElement
  <2>3. {1, 2} = ({} \cup {1}) \cup {2}
    OBVIOUS
  <2> QED
    BY <2>2, <2>3
<1>2. IsFiniteSet(Statements)
  BY <1>1, RequestsAreFinite, FS_Product DEF Statements
<1>3. ASSUME NEW s PROVE IsFiniteSet(In(s)) /\ Cardinality(In(s)) \in Nat
  BY <1>2, FS_Subset, FS_CardinalityType DEF In
<1> QED
  BY <1>2, <1>3

(* All but requests that run leave the queue as it was or shorter. *)
LEMMA OnlyRunsJoin ==
  ASSUME PoolInv, [Next]_vars, \A r \in Requests : ~Run(r)
  PROVE  NobodyJoins
<1>1. ASSUME UNCHANGED <<state, ahead>> PROVE NobodyJoins
  BY <1>1 DEF NobodyJoins, In
<1>2. ASSUME NEW s \in Statements, NEW to \in {"running", "done", "failed"},
             state' = [state EXCEPT ![s] = to],
             ahead' = ahead \/ ahead' = [ahead EXCEPT ![s] = {}]
      PROVE  NobodyJoins
  BY <1>2 DEF NobodyJoins, In, PoolInv, TypeOK
<1>3. ASSUME NEW s \in Statements, NEW outcome \in {"done", "failed"},
             NEW destroyed \in BOOLEAN, Finish(s, outcome, destroyed)
      PROVE  NobodyJoins
  BY <1>2, <1>3 DEF Finish
<1>4. ASSUME NEW s \in Statements,
             \/ Grant(s) \/ TimeOut(s) \/ ConnectFails(s)
             \/ \E outcome \in {"done", "failed"} : Read(s, outcome)
      PROVE  NobodyJoins
  BY <1>2, <1>3, <1>4 DEF Grant, TimeOut, ConnectFails, GivesUp, Read
<1>5. ASSUME NEW r \in Requests,
             \/ Accept(r) \/ Refuse(r) \/ Step(r) \/ Commit(r) \/ Rollback(r) \/ Answer(r)
      PROVE  NobodyJoins
  BY <1>1, <1>3, <1>5, StatementTypes DEF Accept, Refuse, Step, Commit, Rollback, Answer
<1>6. CASE Shutdown
  BY <1>1, <1>6 DEF Shutdown, Signal, CloseServer, EndPool, PoolEnds, Exit, IdleTimeOut,
     ConnectionBreaks
<1>7. CASE UNCHANGED vars
  BY <1>1, <1>7 DEF vars
<1> QED
  BY <1>4, <1>5, <1>6, <1>7 DEF Next, Shutdown

(* The statements of a request that runs join behind those that wait. *)
LEMMA RunsJoin ==
  ASSUME PoolInv, NEW r \in Requests, Run(r)
  PROVE  /\ In("queued")' = In("queued") \cup StatementsOf(r)
         /\ \A s \in StatementsOf(r) :
              /\ state[s] = "unsent" /\ state'[s] = "queued"
              /\ ahead'[s] = In("queued") \cup {v \in StatementsOf(r) : v[2] < s[2]}
         /\ \A s \in Statements \ StatementsOf(r) : state'[s] = state[s] /\ ahead'[s] = ahead[s]
<1>1. pool = "open"
  BY DEF Run, Alive, PoolInv, ShutdownInOrder, TypeOK
<1>2. /\ state' = [s \in Statements |-> IF s \notin StatementsOf(r) THEN state[s] ELSE "queued"]
      /\ ahead' = [s \in Statements |->
                     IF s \notin StatementsOf(r) THEN ahead[s]
                     ELSE In("queued") \cup {v \in StatementsOf(r) : v[2] < s[2]}]
  BY <1>1 DEF Run, Send
<1>3. \A s \in StatementsOf(r) : s \in Statements /\ state[s] = "unsent"
  BY StatementTypes DEF Run, PoolInv, SentByRunning
<1> QED
  BY <1>2, <1>3 DEF In

LEMMA NextQueue == PoolInv /\ QueueInv /\ [Next]_vars => QueueInv'
<1> SUFFICES ASSUME PoolInv, QueueInv, [Next]_vars PROVE QueueInv'
  OBVIOUS
<1>0. ahead \in [Statements -> SUBSET Statements]
  BY DEF PoolInv, TypeOK
<1>1. CASE \A r \in Requests : ~Run(r)
  <2>1. NobodyJoins
    BY <1>1, OnlyRunsJoin
  <2> SUFFICES ASSUME NEW s \in In("queued")'
               PROVE  /\ s \notin ahead'[s]
                      /\ \A v \in ahead'[s] : state'[v] # "unsent"
                      /\ \A v \in ahead'[s] \cap In("queued")' :
                           ahead'[v] \cap In("queued")' \subseteq ahead'[s]
    BY DEF QueueInv
  <2>2. s \in In("queued") /\ s \in Statements /\ ahead'[s] = ahead[s]
    BY <2>1 DEF NobodyJoins, In
  <2>3. \A v \in ahead[s] : v \in Statements /\ state'[v] # "unsent"
    BY <1>0, <2>1, <2>2 DEF QueueInv, NobodyJoins
  <2> QED
    BY <2>1, <2>2, <2>3 DEF QueueInv, NobodyJoins
<1>2. ASSUME NEW r \in Requests, Run(r) PROVE QueueInv'
  <2> DEFINE Q == In("queued")
             S == StatementsOf(r)
  <2>1. /\ Q' = Q \cup S
        /\ \A s \in S : /\ state[s] = "unsent" /\ state'[s] = "queued"
                        /\ ahead'[s] = Q \cup {v \in S : v[2] < s[2]}
        /\ \A s \in Statements \ S : state'[s] = state[s] /\ ahead'[s] = ahead[s]
    BY <1>2, RunsJoin
  <2>2. S \subseteq Statements /\ Q \subseteq Statements /\ Q \cap S = {}
    BY <2>1, StatementTypes DEF In
  <2>3. \A s \in S : s[2] \in {1, 2}
    BY DEF StatementsOf
  <2>4. \A s \in Q : /\ ahead'[s] = ahead[s] /\ s \notin ahead[s]
                     /\ \A v \in ahead[s] : v \in Statements /\ v \notin S
                                         /\ state'[v] # "unsent"
    BY <1>0, <2>1, <2>2 DEF QueueInv
  <2>5. \A s \in Q : \A v \in ahead[s] \cap Q : ahead[v] \cap Q \subseteq ahead[s]
    BY DEF QueueInv
  <2> HIDE DEF Q, S
  <2>6. ASSUME NEW s \in Q
        PROVE  /\ s \notin ahead'[s]
               /\ \A v \in ahead'[s] : state'[v] # "unsent"
               /\ \A v \in ahead'[s] \cap Q' : ahead'[v] \cap Q' \subseteq ahead'[s]
    <3>1. \A v \in ahead[s] \cap Q' : v \in Q /\ ahead[v] \cap Q' \subseteq Q
      BY <2>1, <2>4
    <3> QED
      BY <2>4, <2>5, <3>1
  <2>7. ASSUME NEW s \in S
        PROVE  /\ s \notin ahead'[s]
               /\ \A v \in ahead'[s] : state'[v] # "unsent"
               /\ \A v \in ahead'[s] \cap Q' : ahead'[v] \cap Q' \subseteq ahead'[s]
    <3>1. s \notin ahead'[s]
      BY <2>1, <2>2, <2>3
    <3>2. \A v \in Q : state'[v] = "queued"
      <4>1. \A v \in Q : state[v] = "queued"
        BY DEF Q, In
      <4> QED
        BY <2>1, <2>2, <4>1
    <3>3. \A v \in ahead'[s] : v \in Q \/ (v \in S /\ v[2] < s[2])
      BY <2>1
    <3>4. \A v \in Q : ahead'[v] \cap Q' \subseteq Q
      BY <2>1, <2>4
    <3>5. ASSUME NEW v \in S, v[2] < s[2] PROVE ahead'[v] \subseteq ahead'[s]
      BY <2>1, <2>3, <3>5
    <3>6. Q \subseteq ahead'[s]
      BY <2>1
    <3> QED
      BY <2>1, <3>1, <3>2, <3>3, <3>4, <3>5, <3>6
  <2> QED
    BY <2>1, <2>6, <2>7 DEF QueueInv, Q
<1> QED
  BY <1>1, <1>2

(* Of statements that wait one is before all others: what is before a        *)
(* statement has fewer before it, and there are finitely many.               *)
LEMMA QueuesHaveAHead ==
  ASSUME PoolInv, QueueInv, In("queued") # {}
  PROVE  \E s \in Statements : IsFirst(s)
<1> DEFINE Q == In("queued")
           Before(s) == ahead[s] \cap Q
           Befores == {Before(s) : s \in Q}
<1>1. Befores \subseteq FiniteSubsetsOf(Q) /\ Befores # {}
  <2>1. \A s \in Q : Before(s) \in SUBSET Q /\ IsFiniteSet(Before(s))
    BY StatementsAreFinite, FS_Subset
  <2> QED
    BY <2>1 DEF FiniteSubsetsOf
<1>2. PICK B \in Befores : \A C \in Befores : <<C, B>> \notin StrictSubsetOrdering(Q)
  <2> HIDE DEF Befores, Q
  <2> QED
    BY <1>1, FS_StrictSubsetOrderingWellFounded, WFMin
<1>3. PICK s \in Q : B = Before(s)
  OBVIOUS
<1>4. Before(s) = {}
  <2> SUFFICES ASSUME NEW v \in Before(s) PROVE FALSE
    OBVIOUS
  <2>1. Before(v) \subseteq Before(s) /\ v \notin Before(v)
    BY DEF QueueInv
  <2>2. <<Before(v), Before(s)>> \in StrictSubsetOrdering(Q)
    BY <2>1 DEF StrictSubsetOrdering
  <2> QED
    BY <1>2, <1>3, <2>2
<1> QED
  BY <1>3, <1>4 DEF IsFirst, In

(* The connections that are open are at most Max. *)
WithinMax == idle + Cardinality(In("running")) <= Max

LEMMA NextWithinMax == PoolInv /\ WithinMax /\ [Next]_vars => WithinMax'
<1> SUFFICES ASSUME PoolInv, WithinMax, [Next]_vars PROVE WithinMax'
  OBVIOUS
<1> DEFINE R == In("running")
<1>0. /\ idle \in Nat /\ Max \in Nat /\ Cardinality(R) \in Nat /\ IsFiniteSet(R)
      /\ idle + Cardinality(R) <= Max
  BY StatementsAreFinite, MaxIsPositive DEF PoolInv, TypeOK, WithinMax
<1>1. ASSUME R' = R, idle' \in Nat, idle' <= idle PROVE WithinMax'
  BY <1>0, <1>1 DEF WithinMax
<1>2. ASSUME NEW s \in Statements, Grant(s) PROVE WithinMax'
  <2>1. R' = R \cup {s} /\ s \notin R
    BY <1>2 DEF Grant, IsFirst, In, PoolInv, TypeOK
  <2>2. Cardinality(R') = Cardinality(R) + 1
    BY <1>0, <2>1, FS_AddElement
  <2>3. \/ idle > 0 /\ idle' = idle - 1
        \/ idle' = 0 /\ Cardinality(R) < Max
    BY <1>0, <1>2 DEF Grant, CanConnect
  <2> QED
    BY <1>0, <2>2, <2>3 DEF WithinMax
<1>3. ASSUME NEW s \in Statements, NEW outcome \in {"done", "failed"},
             NEW destroyed \in BOOLEAN, Finish(s, outcome, destroyed)
      PROVE  WithinMax'
  <2>1. R' = R \ {s} /\ s \in R
    BY <1>3 DEF Finish, In, PoolInv, TypeOK
  <2>2. Cardinality(R') = Cardinality(R) - 1
    BY <1>0, <2>1, FS_RemoveElement
  <2>3. idle' \in {idle, idle + 1}
    BY <1>3 DEF Finish
  <2> QED
    BY <1>0, <2>2, <2>3 DEF WithinMax
<1>4. ASSUME NEW s \in Statements, TimeOut(s) \/ ConnectFails(s) PROVE WithinMax'
  <2>1. R' = R /\ idle' = idle
    BY <1>4 DEF TimeOut, ConnectFails, GivesUp, IsFirst, In, PoolInv, TypeOK
  <2> QED
    BY <1>0, <1>1, <2>1
<1>5. ASSUME NEW r \in Requests, Run(r) PROVE WithinMax'
  <2>1. R' = R
    BY <1>5, RunsJoin DEF In, PoolInv, TypeOK
  <2>2. idle' = idle
    BY <1>5 DEF Run
  <2> QED
    BY <1>0, <1>1, <2>1, <2>2
<1>6. ASSUME NEW r \in Requests,
             \/ Accept(r) \/ Refuse(r) \/ Step(r) \/ Commit(r) \/ Rollback(r) \/ Answer(r)
      PROVE  WithinMax'
  <2>1. CASE Commit(r) \/ Rollback(r)
    BY <1>3, <2>1, StatementTypes DEF Commit, Rollback
  <2>2. CASE Accept(r) \/ Refuse(r) \/ Step(r) \/ Answer(r)
    BY <1>0, <1>1, <2>2 DEF Accept, Refuse, Step, Answer, In
  <2> QED
    BY <1>6, <2>1, <2>2
<1>7. CASE Shutdown
  BY <1>0, <1>1, <1>7 DEF Shutdown, Signal, CloseServer, EndPool, PoolEnds, Exit, IdleTimeOut,
     ConnectionBreaks, In
<1>8. CASE UNCHANGED vars
  BY <1>0, <1>1, <1>8 DEF vars, In
<1>9. ASSUME NEW s \in Statements, NEW outcome \in {"done", "failed"}, Read(s, outcome)
      PROVE  WithinMax'
  BY <1>3, <1>9 DEF Read
<1> QED
  BY <1>2, <1>4, <1>5, <1>6, <1>7, <1>8, <1>9 DEF Next, Shutdown

LEMMA QueueIsConsistent == Spec => [](PoolInv /\ QueueInv /\ WithinMax)
<1>1. Init => QueueInv /\ WithinMax
  <2> SUFFICES ASSUME Init PROVE QueueInv /\ WithinMax
    OBVIOUS
  <2>1. In("queued") = {} /\ In("running") = {} /\ idle = 0
    BY DEF Init, In
  <2>2. Cardinality(In("running")) = 0
    BY <2>1, FS_EmptySet
  <2> QED
    BY <2>1, <2>2, MaxIsPositive DEF QueueInv, WithinMax
<1> QED
  BY <1>1, PoolIsConsistent, NextQueue, NextWithinMax, PTL DEF Spec

(* The pool never has more connections than config.pool.max, 20 unless the   *)
(* application says otherwise: what the processes of a deployment ask of the *)
(* database is bounded as it is configured (database.module.ts:78).          *)
THEOREM PoolStaysWithinMax == Spec => []WithinMax
  BY QueueIsConsistent, PTL

(* However many requests share however few connections, they never wait for  *)
(* each other in a circle: the head of the queue can have a connection, or   *)
(* somebody is about to give one back that waits for nobody.                 *)
THEOREM QueueNeverStandsStill == Spec => []QueueAlwaysMoves
<1>1. PoolInv /\ QueueInv => QueueAlwaysMoves
  <2> SUFFICES ASSUME PoolInv, QueueInv, In("queued") # {},
                      \A s \in Statements : IsFirst(s) => ~(idle > 0 \/ CanConnect)
               PROVE  \E s \in In("running") :
                        InTransaction(s[1]) => \A v \in In("queued") : v[1] # s[1]
    BY DEF QueueAlwaysMoves
  <2>1. ~(idle > 0 \/ CanConnect)
    BY QueuesHaveAHead
  <2>2. In("running") # {}
    <3>1. ~(Cardinality(In("running")) < Max)
      BY <2>1 DEF CanConnect, PoolInv, TypeOK
    <3> QED
      BY <3>1, FS_EmptySet, MaxIsPositive
  <2>3. PICK s \in Statements : state[s] = "running"
    BY <2>2 DEF In
  <2>4. ASSUME InTransaction(s[1]), NEW v \in Statements, state[v] = "queued", v[1] = s[1]
        PROVE  FALSE
    <3>1. StatementsOf(s[1]) = {Transaction(s[1])}
      BY <2>4 DEF InTransaction, StatementsOf, Transaction
    <3>2. v \in StatementsOf(v[1])
      BY <2>4 DEF PoolInv, SentByRunning
    <3> QED
      BY <2>4, <3>1, <3>2 DEF InTransaction
  <2> QED
    BY <2>3, <2>4 DEF In
<1> QED
  BY <1>1, QueueIsConsistent, PTL

(* What waits before a statement only gets less, until it is granted a       *)
(* connection or gives up.                                                   *)
NobodyIsOvertaken ==
  \A s \in Statements : state[s] = "queued" /\ state'[s] = "queued" =>
    ahead'[s] \cap In("queued")' \subseteq ahead[s] \cap In("queued")

(* Whoever comes later is granted a connection later: with the theorem       *)
(* before, what EveryRequestIsAnswered needs of the states beside fairness.  *)
THEOREM LatecomersWait == Spec => [][NobodyIsOvertaken]_vars
<1>1. PoolInv /\ QueueInv /\ [Next]_vars => NobodyIsOvertaken
  <2> SUFFICES ASSUME PoolInv, QueueInv, [Next]_vars,
                      NEW s \in Statements, state[s] = "queued", state'[s] = "queued"
               PROVE  ahead'[s] \cap In("queued")' \subseteq ahead[s] \cap In("queued")
    BY DEF NobodyIsOvertaken
  <2>1. s \in In("queued") /\ s \in In("queued")'
    BY DEF In
  <2>2. CASE \A r \in Requests : ~Run(r)
    BY <2>1, <2>2, OnlyRunsJoin DEF NobodyJoins
  <2>3. ASSUME NEW r \in Requests, Run(r)
        PROVE  ahead'[s] \cap In("queued")' \subseteq ahead[s] \cap In("queued")
    <3>1. s \notin StatementsOf(r) /\ ahead'[s] = ahead[s]
      BY <2>1, <2>3, RunsJoin
    <3>2. ahead[s] \cap StatementsOf(r) = {}
      BY <2>1, <2>3, RunsJoin DEF QueueInv
    <3> QED
      BY <2>3, <3>1, <3>2, RunsJoin
  <2> QED
    BY <2>2, <2>3
<1> QED
  BY <1>1, QueueIsConsistent, PTL DEF Spec

=============================================================================
