------------------------ MODULE PasswordHashingProofs ------------------------
(***************************************************************************)
(* What PasswordHashing guarantees for any number of processes, sign-ins,  *)
(* users and releases.                                                     *)
(*                                                                         *)
(* HashingInv is inductive.  It says of a sign-in with a user that it was  *)
(* found weaker than the policy of its process, which is not replaced      *)
(* under it, before it is hashed again; and that the row is still what was *)
(* loaded if its version is.                                               *)
(***************************************************************************)
EXTENDS PasswordHashing, TLAPS

(* A sign-in for an address without a user, or not begun. *)
Userless == {"idle", "awaiting", "comparing"}

(* One that works on a row. *)
Upgrading == {"hashing", "saving"}
Working == {"verifying"} \cup Upgrading

Steps == Userless \cup Working \cup Ended

(* A process has asked for a dummy if it has a promise of one. *)
DummyInv == \A p \in Processes : dummies[p] = IF dummy[p] = "null" THEN 0 ELSE 1

(* What a sign-in loaded is what is stored, or of an older version. *)
RowIsKnown(c) ==
  /\ c.loaded.version <= stored[c.user].version
  /\ c.loaded.version = stored[c.user].version => stored[c.user].hash = c.loaded.hash

(* What is hashed again is readable, of the password and weaker than POLICY. *)
Deserves(c) ==
  /\ c.loaded.hash # Corrupt
  /\ c.loaded.hash.of = c.password
  /\ NeedsRehash(c.loaded.hash.params, c.at)

SignInInv(c) ==
  /\ c.pc \in Userless => c.user = Nobody
  /\ c.pc \in {"awaiting", "comparing"} \cup Working => c.at \in Processes
  /\ c.pc \in Working => c.user \in Users /\ c.password \in Passwords /\ RowIsKnown(c)
  /\ c.pc \in Upgrading => Deserves(c)

HashingInv ==
  /\ TypeOK
  /\ DummyInv
  /\ \A s \in SignIns : SignInInv(signIn[s])
  /\ OnlyThrowsRefuseCheaply
  /\ CorruptRowsAreRefused

LEMMA InitHashing == Init => HashingInv
  BY DEF Init, HashingInv, TypeOK, DummyInv, SignInInv, OnlyThrowsRefuseCheaply,
         CorruptRowsAreRefused, Idle, Nothing, Rows, Hashes, Userless, Working, Upgrading,
         Verifications

(* A sign-in that only goes on to another step keeps everything it knows. *)
LEMMA DummyStepInv ==
  ASSUME HashingInv, NEW p \in Processes, NEW outcome \in {"fulfilled", "rejected"},
         DummySettles(p, outcome)
  PROVE  HashingInv'
<1>1. TypeOK' /\ DummyInv'
  BY DEF HashingInv, TypeOK, DummyInv, DummySettles
<1>2. \A s \in SignIns : SignInInv(signIn[s])'
  BY DEF HashingInv, SignInInv, RowIsKnown, Deserves, NeedsRehash, DummySettles
<1>3. OnlyThrowsRefuseCheaply' /\ CorruptRowsAreRefused'
  BY DEF HashingInv, OnlyThrowsRefuseCheaply, CorruptRowsAreRefused, DummySettles
<1> QED
  BY <1>1, <1>2, <1>3 DEF HashingInv

LEMMA SignInUnknownInv ==
  ASSUME HashingInv, NEW s \in SignIns, NEW p \in Processes, SignInUnknown(s, p)
  PROVE  HashingInv'
<1> DEFINE c == [Idle EXCEPT !.pc = "awaiting", !.at = p, !.user = Nobody,
                             !.password = Nobody, !.loaded = Nothing]
<1>1. /\ signIn' = [signIn EXCEPT ![s] = c]
      /\ UNCHANGED <<policy, stored>>
  BY DEF SignInUnknown, Begin
<1>2. TypeOK' /\ DummyInv'
  <2>1. signIn' \in [SignIns ->
          [pc : Steps, at : Processes \cup {Nobody}, user : Users \cup {Nobody},
           password : Passwords \cup {Nobody}, loaded : Rows, verification : Verifications]]
    BY <1>1 DEF HashingInv, TypeOK, Steps, Userless, Working, Upgrading, Idle, Nothing, Rows, Hashes,
                Verifications
  <2>2. /\ dummy' \in [Processes -> {"null", "pending", "fulfilled", "rejected"}]
        /\ dummies' \in [Processes -> Nat]
        /\ DummyInv'
    BY DEF SignInUnknown, MakeDummy, HashingInv, TypeOK, DummyInv
  <2> QED
    BY <2>1, <2>2, <1>1 DEF HashingInv, TypeOK, Steps, Userless, Working, Upgrading
<1>3. \A t \in SignIns : signIn'[t] = IF t = s THEN c ELSE signIn[t]
  BY <1>1 DEF HashingInv, TypeOK
<1>4. \A t \in SignIns : SignInInv(signIn[t])'
  BY <1>1, <1>3 DEF HashingInv, SignInInv, RowIsKnown, Deserves, NeedsRehash, Idle, Nothing,
                    Userless, Working, Upgrading
<1>5. OnlyThrowsRefuseCheaply' /\ CorruptRowsAreRefused'
  BY <1>3 DEF HashingInv, OnlyThrowsRefuseCheaply, CorruptRowsAreRefused, Idle
<1> QED
  BY <1>2, <1>4, <1>5 DEF HashingInv

LEMMA SignInKnownInv ==
  ASSUME HashingInv, NEW s \in SignIns, NEW p \in Processes, NEW u \in Users,
         NEW password \in Passwords, SignInKnown(s, p, u, password)
  PROVE  HashingInv'
<1> DEFINE c == [Idle EXCEPT !.pc = "verifying", !.at = p, !.user = u,
                             !.password = password, !.loaded = stored[u]]
<1>1. /\ signIn' = [signIn EXCEPT ![s] = c]
      /\ UNCHANGED <<policy, stored, dummy, dummies>>
  BY NobodyIsNoUser DEF SignInKnown, Begin
<1>2. \A t \in SignIns : signIn'[t] = IF t = s THEN c ELSE signIn[t]
  BY <1>1 DEF HashingInv, TypeOK
<1>3. stored[u] \in Rows
  BY DEF HashingInv, TypeOK
<1>4. TypeOK' /\ DummyInv'
  BY <1>1, <1>3 DEF HashingInv, TypeOK, DummyInv, Idle, Verifications
<1>5. \A t \in SignIns : SignInInv(signIn[t])'
  BY <1>1, <1>2, <1>3 DEF HashingInv, SignInInv, RowIsKnown, Deserves, NeedsRehash, Idle, Rows,
                          Userless, Working, Upgrading
<1>6. OnlyThrowsRefuseCheaply' /\ CorruptRowsAreRefused'
  BY <1>2 DEF HashingInv, OnlyThrowsRefuseCheaply, CorruptRowsAreRefused, Idle
<1> QED
  BY <1>4, <1>5, <1>6 DEF HashingInv

(* A step that moves one sign-in and nothing else. *)
Moves(s, pc, verification) ==
  /\ signIn' = [signIn EXCEPT ![s].pc = pc, ![s].verification = verification]
  /\ UNCHANGED <<policy, dummy, dummies, stored>>

LEMMA MovesInv ==
  ASSUME HashingInv, NEW s \in SignIns, NEW pc \in Steps, NEW verification \in Verifications,
         Moves(s, pc, verification),
         pc \in Userless => signIn[s].user = Nobody,
         pc \in {"awaiting", "comparing"} \cup Working => signIn[s].at \in Processes,
         pc \in Working => signIn[s].pc \in Working,
         pc \in Upgrading => Deserves(signIn[s]),
         pc = "refused" => verification \in {"threw", "verdict"},
         pc \in {"hashing", "saving", "in"} => verification = "verdict",
         signIn[s].user # Nobody /\ signIn[s].loaded.hash = Corrupt =>
           pc \in {"verifying", "refused", "lost"}
  PROVE  HashingInv'
<1> DEFINE c == [signIn[s] EXCEPT !.pc = pc, !.verification = verification]
<1>1. \A t \in SignIns : signIn'[t] = IF t = s THEN c ELSE signIn[t]
  BY DEF HashingInv, TypeOK, Moves
<1>2. UNCHANGED <<policy, dummy, dummies, stored>>
  BY DEF Moves
<1>3. /\ c.pc = pc /\ c.verification = verification
      /\ c.at = signIn[s].at /\ c.user = signIn[s].user /\ c.password = signIn[s].password
      /\ c.loaded = signIn[s].loaded
  BY DEF HashingInv, TypeOK
<1>4. TypeOK' /\ DummyInv'
  <2>1. pc \in {"idle", "awaiting", "comparing", "verifying", "hashing", "saving"} \cup Ended
    BY DEF Steps, Userless, Working, Upgrading
  <2>2. signIn' = [signIn EXCEPT ![s] = c]
    BY DEF HashingInv, TypeOK, Moves
  <2>3. c \in [pc : {"idle", "awaiting", "comparing", "verifying", "hashing", "saving"} \cup Ended,
               at : Processes \cup {Nobody}, user : Users \cup {Nobody},
               password : Passwords \cup {Nobody}, loaded : Rows, verification : Verifications]
    BY <2>1 DEF HashingInv, TypeOK
  <2> HIDE DEF c
  <2> QED
    BY <1>2, <2>2, <2>3 DEF HashingInv, TypeOK, DummyInv
<1> HIDE DEF c
<1>5. SignInInv(c)
  BY <1>3 DEF HashingInv, SignInInv, RowIsKnown, Deserves
<1>6. \A t \in SignIns : SignInInv(signIn[t])'
  BY <1>1, <1>2, <1>5 DEF HashingInv, SignInInv, RowIsKnown, Deserves, NeedsRehash
<1>7. OnlyThrowsRefuseCheaply' /\ CorruptRowsAreRefused'
  BY <1>1, <1>3 DEF HashingInv, OnlyThrowsRefuseCheaply, CorruptRowsAreRefused
<1> QED
  BY <1>4, <1>6, <1>7 DEF HashingInv

LEMMA AwaitDummyInv ==
  ASSUME HashingInv, NEW s \in SignIns, AwaitDummy(s)
  PROVE  HashingInv'
<1> DEFINE next == IF dummy[signIn[s].at] = "fulfilled" THEN "comparing" ELSE "failed"
<1>1. signIn[s].user = Nobody /\ signIn[s].at \in Processes
  BY DEF AwaitDummy, HashingInv, SignInInv, Userless
<1>2. next \in Steps /\ next \in {"comparing", "failed"}
  BY DEF Steps, Userless, Ended
<1>3. Moves(s, next, signIn[s].verification)
  BY DEF AwaitDummy, Goes, Moves, HashingInv, TypeOK
<1>4. signIn[s].verification \in Verifications
  BY DEF HashingInv, TypeOK
<1> HIDE DEF next
<1> QED
  BY <1>1, <1>2, <1>3, <1>4, MovesInv DEF Userless, Working, Upgrading

LEMMA CompareDummyInv ==
  ASSUME HashingInv, NEW s \in SignIns, NEW throws \in BOOLEAN, CompareDummy(s, throws)
  PROVE  HashingInv'
<1>1. signIn[s].user = Nobody
  BY DEF CompareDummy, HashingInv, SignInInv, Userless
<1>2. Moves(s, "refused", Came(TRUE, throws))
  BY DEF CompareDummy, Moves
<1>3. "refused" \in Steps /\ Came(TRUE, throws) \in {"threw", "verdict"}
  BY DEF Steps, Ended, Came
<1> QED
  BY <1>1, <1>2, <1>3, MovesInv DEF Userless, Working, Upgrading, Verifications

LEMMA VerifyInv ==
  ASSUME HashingInv, NEW s \in SignIns, NEW throws \in BOOLEAN, Verify(s, throws)
  PROVE  HashingInv'
<1> DEFINE hash == signIn[s].loaded.hash
           matches == hash # Corrupt /\ ~throws /\ hash.of = signIn[s].password
           weak == NeedsRehash(hash.params, signIn[s].at)
           next == IF ~matches THEN "refused" ELSE IF weak THEN "hashing" ELSE "in"
<1>1. signIn[s].user \in Users /\ signIn[s].at \in Processes /\ signIn[s].pc \in Working
  BY DEF Verify, HashingInv, SignInInv, Working
<1>2. next \in Steps /\ next \in {"refused", "hashing", "in"}
  BY DEF Steps, Working, Upgrading, Ended
<1>3. Moves(s, next, Came(hash # Corrupt, throws))
  BY DEF Verify, Moves
<1>4. next = "hashing" => Deserves(signIn[s])
  BY DEF Deserves
<1>5. /\ next # "refused" => hash # Corrupt /\ Came(hash # Corrupt, throws) = "verdict"
      /\ Came(hash # Corrupt, throws) \in {"threw", "verdict"}
  BY DEF Came
<1> HIDE DEF next
<1>6. signIn[s].user # Nobody
  BY <1>1, NobodyIsNoUser
<1> QED
  BY <1>1, <1>2, <1>3, <1>4, <1>5, <1>6, MovesInv DEF Userless, Working, Upgrading, Verifications

LEMMA HashInv ==
  ASSUME HashingInv, NEW s \in SignIns, NEW throws \in BOOLEAN, Hash(s, throws)
  PROVE  HashingInv'
<1> DEFINE next == IF throws THEN "failed" ELSE "saving"
<1>1. signIn[s].at \in Processes /\ signIn[s].pc \in Working /\ Deserves(signIn[s])
  BY DEF Hash, HashingInv, SignInInv, Working, Upgrading
<1>2. next \in Steps /\ next \in {"failed", "saving"}
  BY DEF Steps, Working, Upgrading, Ended
<1>3. Moves(s, next, signIn[s].verification)
  BY DEF Hash, Goes, Moves, HashingInv, TypeOK
<1>4. signIn[s].verification \in Verifications
  BY DEF HashingInv, TypeOK
<1>5. signIn[s].loaded.hash # Corrupt /\ signIn[s].verification = "verdict"
  BY <1>1 DEF Deserves, Hash, HashingInv, OnlyThrowsRefuseCheaply
<1> HIDE DEF next
<1> QED
  BY <1>1, <1>2, <1>3, <1>4, <1>5, MovesInv DEF Userless, Working, Upgrading

(* A row that is written has a new version, so nobody takes it for what they *)
(* loaded.                                                                   *)
LEMMA WrittenRowIsNew ==
  ASSUME HashingInv, NEW u \in Users, NEW h \in Hashes,
         stored' = [stored EXCEPT ![u] = [hash |-> h, version |-> stored[u].version + 1]]
  PROVE  /\ stored' \in [Users -> Rows]
         /\ \A c : c.user \in Users /\ c.loaded \in Rows /\ RowIsKnown(c) => RowIsKnown(c)'
<1>1. stored[u] \in Rows /\ stored \in [Users -> Rows]
  BY DEF HashingInv, TypeOK
<1>2. \A v \in Users : stored'[v] =
        IF v = u THEN [hash |-> h, version |-> stored[u].version + 1] ELSE stored[v]
  BY <1>1
<1>3. stored' \in [Users -> Rows]
  BY <1>1 DEF Rows
<1>4. ASSUME NEW c, c.user \in Users, c.loaded \in Rows, RowIsKnown(c)
      PROVE  RowIsKnown(c)'
  BY <1>1, <1>2, <1>4 DEF RowIsKnown, Rows
<1> QED
  BY <1>3, <1>4

LEMMA ChangePasswordInv ==
  ASSUME HashingInv, NEW p \in Processes, NEW u \in Users, NEW password \in Passwords,
         ChangePassword(u, p, password)
  PROVE  HashingInv'
<1> DEFINE h == Hashed(password, p)
<1>1. h \in Hashes
  BY DEF Hashed, Hashes, HashingInv, TypeOK
<1>2. stored' = [stored EXCEPT ![u] = [hash |-> h, version |-> stored[u].version + 1]]
  BY DEF ChangePassword, HashingInv, TypeOK
<1>3. UNCHANGED <<policy, dummy, dummies, signIn>>
  BY DEF ChangePassword
<1> HIDE DEF h
<1>4. /\ stored' \in [Users -> Rows]
      /\ \A c : c.user \in Users /\ c.loaded \in Rows /\ RowIsKnown(c) => RowIsKnown(c)'
  BY <1>1, <1>2, WrittenRowIsNew
<1>5. TypeOK' /\ DummyInv'
  BY <1>3, <1>4 DEF HashingInv, TypeOK, DummyInv
<1>6. \A s \in SignIns : SignInInv(signIn[s])'
  <2> TAKE s \in SignIns
  <2>1. signIn'[s] = signIn[s] /\ signIn[s].loaded \in Rows
    BY <1>3 DEF HashingInv, TypeOK
  <2>2. SignInInv(signIn[s])
    BY DEF HashingInv
  <2>3. signIn[s].pc \in Working => RowIsKnown(signIn[s])'
    BY <1>4, <2>1, <2>2 DEF SignInInv
  <2> QED
    BY <1>3, <2>1, <2>2, <2>3 DEF SignInInv, RowIsKnown, Deserves, NeedsRehash
<1>7. OnlyThrowsRefuseCheaply' /\ CorruptRowsAreRefused'
  BY <1>3 DEF HashingInv, OnlyThrowsRefuseCheaply, CorruptRowsAreRefused
<1> QED
  BY <1>5, <1>6, <1>7 DEF HashingInv

(* What SaveUpgrade does if the row is what was loaded. *)
Saves(s) ==
  /\ signIn[s].loaded.version = stored[signIn[s].user].version
  /\ stored' = [stored EXCEPT ![signIn[s].user] =
       [hash |-> Hashed(signIn[s].password, signIn[s].at),
        version |-> stored[signIn[s].user].version + 1]]
  /\ signIn' = [signIn EXCEPT ![s].pc = "in"]

LEMMA SaveUpgradeInv ==
  ASSUME HashingInv, NEW s \in SignIns, SaveUpgrade(s)
  PROVE  HashingInv'
<1> DEFINE u == signIn[s].user
           h == Hashed(signIn[s].password, signIn[s].at)
<1>1. /\ u \in Users /\ signIn[s].at \in Processes /\ signIn[s].password \in Passwords
      /\ signIn[s].loaded.hash # Corrupt /\ signIn[s].verification = "verdict"
  BY DEF SaveUpgrade, HashingInv, SignInInv, Deserves, Working, Upgrading,
         OnlyThrowsRefuseCheaply
<1>2. CASE Saves(s)
  <2>1. h \in Hashes
    BY <1>1 DEF Hashed, Hashes, HashingInv, TypeOK
  <2>2. UNCHANGED <<policy, dummy, dummies>>
    BY DEF SaveUpgrade
  <2>3. \A t \in SignIns :
          signIn'[t] = IF t = s THEN [signIn[s] EXCEPT !.pc = "in"] ELSE signIn[t]
    BY <1>2 DEF Saves, HashingInv, TypeOK
  <2>4. \A t \in SignIns : /\ t # s => signIn'[t] = signIn[t]
                           /\ signIn'[t].loaded = signIn[t].loaded
                           /\ signIn'[t].user = signIn[t].user
                           /\ signIn'[t].verification = signIn[t].verification
    BY <2>3 DEF HashingInv, TypeOK
  <2>5. signIn'[s].pc = "in"
    BY <2>3 DEF HashingInv, TypeOK
  <2> HIDE DEF h
  <2>6. /\ stored' \in [Users -> Rows]
        /\ \A c : c.user \in Users /\ c.loaded \in Rows /\ RowIsKnown(c) => RowIsKnown(c)'
    BY <1>1, <1>2, <2>1, WrittenRowIsNew DEF Saves, h
  <2>7. TypeOK' /\ DummyInv'
    BY <1>2, <2>2, <2>6 DEF Saves, HashingInv, TypeOK, DummyInv, Ended
  <2>8. \A t \in SignIns : SignInInv(signIn[t])'
    <3> TAKE t \in SignIns
    <3>1. CASE t = s
      BY <2>5, <3>1 DEF SignInInv, Userless, Working, Upgrading
    <3>2. CASE t # s
      <4>1. signIn'[t] = signIn[t] /\ signIn[t].loaded \in Rows /\ SignInInv(signIn[t])
        BY <2>4, <3>2 DEF HashingInv, TypeOK
      <4>2. signIn[t].pc \in Working => RowIsKnown(signIn[t])'
        BY <2>6, <4>1 DEF SignInInv
      <4> QED
        BY <2>2, <4>1, <4>2 DEF SignInInv, RowIsKnown, Deserves, NeedsRehash
    <3> QED
      BY <3>1, <3>2
  <2>9. OnlyThrowsRefuseCheaply' /\ CorruptRowsAreRefused'
    BY <1>1, <2>4, <2>5 DEF HashingInv, OnlyThrowsRefuseCheaply, CorruptRowsAreRefused
  <2> QED
    BY <2>7, <2>8, <2>9 DEF HashingInv
<1>3. CASE ~Saves(s)
  <2>1. Moves(s, "failed", signIn[s].verification)
    BY <1>3 DEF SaveUpgrade, Goes, Saves, Moves, HashingInv, TypeOK
  <2>2. "failed" \in Steps /\ signIn[s].verification \in Verifications
    BY DEF Steps, Ended, HashingInv, TypeOK
  <2> QED
    BY <1>1, <2>1, <2>2, MovesInv DEF Userless, Working, Upgrading
<1> QED
  BY <1>2, <1>3

LEMMA ReplaceInv ==
  ASSUME HashingInv, NEW p \in Processes, NEW new \in Policies, Replace(p, new)
  PROVE  HashingInv'
<1> DEFINE lost == [Idle EXCEPT !.pc = "lost"]
<1>1. \A s \in SignIns :
        signIn'[s] = IF signIn[s].at = p /\ signIn[s].pc \notin Ended THEN lost ELSE signIn[s]
  BY DEF Replace
<1>2. UNCHANGED stored /\ \A q \in Processes \ {p} : policy'[q] = policy[q]
  BY DEF Replace, HashingInv, TypeOK
<1>3. lost.pc = "lost" /\ lost.user = Nobody
  BY DEF Idle
<1>4. TypeOK' /\ DummyInv'
  BY DEF Replace, HashingInv, TypeOK, DummyInv, Idle, Nothing, Rows, Hashes, Ended,
         Verifications
<1> HIDE DEF lost
<1>5. \A s \in SignIns : SignInInv(signIn[s])'
  <2> TAKE s \in SignIns
  <2>1. CASE signIn'[s] = lost
    BY <1>3, <2>1 DEF SignInInv, Userless, Working, Upgrading
  <2>2. CASE signIn'[s] = signIn[s] /\ signIn[s].pc \in Ended
    BY <2>2 DEF SignInInv, Userless, Working, Upgrading, Ended
  <2>3. CASE signIn'[s] = signIn[s] /\ signIn[s].at # p
    BY <1>2, <2>3 DEF HashingInv, SignInInv, RowIsKnown, Deserves, NeedsRehash, Working, Upgrading
  <2> QED
    BY <1>1, <2>1, <2>2, <2>3
<1>6. OnlyThrowsRefuseCheaply' /\ CorruptRowsAreRefused'
  BY <1>1, <1>3 DEF HashingInv, OnlyThrowsRefuseCheaply, CorruptRowsAreRefused
<1> QED
  BY <1>4, <1>5, <1>6 DEF HashingInv

LEMMA NextHashing == HashingInv /\ [Next]_vars => HashingInv'
<1> SUFFICES ASSUME HashingInv, [Next]_vars PROVE HashingInv'
  OBVIOUS
<1>1. CASE UNCHANGED vars
  BY <1>1 DEF vars, HashingInv, TypeOK, DummyInv, SignInInv, RowIsKnown, Deserves, NeedsRehash,
              OnlyThrowsRefuseCheaply, CorruptRowsAreRefused
<1> QED
  BY <1>1, DummyStepInv, ReplaceInv, ChangePasswordInv, SignInUnknownInv, SignInKnownInv,
     AwaitDummyInv, CompareDummyInv, VerifyInv, HashInv, SaveUpgradeInv DEF Next

-----------------------------------------------------------------------------
(* The inductive invariant of the hasher and the sign-ins. *)
THEOREM HashingIsConsistent == Spec => []HashingInv
  BY InitHashing, NextHashing, PTL DEF Spec

(* Hashes are made with the parameters of a policy that was released. *)
THEOREM HashingTypes == Spec => []TypeOK
<1>1. HashingInv => TypeOK
  BY DEF HashingInv
<1> QED
  BY <1>1, HashingIsConsistent, PTL

(* However many sign-ins for unknown addresses meet, a process builds the    *)
(* dummy hash once.                                                          *)
THEOREM OneDummyIsBuilt == Spec => []OneDummyPerProcess
<1>1. HashingInv => OneDummyPerProcess
  BY DEF HashingInv, DummyInv, OneDummyPerProcess
<1> QED
  BY <1>1, HashingIsConsistent, PTL

(* A sign-in is refused without a verification's cost only if the library    *)
(* threw on it, and such a throw lets nobody in.                             *)
THEOREM NoCheapRefusals == Spec => []OnlyThrowsRefuseCheaply
<1>1. HashingInv => OnlyThrowsRefuseCheaply
  BY DEF HashingInv
<1> QED
  BY <1>1, HashingIsConsistent, PTL

(* A row that is no hash lets nobody in and fails nobody. *)
THEOREM CorruptRowsLetNobodyIn == Spec => []CorruptRowsAreRefused
<1>1. HashingInv => CorruptRowsAreRefused
  BY DEF HashingInv
<1> QED
  BY <1>1, HashingIsConsistent, PTL

(* The one step that upgrades a row. *)
LEMMA UpgradesAreSaves ==
  ASSUME HashingInv, Next, NEW s \in SignIns, NEW u \in Users,
         signIn'[s].pc # signIn[s].pc, Upgrades(s, u)
  PROVE  /\ stored[u].hash = signIn[s].loaded.hash
         /\ stored'[u].hash = Hashed(signIn[s].password, signIn[s].at)
         /\ stored'[u].version = stored[u].version + 1
         /\ Deserves(signIn[s])
         /\ UNCHANGED policy
<1>1. signIn' # signIn /\ stored' # stored
  BY DEF Upgrades
<1>2. PICK t \in SignIns : SaveUpgrade(t)
  BY <1>1 DEF Next, DummySettles, Replace, ChangePassword, SignInUnknown, SignInKnown, Begin,
              AwaitDummy, CompareDummy, Verify, Hash
<1>3. t = s
  BY <1>2 DEF SaveUpgrade, Goes, HashingInv, TypeOK
<1>4. /\ signIn[s].user = u
      /\ signIn[s].loaded.version = stored[u].version
      /\ stored' = [stored EXCEPT ![u] =
           [hash |-> Hashed(signIn[s].password, signIn[s].at), version |-> @.version + 1]]
      /\ UNCHANGED policy
  BY <1>1, <1>2, <1>3 DEF SaveUpgrade, Upgrades
<1>5. signIn[s].pc = "saving" /\ SignInInv(signIn[s])
  BY DEF Upgrades, HashingInv
<1> QED
  BY <1>4, <1>5 DEF SignInInv, RowIsKnown, Working, Upgrading, HashingInv, TypeOK

(* Under any history of policies, an upgrade makes of a hash weaker than the *)
(* policy of the process one that is not.                                    *)
THEOREM UpgradesAreUpgrades == Spec => UpgradesUpgrade
<1>1. HashingInv /\ [Next]_vars =>
        [\A s \in SignIns, u \in Users : signIn'[s].pc # signIn[s].pc /\ Upgrades(s, u) =>
           /\ ~Meets(stored[u].hash, policy[signIn[s].at])
           /\ Meets(stored'[u].hash, policy[signIn[s].at])]_vars
  <2> SUFFICES ASSUME HashingInv, Next, NEW s \in SignIns, NEW u \in Users,
                      signIn'[s].pc # signIn[s].pc, Upgrades(s, u)
               PROVE  /\ ~Meets(stored[u].hash, policy[signIn[s].at])
                      /\ Meets(stored'[u].hash, policy[signIn[s].at])
    OBVIOUS
  <2> DEFINE now == policy[signIn[s].at]
             old == stored[u].hash.params
  <2>1. /\ Deserves(signIn[s]) /\ stored[u].hash = signIn[s].loaded.hash
        /\ stored'[u].hash = Hashed(signIn[s].password, signIn[s].at)
    BY UpgradesAreSaves
  <2>2. signIn[s].at \in Processes /\ signIn[s].password \in Passwords
    BY DEF HashingInv, SignInInv, Upgrades, Working, Upgrading
  <2>3. now \in Policies
    BY <2>2 DEF HashingInv, TypeOK
  <2>4. now \in [memory : Nat, time : Nat, parallelism : Nat]
    BY <2>3, PoliciesAreCosts
  <2>5. Meets(stored'[u].hash, now)
    <3>1. /\ stored'[u].hash.params = now
          /\ stored'[u].hash \in [of : Passwords, params : Policies \cup {Foreign}]
      BY <2>1, <2>2, <2>3 DEF Hashed
    <3>2. \A cost \in DOMAIN now : now[cost] >= now[cost]
      BY <2>4
    <3> QED
      BY <2>3, <3>1, <3>2, MarksAreNoHashes DEF Meets
  <2>6. ~Meets(stored[u].hash, now)
    <3>1. /\ stored[u].hash # Corrupt
          /\ old = Foreign \/ \E cost \in {"memory", "time", "parallelism"} : old[cost] < now[cost]
      BY <2>1 DEF Deserves, NeedsRehash
    <3>2. old \in Policies \cup {Foreign}
      BY <3>1 DEF HashingInv, TypeOK, Rows, Hashes
    <3>3. ASSUME old # Foreign PROVE old \in [memory : Nat, time : Nat, parallelism : Nat]
      BY <3>2, <3>3, PoliciesAreCosts
    <3>4. DOMAIN now = {"memory", "time", "parallelism"}
      BY <2>4
    <3> QED
      BY <2>4, <3>1, <3>3, <3>4 DEF Meets
  <2> QED
    BY <2>5, <2>6
<1> QED
  BY <1>1, HashingIsConsistent, PTL DEF Spec, UpgradesUpgrade

(* An upgrade never puts back a password that the user has changed. *)
THEOREM UpgradesRestoreNoPassword == Spec => UpgradesKeepThePassword
<1>1. HashingInv /\ [Next]_vars =>
        [\A s \in SignIns, u \in Users : signIn'[s].pc # signIn[s].pc /\ Upgrades(s, u) =>
           stored[u].hash # Corrupt /\ stored'[u].hash.of = stored[u].hash.of]_vars
  <2> SUFFICES ASSUME HashingInv, Next, NEW s \in SignIns, NEW u \in Users,
                      signIn'[s].pc # signIn[s].pc, Upgrades(s, u)
               PROVE  stored[u].hash # Corrupt /\ stored'[u].hash.of = stored[u].hash.of
    OBVIOUS
  <2>1. /\ stored[u].hash = signIn[s].loaded.hash
        /\ stored'[u].hash = Hashed(signIn[s].password, signIn[s].at)
        /\ Deserves(signIn[s])
    BY UpgradesAreSaves
  <2>2. stored'[u].hash.of = signIn[s].password
    BY <2>1 DEF Hashed
  <2> QED
    BY <2>1, <2>2 DEF Deserves
<1> QED
  BY <1>1, HashingIsConsistent, PTL DEF Spec, UpgradesKeepThePassword

(* What anybody has saved was hashed by this service. *)
SavedIsOurs ==
  \A u \in Users : stored[u].version # 0 =>
    stored[u].hash # Corrupt /\ stored[u].hash.params \in Policies

LEMMA HashedIsOurs ==
  ASSUME HashingInv, NEW p \in Processes, NEW password \in Passwords
  PROVE  Hashed(password, p) # Corrupt /\ Hashed(password, p).params \in Policies
<1>1. Hashed(password, p) = [of |-> password, params |-> policy[p]] /\ policy[p] \in Policies
  BY DEF Hashed, HashingInv, TypeOK
<1>2. [of |-> password, params |-> policy[p]]
        \in [of : Passwords, params : Policies \cup {Foreign}]
  BY <1>1
<1> QED
  BY <1>1, <1>2, MarksAreNoHashes

LEMMA SavesAreOurs == HashingInv /\ SavedIsOurs /\ [Next]_vars => SavedIsOurs'
<1> SUFFICES ASSUME HashingInv, SavedIsOurs, [Next]_vars, NEW u \in Users,
                    stored'[u] # stored[u]
             PROVE  stored'[u].hash # Corrupt /\ stored'[u].hash.params \in Policies
  BY DEF SavedIsOurs
<1> USE DEF HashingInv, TypeOK
<1>1. Next
  BY DEF vars
<1>2. CASE \E p \in Processes, v \in Users, password \in Passwords :
             ChangePassword(v, p, password)
  <2>1. PICK p \in Processes, password \in Passwords : ChangePassword(u, p, password)
    BY <1>2 DEF ChangePassword
  <2>2. stored'[u].hash = Hashed(password, p)
    BY <2>1 DEF ChangePassword
  <2> QED
    BY <2>2, HashedIsOurs
<1>3. CASE \E s \in SignIns : SaveUpgrade(s)
  <2>1. PICK s \in SignIns : SaveUpgrade(s)
    BY <1>3
  <2>2. signIn[s].pc \in Working /\ SignInInv(signIn[s])
    BY <2>1 DEF SaveUpgrade, Working, Upgrading
  <2>3. signIn[s].at \in Processes /\ signIn[s].password \in Passwords
    BY <2>2 DEF SignInInv
  <2>4. stored'[u].hash = Hashed(signIn[s].password, signIn[s].at)
    BY <2>1 DEF SaveUpgrade
  <2> QED
    BY <2>3, <2>4, HashedIsOurs
<1> QED
  BY <1>1, <1>2, <1>3
     DEF Next, DummySettles, Replace, SignInUnknown, SignInKnown, Begin, AwaitDummy,
         CompareDummy, Verify, Hash

(* With one policy everywhere an upgrade is of a row that nobody has saved   *)
(* yet, so a row is upgraded once at most: the hash an upgrade makes is not  *)
(* found weak by the next sign-in (argon2-password-hasher.ts:46-50).         *)
THEOREM OnePolicyUpgradesOnce ==
  ASSUME NEW costs, Policies = {costs}
  PROVE  Spec => [][\A s \in SignIns, u \in Users :
           signIn'[s].pc # signIn[s].pc /\ Upgrades(s, u) =>
             stored[u].version = 0 /\ stored'[u].version = 1]_vars
<1>1. Init => SavedIsOurs
  BY DEF Init, SavedIsOurs
<1>2. Spec => []SavedIsOurs
  BY <1>1, SavesAreOurs, HashingIsConsistent, PTL DEF Spec
<1>3. HashingInv /\ SavedIsOurs /\ [Next]_vars =>
        [\A s \in SignIns, u \in Users : signIn'[s].pc # signIn[s].pc /\ Upgrades(s, u) =>
           stored[u].version = 0 /\ stored'[u].version = 1]_vars
  <2> SUFFICES ASSUME HashingInv, SavedIsOurs, Next, NEW s \in SignIns, NEW u \in Users,
                      signIn'[s].pc # signIn[s].pc, Upgrades(s, u)
               PROVE  stored[u].version = 0 /\ stored'[u].version = 1
    OBVIOUS
  <2>1. /\ Deserves(signIn[s]) /\ stored[u].hash = signIn[s].loaded.hash
        /\ stored'[u].version = stored[u].version + 1
    BY UpgradesAreSaves
  <2>2. policy[signIn[s].at] = costs
    BY DEF HashingInv, TypeOK, SignInInv, Upgrades, Working, Upgrading
  <2>3. costs \in [memory : Nat, time : Nat, parallelism : Nat]
    BY PoliciesAreCosts
  <2>4. stored[u].hash.params # costs
    BY <2>1, <2>2, <2>3, MarksAreNoHashes DEF Deserves, NeedsRehash
  <2>5. stored[u].version = 0
    BY <2>4 DEF SavedIsOurs
  <2> QED
    BY <2>1, <2>5
<1> QED
  BY <1>2, <1>3, HashingIsConsistent, PTL DEF Spec
=============================================================================
