--------------------------- MODULE PasswordHashing ---------------------------
(***************************************************************************)
(* Argon2PasswordHasher in the processes of a fleet, each with the policy  *)
(* it was built with, and the client its port describes: a sign-in that    *)
(* verifies the stored hash, or the dummy if there is no user, and         *)
(* upgrades a hash that is weaker than the policy, through the version     *)
(* check of the repository.  Any call of the native library may throw, at  *)
(* once and without a verification's cost; a process may be replaced by    *)
(* one with another policy.                                                *)
(***************************************************************************)
EXTENDS Integers, FiniteSets

CONSTANTS
  SignIns, Processes, Users, Passwords,
  Policies,    \* values of POLICY across releases
  MaxVersion,  \* bound: how often a user is saved
  Corrupt,     \* a stored hash that the library cannot read
  Foreign,     \* parameters that PARAMS does not match in a hash that it can
  Nobody       \* no user has the address; the owner of no password

ASSUME PoliciesAreCosts == Policies \subseteq [memory : Nat, time : Nat, parallelism : Nat]
ASSUME NobodyIsNoUser == Nobody \notin Users
ASSUME MarksAreNoHashes ==
  Foreign \notin Policies /\ Corrupt \notin [of : Passwords, params : Policies \cup {Foreign}]

VARIABLES
  policy,   \* of each process
  dummy,    \* this.dummy: null, or a promise that is pending, fulfilled, rejected
  dummies,  \* history: how many dummy hashes the process has asked for
  stored,   \* the credential row and the version of its user
  signIn

vars == <<policy, dummy, dummies, stored, signIn>>

Hashes == [of : Passwords, params : Policies \cup {Foreign}] \cup {Corrupt}

Rows == [hash : Hashes, version : Nat]

Nothing == [hash |-> Corrupt, version |-> 0]

(* What a verification came to: nobody asked for one yet, the library     *)
(* threw, or it had computed the hash and had a verdict.                   *)
Verifications == {"none", "threw", "verdict"}

Idle == [pc |-> "idle", at |-> Nobody, user |-> Nobody, password |-> Nobody,
         loaded |-> Nothing, verification |-> "none"]

Init ==
  /\ policy \in [Processes -> Policies]
  /\ dummy = [p \in Processes |-> "null"]
  /\ dummies = [p \in Processes |-> 0]
  /\ stored \in [Users -> [hash : Hashes, version : {0}]]
  /\ signIn = [s \in SignIns |-> Idle]

(* s goes to pc. *)
Goes(s, pc) == signIn' = [signIn EXCEPT ![s].pc = pc]

-----------------------------------------------------------------------------
(* The operations of the hasher *)

(* Bug: what is as strong as the policy is hashed again. *)
NeedsRehashOfEqual(params, p) ==
  \/ params = Foreign
  \/ \E cost \in {"memory", "time", "parallelism"} : params[cost] <= policy[p][cost]

NeedsRehash(params, p) ==
  \/ params = Foreign
  \/ \E cost \in {"memory", "time", "parallelism"} : params[cost] < policy[p][cost]

(* Bug: the promise is kept once it is fulfilled, not when it is made. *)
MakeDummyAfterAwait(p) ==
  IF dummy[p] \in {"null", "pending"}
  THEN /\ dummy' = [dummy EXCEPT ![p] = "pending"]
       /\ dummies' = [dummies EXCEPT ![p] = @ + 1]
  ELSE UNCHANGED <<dummy, dummies>>

(* this.dummy ??= hash(...) *)
MakeDummy(p) ==
  IF dummy[p] = "null"
  THEN /\ dummy' = [dummy EXCEPT ![p] = "pending"]
       /\ dummies' = [dummies EXCEPT ![p] = @ + 1]
  ELSE UNCHANGED <<dummy, dummies>>

(* A promise that is rejected stays. *)
DummySettles(p, outcome) ==
  /\ dummy[p] = "pending"
  /\ dummy' = [dummy EXCEPT ![p] = outcome]
  /\ UNCHANGED <<policy, dummies, stored, signIn>>

(* Bug: the promise itself is handed to verify, which rejects it. *)
AwaitNothing(s) ==
  /\ signIn[s].pc = "awaiting"
  /\ Goes(s, "refused")
  /\ UNCHANGED <<policy, dummy, dummies, stored>>

(* Bug: nobody looks for a rejection. *)
AwaitFulfilled(s) ==
  /\ signIn[s].pc = "awaiting"
  /\ dummy[signIn[s].at] = "fulfilled"
  /\ Goes(s, "comparing")
  /\ UNCHANGED <<policy, dummy, dummies, stored>>

(* await this.dummy; a rejection is the caller's. *)
AwaitDummy(s) ==
  /\ signIn[s].pc = "awaiting"
  /\ \/ dummy[signIn[s].at] = "fulfilled" /\ Goes(s, "comparing")
     \/ dummy[signIn[s].at] = "rejected" /\ Goes(s, "failed")
  /\ UNCHANGED <<policy, dummy, dummies, stored>>

(* Library call of s; what it cannot read it throws on. *)
Came(readable, throws) == IF readable /\ ~throws THEN "verdict" ELSE "threw"

(* The end of verifyDummy: whatever verify says of the dummy is dropped, and *)
(* so is what the library throws at it.                                      *)
CompareDummy(s, throws) ==
  /\ signIn[s].pc = "comparing"
  /\ signIn' = [signIn EXCEPT ![s].pc = "refused", ![s].verification = Came(TRUE, throws)]
  /\ UNCHANGED <<policy, dummy, dummies, stored>>

(* Bug: without the try, what the library throws is the caller's. *)
VerifyUncaught(s, throws) ==
  /\ signIn[s].pc = "verifying"
  /\ LET hash == signIn[s].loaded.hash IN
       signIn' = [signIn EXCEPT
         ![s].verification = Came(hash # Corrupt, throws),
         ![s].pc = CASE hash = Corrupt \/ throws -> "failed"
                     [] hash.of # signIn[s].password -> "refused"
                     [] NeedsRehash(hash.params, signIn[s].at) -> "hashing"
                     [] OTHER -> "in"]
  /\ UNCHANGED <<policy, dummy, dummies, stored>>

(* verify is false at once if the library throws, as it does on what is not  *)
(* a hash; of a match the sign-in asks needsRehash.                          *)
Verify(s, throws) ==
  /\ signIn[s].pc = "verifying"
  /\ LET hash == signIn[s].loaded.hash
         matches == hash # Corrupt /\ ~throws /\ hash.of = signIn[s].password
     IN signIn' = [signIn EXCEPT
          ![s].verification = Came(hash # Corrupt, throws),
          ![s].pc = IF ~matches THEN "refused"
                    ELSE IF NeedsRehash(hash.params, signIn[s].at) THEN "hashing" ELSE "in"]
  /\ UNCHANGED <<policy, dummy, dummies, stored>>

(* hash, which does reject. *)
Hash(s, throws) ==
  /\ signIn[s].pc = "hashing"
  /\ Goes(s, IF throws THEN "failed" ELSE "saving")
  /\ UNCHANGED <<policy, dummy, dummies, stored>>

-----------------------------------------------------------------------------
(* The client *)

Begin(s, p, u, password) ==
  /\ signIn[s].pc = "idle"
  /\ signIn' = [signIn EXCEPT ![s] =
       [Idle EXCEPT !.pc = IF u = Nobody THEN "awaiting" ELSE "verifying",
                    !.at = p, !.user = u, !.password = password,
                    !.loaded = IF u = Nobody THEN Nothing ELSE stored[u]]]
  /\ UNCHANGED <<policy, stored>>

SignInUnknown(s, p) == Begin(s, p, Nobody, Nobody) /\ MakeDummy(p)

SignInKnown(s, p, u, password) ==
  Begin(s, p, u, password) /\ UNCHANGED <<dummy, dummies>>

Hashed(password, p) == [of |-> password, params |-> policy[p]]

(* Bug: the upgrade is saved whatever was saved since. *)
SaveAnyVersion(s) ==
  /\ signIn[s].pc = "saving"
  /\ stored' = [stored EXCEPT ![signIn[s].user] =
       [hash |-> Hashed(signIn[s].password, signIn[s].at), version |-> @.version + 1]]
  /\ Goes(s, "in")
  /\ UNCHANGED <<policy, dummy, dummies>>

(* The repository saves what was loaded at the current version. *)
SaveUpgrade(s) ==
  /\ signIn[s].pc = "saving"
  /\ LET u == signIn[s].user IN
       IF signIn[s].loaded.version = stored[u].version
       THEN /\ stored' = [stored EXCEPT ![u] =
                 [hash |-> Hashed(signIn[s].password, signIn[s].at), version |-> @.version + 1]]
            /\ Goes(s, "in")
       ELSE UNCHANGED stored /\ Goes(s, "failed")
  /\ UNCHANGED <<policy, dummy, dummies>>

(* There is room for an upgrade by each sign-in after it. *)
ChangePassword(u, p, password) ==
  /\ stored[u].version < MaxVersion - Cardinality(SignIns)
  /\ stored' = [stored EXCEPT ![u] =
       [hash |-> Hashed(password, p), version |-> @.version + 1]]
  /\ UNCHANGED <<policy, dummy, dummies, signIn>>

Ended == {"in", "refused", "failed", "lost"}

(* A release, a rollback or a crash: the promise goes with its process. *)
Replace(p, new) ==
  /\ policy' = [policy EXCEPT ![p] = new]
  /\ dummy' = [dummy EXCEPT ![p] = "null"]
  /\ dummies' = [dummies EXCEPT ![p] = 0]
  /\ signIn' = [s \in SignIns |->
       IF signIn[s].at = p /\ signIn[s].pc \notin Ended
       THEN [Idle EXCEPT !.pc = "lost"] ELSE signIn[s]]
  /\ UNCHANGED stored

Next ==
  \/ \E p \in Processes :
       \/ \E outcome \in {"fulfilled", "rejected"} : DummySettles(p, outcome)
       \/ \E new \in Policies : Replace(p, new)
       \/ \E u \in Users, password \in Passwords : ChangePassword(u, p, password)
  \/ \E s \in SignIns :
       \/ \E p \in Processes :
            \/ SignInUnknown(s, p)
            \/ \E u \in Users, password \in Passwords : SignInKnown(s, p, u, password)
       \/ AwaitDummy(s)
       \/ \E throws \in BOOLEAN : CompareDummy(s, throws) \/ Verify(s, throws) \/ Hash(s, throws)
       \/ SaveUpgrade(s)

(* The thread pool of the library answers, well or badly, and the loop goes  *)
(* on. Nobody has to sign in and nothing has to be released.                 *)
Fairness ==
  /\ \A p \in Processes : WF_vars(\E outcome \in {"fulfilled", "rejected"} : DummySettles(p, outcome))
  /\ \A s \in SignIns :
       /\ WF_vars(AwaitDummy(s))
       /\ WF_vars(\E throws \in BOOLEAN :
                    CompareDummy(s, throws) \/ Verify(s, throws) \/ Hash(s, throws))
       /\ WF_vars(SaveUpgrade(s))

Spec == Init /\ [][Next]_vars /\ Fairness

-----------------------------------------------------------------------------
TypeOK ==
  /\ policy \in [Processes -> Policies]
  /\ dummy \in [Processes -> {"null", "pending", "fulfilled", "rejected"}]
  /\ dummies \in [Processes -> Nat]
  /\ stored \in [Users -> Rows]
  /\ signIn \in [SignIns ->
       [pc : {"idle", "awaiting", "comparing", "verifying", "hashing", "saving"} \cup Ended,
        at : Processes \cup {Nobody}, user : Users \cup {Nobody},
        password : Passwords \cup {Nobody}, loaded : Rows,
        verification : Verifications]]

(* "Built once, lazily, because it costs a real hash"                        *)
(* (argon2-password-hasher.ts:20), however many sign-ins meet while it is    *)
(* being built.                                                              *)
OneDummyPerProcess == \A p \in Processes : dummies[p] <= 1

(* "A wrong address answers measurably faster than a wrong password"         *)
(* without it (password-hasher.ts:16-19): whoever is refused, for the wrong  *)
(* one of the two, has cost a verification, unless the library threw, and    *)
(* then nobody is let in.                                                    *)
OnlyThrowsRefuseCheaply ==
  \A s \in SignIns :
    /\ signIn[s].pc = "refused" => signIn[s].verification \in {"threw", "verdict"}
    /\ signIn[s].pc \in {"hashing", "saving", "in"} => signIn[s].verification = "verdict"

(* "A malformed or truncated hash is a corrupt row, not a correct password"  *)
(* (argon2-password-hasher.ts:32), and nor is it an error.                   *)
CorruptRowsAreRefused ==
  \A s \in SignIns :
    signIn[s].user # Nobody /\ signIn[s].loaded.hash = Corrupt =>
      signIn[s].pc \in {"verifying", "refused", "lost"}

Upgrades(s, u) ==
  signIn[s].pc = "saving" /\ signIn[s].user = u /\ stored'[u] # stored[u]

Meets(hash, costs) ==
  hash # Corrupt /\ hash.params # Foreign
    /\ \A cost \in DOMAIN costs : hash.params[cost] >= costs[cost]

(* An upgrade makes of a hash that is weaker than the policy of its process  *)
(* one that is not: with one policy everywhere, the next sign-in finds       *)
(* nothing to upgrade (argon2-password-hasher.ts:46-50).                     *)
UpgradesUpgrade ==
  [][\A s \in SignIns, u \in Users : signIn'[s].pc # signIn[s].pc /\ Upgrades(s, u) =>
       /\ ~Meets(stored[u].hash, policy[signIn[s].at])
       /\ Meets(stored'[u].hash, policy[signIn[s].at])]_vars

(* An upgrade is of the password that is stored, although it was verified    *)
(* and hashed while the user may have changed it.                            *)
UpgradesKeepThePassword ==
  [][\A s \in SignIns, u \in Users : signIn'[s].pc # signIn[s].pc /\ Upgrades(s, u) =>
       stored[u].hash # Corrupt /\ stored'[u].hash.of = stored[u].hash.of]_vars

(* Whatever the library does, and even if the promise of the dummy was       *)
(* rejected long ago, a sign-in ends.                                        *)
SignInsEnd == \A s \in SignIns : signIn[s].pc # "idle" ~> signIn[s].pc \in Ended
=============================================================================
