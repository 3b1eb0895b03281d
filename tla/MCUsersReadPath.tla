--------------------------- MODULE MCUsersReadPath ---------------------------
(* UsersReadPath on a small instance, for TLC. *)
EXTENDS UsersReadPath

CONSTANTS alex, kim, sam, u1, u2, u3

MCNoneVouches == [provider : Providers, externalId : ExternalIds, vouches : {FALSE}]

(* No search, one that a late registration may match, one for one address. *)
MCSearches == {Emails, {alex, sam}, {kim}}

MCEmailOrder == [e \in Emails |-> CASE e = alex -> 1 [] e = kim -> 2 [] e = sam -> 3]

(* The first two ids are drawn in the same millisecond. *)
MCCreatedAt == [u \in UserIds |-> IF u = u3 THEN 2 ELSE 1]

MCTies == {[u \in UserIds |-> IF u = u1 THEN 1 ELSE IF u = u2 THEN 2 ELSE 3],
           [u \in UserIds |-> IF u = u1 THEN 2 ELSE IF u = u2 THEN 1 ELSE 3]}
=============================================================================
