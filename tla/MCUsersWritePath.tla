-------------------------- MODULE MCUsersWritePath --------------------------
(* UsersWritePath on small instances, for TLC. *)
EXTENDS UsersWritePathInvariant, TLC

CONSTANTS alex, alexTyped, sam, spam, junk, google

(* Alex, also as somebody may type it, Sam, a blocked address and one that *)
(* is none.                                                                 *)
MCRawEmails == {alex, alexTyped, sam, spam, junk}
MCEmailOf ==
  [raw \in MCRawEmails |->
     CASE raw \in {alex, alexTyped} -> alex
       [] raw = sam -> sam
       [] raw = spam -> spam
       [] raw = junk -> Malformed]
MCEmails == {alex, sam, spam}
MCBlockedEmails == {spam}

(* Addresses typed one way only. *)
MCAlexOnly == [raw \in {alex} |-> alex]
MCAlexAndSam == [raw \in {alex, sam} |-> raw]

MCProfiles == [provider : Providers, externalId : ExternalIds, vouches : BOOLEAN]
MCNoneVouches == {p \in MCProfiles : ~p.vouches}
(* Google has verified the address, the others have not: who links Google is *)
(* verified by it.                                                           *)
MCOneVouches == {p \in MCProfiles : p.vouches <=> p.provider = google}

Symmetry ==
  Permutations(Requests) \cup Permutations(UserIds) \cup Permutations(ExternalIds)
    \cup Permutations(AccountIds) \cup Permutations(Hashes)
=============================================================================
