-------------------------- MODULE MCRequestContext --------------------------
(* Instances of RequestContext: an edge service that mints ids as Fastify    *)
(* does, peers behind it, and the declarations the runs compare.             *)
EXTENDS RequestContext, TLC

CONSTANTS edge, peer, last, requestId, other, junk

MCTrust == [u \in Units |-> IF u = edge THEN "edge" ELSE "internal"]
MCMintsId == [u \in Units |-> u # last]
MCFields == {requestId, other}

Id(carrier, generates, writable) ==
  [carrier |-> carrier, trust |-> "edge", generates |-> generates, propagate |-> carrier,
   echo |-> TRUE, log |-> TRUE, writable |-> writable, id |-> TRUE]

(* config/context.ts:20-31 *)
AppId == Id(TRUE, TRUE, "setup")

Declared(carriers, generates, echoes, logs) ==
  {d \in [carrier : carriers, trust : {"edge", "internal", "never"}, generates : generates,
          propagate : carriers, echo : echoes, log : logs,
          writable : {"setup", "once", "always"}, id : {FALSE}] :
     d.propagate => d.carrier}

Pairs(ids, others) == {[f \in MCFields |-> IF f = requestId THEN i ELSE o] :
                         i \in ids, o \in others}

(* Three services in a row, under every declaration of a field that travels  *)
(* and is logged, some that stay, generate or are echoed, and an id that     *)
(* nobody generates.                                                         *)
Travelling == Declared({TRUE}, {FALSE}, {FALSE}, {TRUE})
MCDeclarations ==
  Pairs({AppId}, Travelling)
    \cup Pairs({AppId}, {d \in Declared(BOOLEAN, {TRUE}, BOOLEAN, {TRUE}) :
                          d.writable = "always" /\ d.trust = "internal"
                            /\ d.propagate = d.carrier /\ (d.echo => d.propagate)})
    \cup Pairs({Id(TRUE, FALSE, "once")}, {d \in Travelling : d.writable = "once" /\ d.trust = "edge"})

AppDeclaration == Pairs({AppId}, Declared({FALSE}, {FALSE}, {FALSE}, {TRUE}))

(* Strings: what satisfies the contract is on the wire as it is. *)
StringWires == Values \cup {junk}
StringEncode == [x \in StringWires |-> x]
StringDecode == [w \in StringWires |-> IF w \in Values THEN w ELSE Malformed]

Symmetry == Permutations(Values)
=============================================================================
