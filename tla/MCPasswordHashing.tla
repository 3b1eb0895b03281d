-------------------------- MODULE MCPasswordHashing --------------------------
(* PasswordHashing with two releases whose policies OWASP calls equivalent:  *)
(* each is weaker than the other in one parameter.                           *)
EXTENDS PasswordHashing

(* 19 MiB and two passes, 46 MiB and one. *)
MCPolicies ==
  {[memory |-> 19, time |-> 2, parallelism |-> 1], [memory |-> 46, time |-> 1, parallelism |-> 1]}
=============================================================================
