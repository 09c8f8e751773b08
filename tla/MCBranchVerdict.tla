-------------------------- MODULE MCBranchVerdict ---------------------------
(* Two branches for a backend of each kind; one for a portfolio of which   *)
(* any two backends lie.                                                   *)
EXTENDS BranchVerdict

SmallRequests ==
    [branches : {2}, solver : {"z3"}, widen : BOOLEAN, faulty : {{}}]
    \cup [branches : {1}, solver : {"cvc5", "bitwuzla"}, widen : BOOLEAN, faulty : {{}}]
    \cup [branches : {1}, solver : {"portfolio"}, widen : BOOLEAN,
          faulty : {Backends \ {b} : b \in Backends}]

=============================================================================
