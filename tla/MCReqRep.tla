------------------------------ MODULE MCReqRep ------------------------------
(* ReqRep for TLC: contexts of a kind are interchangeable.                 *)
EXTENDS ReqRep, TLC

ContextSymmetry == Permutations(Clients) \cup Permutations(Servers)
=============================================================================
