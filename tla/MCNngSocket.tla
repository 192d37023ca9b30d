---------------------------- MODULE MCNngSocket ----------------------------
(* NngSocket for TLC: sockets, and parts, are interchangeable.             *)
EXTENDS NngSocket, TLC

SocketSymmetry == Permutations(Sockets) \cup Permutations(Parts)
=============================================================================
