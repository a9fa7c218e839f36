---------------------------- MODULE MCClientImpl ----------------------------
(* Instances of ClientImpl for TLC.                                          *)
EXTENDS ClientImpl, TLC

\* Connections are interchangeable: nothing orders bufferevent addresses.
BevSymmetry == Permutations(Bev)
=============================================================================
