------------------------------ MODULE MCRouting ------------------------------
(* Routing for TLC: two hosts, two partitions; a leader moves and the ring  *)
(* grows.                                                                   *)
EXTENDS Routing

MCSymmetry == Permutations(Bev)
MCHash == {-2, 0, 1, 3}
MCStray == {-1, 0}
MCRingA == <<[hash |-> -2, partition |-> 0], [hash |-> 1, partition |-> 1]>>
MCRingB == <<[hash |-> -2, partition |-> 0], [hash |-> 0, partition |-> 1],
             [hash |-> 2, partition |-> 0]>>
MCRing == {MCRingA, MCRingB, <<>>}

MCLeaders(h0, h1, mp) == (0 :> h0) @@ (1 :> h1) @@ (16383 :> mp)

MCTopology == << [leader |-> MCLeaders("h1", "h2", "h1"), ring |-> MCRingA],
                 [leader |-> MCLeaders("h2", "h2", "h1"), ring |-> MCRingB] >>

MCProc == {[multiPart |-> FALSE, parameter |-> 0]}
MCKey == {[kind |-> "hashed", hash |-> 0], [kind |-> "hashed", hash |-> 3],
          [kind |-> "null", hash |-> 0], [kind |-> "other", hash |-> 0]}
MCHost == {"h1", "h2"}
=============================================================================
