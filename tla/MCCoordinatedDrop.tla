------------------------- MODULE MCCoordinatedDrop -------------------------
(* Instances of CoordinatedDrop for TLC. *)
EXTENDS CoordinatedDrop

CONSTANTS i0, i1

Mesh(peers, requests, inputs) == [peers |-> peers, requests |-> requests, stream |-> inputs]

\* Two survivors drop player 3, both may ask, while its inputs still arrive.
TwoSurvivors == Mesh({1, 2, 3}, {<<1, 3>>, <<2, 3>>}, [t \in {3} |-> <<i1, i0, i1>>])
\* Peer 1 drops player 3, which drops player 2 at the same time.
CrossedDrops == Mesh({1, 2, 3}, {<<1, 3>>, <<3, 2>>}, [t \in {2, 3} |-> <<i1>>])
\* Three survivors, which relay to each other.
ThreeSurvivors == Mesh({1, 2, 3, 4}, {<<1, 4>>}, [t \in {4} |-> <<i1>>])
\* Two survivors, with an input more to confirm and discard.
LongerStream == Mesh({1, 2, 3}, {<<1, 3>>, <<2, 3>>}, [t \in {3} |-> <<i1, i0, i1, i1>>])

MCScenarios == {TwoSurvivors, CrossedDrops, ThreeSurvivors}
MCTwoSurvivors == {TwoSurvivors}
MCOvertaken == {LongerStream}
=============================================================================
