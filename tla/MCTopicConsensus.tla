-------------------------- MODULE MCTopicConsensus --------------------------
(***************************************************************************)
(* Instances of TopicConsensus for TLC: who creates which topic, and whose *)
(* pattern matches which.  Topics 1 and 8 collide under the modulus 7, and *)
(* topic 9 collides with either once it was evicted.                       *)
(***************************************************************************)
EXTENDS TopicConsensus

CONSTANTS NodeA, NodeB, NodeC

\* One topic on each of two nodes.
OneEach == {<<NodeA, 1>>, <<NodeB, 8>>}

\* Topics 1 and 8 live on different nodes and 9 on both: the loser of 1 and 8
\* evicts topic 9 on its own node only, and the two have to agree again.
Crossed == {<<NodeA, 1>>, <<NodeA, 9>>, <<NodeB, 9>>, <<NodeB, 8>>}

\* Everything everywhere.
Everywhere == Nodes \X Topics

Nowhere == {}

\* The pattern of NodeC matches topic 1.
PatternOfC == {<<NodeC, 1>>}
=============================================================================
