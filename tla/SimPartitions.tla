--------------------------- MODULE SimPartitions ----------------------------
(***************************************************************************)
(* The partitions of SimulatedNetwork (r30rg-sim/src/network.rs): the set  *)
(* of ordered pairs of nodes between which a send is dropped.              *)
(***************************************************************************)

VARIABLE partitions

\* Both directions between the members of two groups.
Cross(A, B) == (A \X B) \cup (B \X A)

PartitionLinks(A, B) == partitions' = partitions \cup Cross(A, B)

HealLinks(A, B) == partitions' = partitions \ Cross(A, B)

HealAll == partitions' = {}

IsPartitioned(a, b) == <<a, b>> \in partitions

=============================================================================
