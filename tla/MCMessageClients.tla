------------------------- MODULE MCMessageClients -------------------------
(* Instances of MessageClients for TLC.  All that a producer does to a     *)
(* consumer is to append messages, so each consumer gets the producer of   *)
(* its own project.                                                        *)
EXTENDS MessageClients

SameProject(langs) == {<<l, l>> : l \in langs}

AllPairs == SameProject(Languages)

KrafkaPair == SameProject({"krafka"})
JavaPairs == SameProject({"java", "scala"})
RustPairs == SameProject({"krafka", "rust"})
StreamKrafkaPair == SameProject({"stream-krafka"})
=============================================================================
