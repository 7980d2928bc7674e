------------------------- MODULE MCConsumerPrograms -------------------------
(* An instance of ConsumerPrograms for TLC: a fast and a slow identifier on *)
(* the bus, two clients of the page server, batches of one or two records. *)
EXTENDS ConsumerPrograms

CONSTANTS fast, slow

MCPeriod == [x \in {fast, slow} |-> IF x = fast THEN 1 ELSE 3]

MCBatches == {<<k>> : k \in Kinds} \cup (Kinds \X Kinds)
=============================================================================
