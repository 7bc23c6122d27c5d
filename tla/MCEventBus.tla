------------------------------ MODULE MCEventBus ------------------------------
(* EventBus for TLC: a flow on each of two partitions; a rebalance that moves  *)
(* both and one for each of them.                                              *)
EXTENDS EventBus

CONSTANTS p1, p2, f1, r1, r2

MCPartitionFor == [f \in Flows |-> IF f = f1 THEN p1 ELSE p2]
MCPlan == [r \in Rebalances |-> IF r = r1 THEN <<p1, p2>> ELSE IF r = r2 THEN <<p1>> ELSE <<p2>>]
=============================================================================
