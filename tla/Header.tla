------------------------------- MODULE Header -------------------------------
(***************************************************************************)
(* header.v: the capacities every module of the CPU includes.              *)
(***************************************************************************)
EXTENDS Rv32

CONSTANTS ROB_CAPACITY, LSB_CAPACITY, RS_CAPACITY, BP_CAPACITY, ICACHE_CAPACITY

ASSUME CapacityAssumption ==
  /\ ROB_CAPACITY \in Nat /\ ROB_CAPACITY >= 3
  /\ LSB_CAPACITY \in Nat /\ LSB_CAPACITY >= 2
  /\ RS_CAPACITY \in Nat \ {0}
  /\ BP_CAPACITY \in Nat \ {0}
  /\ ICACHE_CAPACITY \in Nat \ {0}

NULL_TAG == 0

RobTag   == 1 .. ROB_CAPACITY - 1     \* index 0 of the buffer is never used
LsbIndex == 0 .. LSB_CAPACITY - 1
RsIndex  == 0 .. RS_CAPACITY - 1
=============================================================================
