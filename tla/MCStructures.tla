----------------------------- MODULE MCStructures -----------------------------
(***************************************************************************)
(* The data structures the servers are built on, which do not meet: the    *)
(* session's buffer and the client's, the two allocators and the log ring  *)
(* of the crash report.  A behaviour is one of one of them.                *)
(***************************************************************************)
EXTENDS CircularBuffer, ClientBuffer, ObjectPool, MemoryPool, CrashReport

VARIABLE part

ASSUME SizesAssumption ==
  PoolAssumption /\ RingAssumption /\ RequestsAssumption /\ LogAssumption

StructuresInit ==
  /\ part \in {"buffer", "ring", "objects", "memory", "crash"}
  /\ Init /\ (part # "buffer" => buf.mem = [i \in 0 .. Capacity - 1 |-> Zero])
  /\ RingInit /\ (part # "ring" => m_Data = [c \in Cells |-> Zero])
  /\ PoolInit /\ MemoryInit /\ LogInit

StructuresNext ==
  \/ /\ part = "buffer" /\ Next
     /\ UNCHANGED <<part, ringVars, poolVars, memoryVars, logVars>>
  \/ /\ part = "ring" /\ RingNext
     /\ UNCHANGED <<part, buf, poolVars, memoryVars, logVars>>
  \/ /\ part = "objects" /\ PoolNext
     /\ UNCHANGED <<part, buf, ringVars, memoryVars, logVars>>
  \/ /\ part = "memory" /\ MemoryNext
     /\ UNCHANGED <<part, buf, ringVars, poolVars, logVars>>
  \/ /\ part = "crash" /\ LogNext
     /\ UNCHANGED <<part, buf, ringVars, poolVars, memoryVars>>

StructuresSpec ==
  /\ StructuresInit
  /\ [][StructuresNext]_<<part, buf, ringVars, poolVars, memoryVars, logVars>>
  /\ LogFairness
=============================================================================
