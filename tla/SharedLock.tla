------------------------------ MODULE SharedLock ------------------------------
(***************************************************************************)
(* What a reader-writer lock promises: a writer holds it alone, readers    *)
(* hold it together.                                                       *)
(***************************************************************************)
CONSTANTS Writers, Readers

VARIABLES writing, reading   (* the threads that hold it in either mode *)

Init == writing = {} /\ reading = {}

AcquireExclusive(t) ==
  /\ writing = {} /\ reading = {}
  /\ writing' = {t} /\ UNCHANGED reading

AcquireShared(t) ==
  /\ writing = {}
  /\ reading' = reading \cup {t} /\ UNCHANGED writing

ReleaseExclusive(t) ==
  /\ t \in writing
  /\ writing' = writing \ {t} /\ UNCHANGED reading

ReleaseShared(t) ==
  /\ t \in reading
  /\ reading' = reading \ {t} /\ UNCHANGED writing

Next ==
  \/ \E t \in Writers : AcquireExclusive(t) \/ ReleaseExclusive(t)
  \/ \E t \in Readers : AcquireShared(t) \/ ReleaseShared(t)

Spec == Init /\ [][Next]_<<writing, reading>>
=============================================================================
