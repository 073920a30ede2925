---------------------------- MODULE SerialExecuter ----------------------------
(***************************************************************************)
(* What the GrandCentralExecuter promises to those who dispatch tasks: the *)
(* tasks are run one at a time, in the order in which they were submitted, *)
(* each of them once.                                                      *)
(***************************************************************************)
EXTENDS Sequences

CONSTANT Tasks

VARIABLES waiting,   (* tasks submitted, the next one to run first *)
          running,   (* the task being run, if any                 *)
          finished   (* tasks that have run, in that order         *)

Init == waiting = <<>> /\ running = {} /\ finished = <<>>

Submit(x) == /\ waiting' = Append(waiting, x)
             /\ UNCHANGED <<running, finished>>

Start == /\ waiting # <<>> /\ running = {}
         /\ running' = {Head(waiting)} /\ waiting' = Tail(waiting)
         /\ UNCHANGED finished

Finish(x) == /\ x \in running
             /\ running' = running \ {x} /\ finished' = Append(finished, x)
             /\ UNCHANGED waiting

Next == Start \/ \E x \in Tasks : Submit(x) \/ Finish(x)

Spec == Init /\ [][Next]_<<waiting, running, finished>>
=============================================================================
