---------------------------- MODULE MCSessionPool ----------------------------
(* A pool of one or two sessions; see the MCSessionPool*.cfg. *)
EXTENDS SessionPool, TLC

CONSTANTS s1, s2

OneSession == <<s1>>
TwoSessions == <<s1, s2>>

(* No formula names an I/O thread: sound for the runs without liveness. *)
ThreadSymmetry == Permutations(IoThreads)

NoFailures == {}

(* Sends fail and are cut short. *)
SendTrouble == {"WSASend", "sendCompletion"}

(* Everything but what loses the claim on the issue reference, or leaves a *)
(* connected session without a receive.                                    *)
LeakFree == FailableCalls \ {"DisconnectEx", "acceptCompletion", "firstWSARecv"}

AnyFailure == FailableCalls
=============================================================================
