-------------------------- MODULE MCSessionWrites --------------------------
(* SessionWrites for TLC: kinds of request per run, and two answers, of     *)
(* which one earns a point.                                                 *)
EXTENDS SessionWrites, TLC

CONSTANTS r1, r2, r3, q1, q2

MCValue == {"right", "wrong"}

MCGrade == [q \in Question |-> [v \in MCValue |-> IF v = "right" THEN 1 ELSE 0]]

(* Writers and submits that check the session under the lock, and the Go    *)
(* force submit, which takes the lock but does not look again.              *)
LockedKinds == FreshWriters \cup LockedSubmits \cup {"goForce"}

(* One writer and one submit per way of writing, with each finaliser. *)
LooseKinds == FreshWriters \cup LockedSubmits \cup LooseFinalizers

StaleKinds == {"single"} \cup LockedSubmits \cup StaleWriters

BatchAndSubmit == {"batch", "submit"}

Requests == Permutations({r1, r2, r3})

=============================================================================
