-------------------------- MODULE MCUserRepository --------------------------
(* Instances of UserRepository small enough for TLC. *)
EXTENDS UserRepository, TLC

CONSTANTS r1, r2, r3, p1, p2

Slots == Permutations(Request)
SlotsAndPasswords == Permutations(Request) \cup Permutations({p1, p2})

(* The requests of the runs: of every kind.                                *)
EveryOp == AllOps
=============================================================================
