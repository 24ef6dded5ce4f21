----------------------------- MODULE MCCommands -----------------------------
(* A small instance of Commands for TLC.  It ends where the first outdated *)
(* copy is written back: nothing is claimed of what comes after.           *)
EXTENDS Commands, TLC

CONSTANTS r1, r2, ntfy, fcm

Slots == Permutations({r1, r2})

UndisturbedSpec == Init /\ [][~stale /\ Next]_vars
=============================================================================
