---------------------------- MODULE SealedBoard -----------------------------
(***************************************************************************)
(* What family sharing promises (docs/PLAN-family.md, the comments of      *)
(* user/family.go): a board with at most one sealed copy for each owner    *)
(* and viewer.  Every step is one indivisible act of one member; how the   *)
(* server comes to take it is module Family.                               *)
(***************************************************************************)
EXTENDS Integers

CONSTANTS
  Member,  \* whoever may ever join
  Key,     \* identity keys
  NoKey    \* none yet, not in Key

VARIABLES
  key,     \* member -> its identity key, NoKey before it has posted one
  paused,  \* the members who have paused sharing
  board    \* <<owner, viewer>> -> time of the sealed copy

vars == <<key, paused, board>>

Init ==
  /\ key = [m \in {} |-> NoKey]
  /\ paused = {}
  /\ board = [c \in {} |-> 0]

Joined == DOMAIN key
Without(copies) == board' = [c \in DOMAIN board \ copies |-> board[c]]

Join(m) ==
  /\ m \notin Joined
  /\ key' = [n \in Joined \cup {m} |-> IF n = m THEN NoKey ELSE key[n]]
  /\ UNCHANGED <<paused, board>>

(* A key is chosen once.                                                   *)
SetKey(m) ==
  /\ key[m] = NoKey
  /\ \E k \in Key : key' = [key EXCEPT ![m] = k]
  /\ UNCHANGED <<paused, board>>

Pause(m) ==
  /\ paused' = paused \cup {m}
  /\ Without({c \in DOMAIN board : c[1] = m})
  /\ UNCHANGED key

Resume(m) ==
  /\ paused' = paused \ {m}
  /\ UNCHANGED <<key, board>>

(* The owner adds, renews and withdraws copies of its own, for other       *)
(* members; a copy is never replaced by an older one.                      *)
Share(m) ==
  /\ m \notin paused /\ key[m] # NoKey
  /\ \A c \in DOMAIN board : c[1] # m => c \in DOMAIN board'
  /\ \A c \in DOMAIN board' :
       /\ c[1] # m => c \in DOMAIN board /\ board'[c] = board[c]
       /\ c[1] = m => c[2] \in Joined \ {m}
       /\ c \in DOMAIN board => board'[c] >= board[c]
  /\ UNCHANGED <<key, paused>>

(* Whoever leaves takes along its key, the copies it made, and the copies  *)
(* made for it.                                                            *)
Leave(m) ==
  /\ key' = [n \in Joined \ {m} |-> key[n]]
  /\ paused' = paused \ {m}
  /\ Without({c \in DOMAIN board : m \in {c[1], c[2]}})

Next ==
  \/ \E m \in Member : Join(m)
  \/ \E m \in Joined : SetKey(m) \/ Pause(m) \/ Resume(m) \/ Share(m) \/ Leave(m)

Spec == Init /\ [][Next]_vars
=============================================================================
