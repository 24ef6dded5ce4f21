------------------------------ MODULE Mailbox ------------------------------
(***************************************************************************)
(* What the one pending command of API v1 promises, without requests and   *)
(* rows: a mailbox with room for one message.  A newer message replaces    *)
(* one that has not been taken, and a message that is taken is gone from   *)
(* the box, so that nobody gets it twice, unless a change of the box was   *)
(* refused by what it is kept in, of which nobody is told.                 *)
(***************************************************************************)
EXTENDS Naturals

CONSTANTS Message, Nothing

VARIABLES
  box,      \* the message that waits, or Nothing
  taken,    \* the messages that have been taken out
  refusals  \* how many changes of the box have been refused

box_vars == <<box, taken, refusals>>

Init == box = Nothing /\ taken = {} /\ refusals = 0

Put ==
  /\ box' \in Message \ (taken \cup {box})
  /\ UNCHANGED <<taken, refusals>>

Take ==
  /\ box \in Message
  /\ box \in taken => refusals > 0
  /\ box' = Nothing /\ taken' = taken \cup {box}
  /\ UNCHANGED refusals

(* A message is not put in, or is handed out and stays.                    *)
Refused ==
  /\ refusals' = refusals + 1
  /\ taken' \in {taken, taken \cup ({box} \cap Message)}
  /\ UNCHANGED box

Next == Put \/ Take \/ Refused

Spec == Init /\ [][Next]_box_vars
=============================================================================
