--------------------------- MODULE ReviewedWrites ---------------------------
(***************************************************************************)
(* What a desk promises about the writes of a case, whichever adapter it    *)
(* works with (src/recallops/ui/adapter.py): one action at a time, worded   *)
(* for review, approved as worded, confirmed once more and written once.    *)
(* A case a human declined stays declined.                                  *)
(***************************************************************************)
CONSTANTS Actions, Wordings

VARIABLES
  phase,      \* of the action before the human
  action, wording,
  written     \* the actions written so far

reviewVars == <<phase, action, wording, written>>

Phases == {"fresh", "review", "confirmed", "over"}

Init == phase = "fresh" /\ written = {}

\* A new action is put before the human, or there is none left.
Offer(done) ==
  \/ phase' = "review" /\ action' \in Actions \ done /\ wording' \in Wordings
  \/ phase' = "over"

Propose == phase = "fresh" /\ Offer({}) /\ UNCHANGED written

Reword == phase = "review" /\ wording' \in Wordings /\ UNCHANGED <<phase, action, written>>

Approve ==
  /\ phase = "review" /\ phase' = "confirmed"
  /\ UNCHANGED <<action, wording, written>>

Decline == phase \in {"review", "confirmed"} /\ phase' = "over" /\ UNCHANGED written

Write ==
  /\ phase = "confirmed"
  /\ written' = written \cup {action}
  /\ Offer(written')

Next == Propose \/ Reword \/ Approve \/ Decline \/ Write

Spec == Init /\ [][Next]_reviewVars
=============================================================================
