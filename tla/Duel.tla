-------------------------------- MODULE Duel --------------------------------
(***************************************************************************)
(* What a PvP duel promises: an atomic state machine over the authority's  *)
(* view of one match, without revisions, retries, presence or clocks.      *)
(* PvpMatch implements it.                                                 *)
(***************************************************************************)
EXTENDS Naturals

VARIABLES
  status,    \* starting, active, cancelled or finished
  ready,     \* the sides that have confirmed
  plies,     \* number of moves played
  result

duel == <<status, ready, plies, result>>

Sides == {"w", "b"}
Decided == {"1-0", "0-1", "1/2-1/2"}

Init ==
  /\ status = "starting"
  /\ ready = {}
  /\ plies = 0
  /\ result = "none"

\* A side confirms; the duel waits for the other.
Confirm(c) ==
  /\ status = "starting"
  /\ ready' = ready \cup {c}
  /\ UNCHANGED <<status, plies, result>>

\* The second confirmation starts the duel.
Activate ==
  /\ status = "starting"
  /\ \E c \in Sides : Sides \ {c} \subseteq ready
  /\ ready' = Sides
  /\ status' = "active"
  /\ UNCHANGED <<plies, result>>

\* Cancelled by a player or by the handoff deadline.
Cancel ==
  /\ status = "starting"
  /\ status' = "cancelled"
  /\ UNCHANGED <<ready, plies, result>>

\* One move, which may end the game on the board.
Play ==
  /\ status = "active"
  /\ plies' = plies + 1
  /\ \/ status' = "active" /\ UNCHANGED result
     \/ status' = "finished" /\ result' \in Decided
  /\ UNCHANGED ready

\* Resignation, flag fall or forfeit.
Decide ==
  /\ status = "active"
  /\ status' = "finished"
  /\ result' \in {"1-0", "0-1"}
  /\ UNCHANGED <<ready, plies>>

Next == (\E c \in Sides : Confirm(c)) \/ Activate \/ Cancel \/ Play \/ Decide

Spec == Init /\ [][Next]_duel

=============================================================================
