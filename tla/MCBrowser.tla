------------------------------ MODULE MCBrowser ------------------------------
(* The components of the browser client that share no state, in one model: *)
(* a behaviour exercises one of them and leaves the others as they start.  *)
EXTENDS GameSession, GameLaunch, ProfileSync, PvpPlayer

VARIABLE part   \* the component this behaviour is about

\* Two moves to choose from, then one, then the game is over.
MCLegalMoves(n) ==
  CASE n = 0 -> {"e4", "d4"} [] n \in {1, 2} -> {"e4"} [] OTHER -> {}

MCBudgets == {[keys |-> 3, reqs |-> 2, breaks |-> 0],
              [keys |-> 2, reqs |-> 2, breaks |-> 1],
              [keys |-> 2, reqs |-> 1, breaks |-> 2]}

\* A move, its retry, and an undo by another device.
MCRetried == {[keys |-> 2, reqs |-> 2, breaks |-> 0]}

MCDraws(s) == IF s = "random" THEN {"w", "b"} ELSE {"w"}

MCLimits == {[edits |-> 3, pushes |-> 2, reqs |-> 4, reloads |-> 0, logins |-> 0],
             [edits |-> 2, pushes |-> 2, reqs |-> 2, reloads |-> 1, logins |-> 1]}

\* Another device of one account that nobody leaves.
MCTwoDevices == {[edits |-> 2, pushes |-> 2, reqs |-> 2, reloads |-> 0, logins |-> 0]}

Init ==
  /\ part \in {"game", "launch", "profile", "player"}
  /\ GameInit /\ (part # "game" => budget = CHOOSE b \in Budgets : TRUE)
  /\ LaunchInit
  /\ ProfileInit /\ (part # "profile" => limit = CHOOSE l \in Limits : TRUE)
  /\ PlayerInit

Next ==
  /\ \/ part = "game" /\ GameNext /\ UNCHANGED <<launchVars, profileVars, playerVars>>
     \/ part = "launch" /\ LaunchNext /\ UNCHANGED <<gameVars, profileVars, playerVars>>
     \/ part = "profile" /\ ProfileNext /\ UNCHANGED <<gameVars, launchVars, playerVars>>
     \/ part = "player" /\ PlayerNext /\ UNCHANGED <<gameVars, launchVars, profileVars>>
  /\ UNCHANGED part

Spec == Init /\ [][Next]_<<part, gameVars, launchVars, profileVars, playerVars>>
=============================================================================
