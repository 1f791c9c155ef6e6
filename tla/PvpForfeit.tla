----------------------------- MODULE PvpForfeit -----------------------------
(***************************************************************************)
(* PvpMatch with two history variables, for what a forfeit by disconnect   *)
(* may be based on.  They record and never restrict; only slow requests    *)
(* are left out, so that a violation does not depend on them.              *)
(***************************************************************************)
EXTENDS PvpMatch

VARIABLES
  since,      \* when each player's current spell of presence began
  verdict     \* what was true when the forfeit was recorded

forfeitVars == <<vars, since, verdict>>

NoVerdict == [waited |-> 0, absentFor |-> 0, loserPresent |-> FALSE]

\* A player seen again after more than the reconnecting window starts a new
\* spell of presence.
SinceUpdate ==
  since' = [c \in Color |->
              IF seen'[c] # seen[c] /\ ~RecentlyPresent(seen[c], seen'[c]) THEN seen'[c] ELSE since[c]]

VerdictUpdate ==
  verdict' = IF doc.endReason # "disconnect" /\ doc'.endReason = "disconnect"
               THEN LET winner == IF doc'.result = WinFor("w") THEN "w" ELSE "b"
                    IN [waited       |-> now - since[winner],
                        absentFor    |-> now - seen[Other(winner)],
                        loserPresent |-> RecentlyPresent(seen[Other(winner)], now)]
               ELSE verdict

ForfeitInit == Init /\ since = [c \in Color |-> NoTime] /\ verdict = NoVerdict

\* Requests are answered at once, on the scale of seconds that presence is
\* measured in: time passes only between requests.
Prompt == now' # now => \A w \in Workers : pc[w] = "idle"

ForfeitNext == Next /\ Prompt /\ SinceUpdate /\ VerdictUpdate

ForfeitSpec == ForfeitInit /\ [][ForfeitNext]_forfeitVars

-----------------------------------------------------------------------------
\* A win by disconnect goes to a player who has been present for a whole grace
\* period: a claim from before the claimant's own absence is restarted when
\* the claimant returns, it is never cashed in at once.
NoInstantWin == doc.endReason = "disconnect" => verdict.waited >= GracePeriod

\* Apart from a return in the very last round trip, nobody forfeits before a
\* whole grace period has passed since they were last seen: no grace mark from
\* an earlier absence survives a return.
GraceIsServed ==
  doc.endReason = "disconnect" => verdict.loserPresent \/ verdict.absentFor >= GracePeriod

=============================================================================
