-------------------------- MODULE MCChallengeRaces --------------------------
(* PvpChallenge with the steps of two kinds of behaviour.  Mutual: two     *)
(* players make and leave challenges, none after one that was declined     *)
(* (as after one cancelled, but for the wait); no request fails.  Accept:  *)
(* everything that can happen to the first challenge, one of Owner's, also *)
(* of a synthetic rival, with a failed request.                            *)
EXTENDS PvpChallenge, TLC

Symmetry == Permutations(Workers) \cup Permutations(Ids)

Mutual ==
  /\ crashes' = 0 /\ \A id \in Ids : challenge'[id].status # "declined"
  /\ \A w \in Workers : pc'[w] \in {"idle", "leave"} \cup CreateLabels /\ req'[w].rival \notin Bots

Accept ==
  /\ Cardinality({id \in Ids : challenge'[id].status # "none"}) <= 1
  /\ \A id \in Ids : challenge'[id].status # "none" => challenge'[id].challenger = Owner
  /\ \A w \in Workers : pc'[w] \in CreateLabels => req'[w].who = Owner

Races == Mutual \/ Accept
=============================================================================
