------------------------------ MODULE Agreement ------------------------------
(***************************************************************************)
(* What challenges promise: two players agree on a duel, and only then     *)
(* play it.  Each step is atomic; requests, the roster, the staging of a   *)
(* match, clocks and failures are left out.  PvpChallenge implements it.   *)
(***************************************************************************)
CONSTANTS Players, Ids

VARIABLES
  stage,     \* of each agreement: none, offered, withdrawn, agreed, playing or over
  pair       \* the two players it is between

agreements == <<stage, pair>>

Init ==
  /\ stage = [id \in Ids |-> "none"]
  /\ pair = [id \in Ids |-> {}]

Move(id, from, to) == stage[id] = from /\ stage' = [stage EXCEPT ![id] = to]

\* One player challenges another, when nothing is offered between them.
Offer(id) ==
  /\ Move(id, "none", "offered")
  /\ \E p, q \in Players :
       /\ p # q
       /\ \A other \in Ids : stage[other] = "offered" => pair[other] # {p, q}
       /\ pair' = [pair EXCEPT ![id] = {p, q}]

\* Declined, cancelled, expired, or ended by a player who leaves.
Withdraw ==
  /\ \E ids \in SUBSET {id \in Ids : stage[id] = "offered"} :
       stage' = [id \in Ids |-> IF id \in ids THEN "withdrawn" ELSE stage[id]]
  /\ UNCHANGED pair

Agree(id) == Move(id, "offered", "agreed") /\ UNCHANGED pair

Begin(id) == Move(id, "agreed", "playing") /\ UNCHANGED pair

\* The duel is over, which it may be before it begins.
Finish(id) == (Move(id, "agreed", "over") \/ Move(id, "playing", "over")) /\ UNCHANGED pair

Next == Withdraw \/ \E id \in Ids : Offer(id) \/ Agree(id) \/ Begin(id) \/ Finish(id)

Spec == Init /\ [][Next]_agreements
=============================================================================
