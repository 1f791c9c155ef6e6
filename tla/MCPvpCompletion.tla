-------------------------- MODULE MCPvpCompletion --------------------------
(* The two protocols of the service that a crash may leave half done and   *)
(* that a later request completes: the settlement of a rated duel and the  *)
(* acceptance of a challenge.  They share no variable; a behaviour         *)
(* exercises one of them and leaves the other as it starts.                *)
EXTENDS MCPvpRating

CONSTANT c1

VARIABLES part, lastSeen, challenge, match, now, crashes, step, asked, at

sagaVars == <<lastSeen, challenge, match, now, crashes, step, asked, at>>

Saga == INSTANCE PvpChallenge WITH
  Bots <- {}, Owner <- alice, Ids <- {c1}, Kinds <- {"accept"},
  RosterTTL <- 1, ChallengeTTL <- 0, ChallengeCooldown <- 1, MaxTime <- 1, MaxCrashes <- 1,
  pc <- step, req <- asked

\* The state in which alice's POST /challenges leaves the store.
Challenged ==
  /\ lastSeen = [p \in Players |-> 0]
  /\ challenge = [id \in {c1} |-> [status |-> "pending", challenger |-> alice, opponent |-> bob,
                                   createdAt |-> 0, cooldownUntil |-> Saga!NoTime]]
  /\ match = [id \in {c1} |-> "none"]
  /\ now = 0 /\ crashes = 0
  /\ step = [w \in Workers |-> "idle"]
  /\ asked = [w \in Workers |-> Saga!NoReq]
  /\ at = [w \in Workers |-> 0]

InitEither ==
  /\ part \in {"settlement", "acceptance"}
  /\ Init /\ (part = "acceptance" => \A p \in Players : users[p].rating = NoRating)
  /\ Challenged

NextEither ==
  /\ \/ part = "settlement" /\ Next /\ UNCHANGED sagaVars
     \/ part = "acceptance" /\ Saga!Next /\ UNCHANGED vars
  /\ UNCHANGED part

\* Either fairness speaks of a finished duel and of requests in progress, and
\* there are none in the part that stands still.
SpecEither ==
  InitEither /\ [][NextEither]_<<part, vars, sagaVars>> /\ Fairness /\ Saga!Fairness

RetriedIsCompleted == Saga!RetriedIsCompleted
=============================================================================
