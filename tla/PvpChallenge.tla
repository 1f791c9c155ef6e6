---------------------------- MODULE PvpChallenge ----------------------------
(***************************************************************************)
(* From the roster to a duel: availability, challenges, and the acceptance *)
(* saga that turns a challenge into a match without a transaction          *)
(* (backend-go/internal/challengecreate, challengeaccept and the stores    *)
(* and handlers of pulse).                                                 *)
(*                                                                         *)
(* Creating and accepting are sequences of Mongo operations, one action    *)
(* each, run by concurrent requests.  Cancel, decline, join and the lobby  *)
(* read change one collection with one operation.                          *)
(*                                                                         *)
(* The match of a challenge has the challenge's id.  Who plays White is a  *)
(* coin toss that nothing here depends on; what happens in the match is    *)
(* PvpMatch.                                                               *)
(***************************************************************************)
EXTENDS Integers, FiniteSets

CONSTANTS
  Players,
  Bots, Owner,         \* synthetic rivals, and the account they are for
  Ids,                 \* bound on the challenges made
  Workers,             \* concurrent requests
  Kinds,               \* which of create, accept and leave the clients send
  RosterTTL, ChallengeTTL, ChallengeCooldown,
  MaxTime,             \* bound on the clock
  MaxCrashes           \* bound on failed requests

ASSUME ChallengeAssumption ==
  /\ Bots \subseteq Players /\ Owner \in Players \ Bots
  /\ Kinds \subseteq {"create", "accept", "leave"}
  /\ {RosterTTL, ChallengeTTL, ChallengeCooldown, MaxTime, MaxCrashes} \subseteq Nat
  /\ "none" \notin Players \cup Ids

Humans == Players \ Bots
NoTime == -1

VARIABLES
  lastSeen,            \* pvp_roster: last_seen, NoTime when there is no row
  challenge,           \* pvp_challenges
  match,               \* pvp_matches: none, staged, void (staged and cancelled),
                       \* live (starting or active) or over
  now, crashes,
  pc, req,             \* per request: next operation; who asks, of whom, about what
  at                   \* ... the instant it works with

store == <<lastSeen, challenge, match>>
vars == <<store, now, crashes, pc, req, at>>

-----------------------------------------------------------------------------
NoChallenge == [status |-> "none", challenger |-> "none", opponent |-> "none",
                createdAt |-> NoTime, cooldownUntil |-> NoTime]
NoReq == [who |-> "none", rival |-> "none", id |-> "none"]

\* Mutant: the key of a pair depends on who challenges whom.
SamePair_Directed(id, p, q) == challenge[id].challenger = p /\ challenge[id].opponent = q

\* challengePairKey: the pair, whoever challenged.
SamePair(id, p, q) == {challenge[id].challenger, challenge[id].opponent} = {p, q}

Plays(p, id) == p \in {challenge[id].challenger, challenge[id].opponent}

Pending(id) == challenge[id].status = "pending"

\* Not older than the TTL at the instant t.
Fresh(id, t) == challenge[id].createdAt >= t - ChallengeTTL

HasActiveMatch(p) == \E id \in Ids : match[id] = "live" /\ Plays(p, id)

IsRosterMember(p, t) == lastSeen[p] # NoTime /\ lastSeen[p] >= t - RosterTTL

CoolingDown(p, q, t) == \E id \in Ids : SamePair(id, p, q) /\ challenge[id].cooldownUntil > t

Init ==
  /\ lastSeen = [p \in Players |-> NoTime]
  /\ challenge = [id \in Ids |-> NoChallenge]
  /\ match = [id \in Ids |-> "none"]
  /\ now = 0 /\ crashes = 0
  /\ pc = [w \in Workers |-> "idle"]
  /\ req = [w \in Workers |-> NoReq]
  /\ at = [w \in Workers |-> 0]

Goto(w, label) == pc' = [pc EXCEPT ![w] = label] /\ UNCHANGED <<req, at>>

Return(w) ==
  /\ pc' = [pc EXCEPT ![w] = "idle"]
  /\ req' = [req EXCEPT ![w] = NoReq]
  /\ at' = [at EXCEPT ![w] = 0]

Tick ==
  /\ now < MaxTime
  /\ now' = now + 1
  /\ UNCHANGED <<store, crashes, pc, req, at>>

-----------------------------------------------------------------------------
(* Handlers of one operation.                                              *)

Upsert(names, t) == lastSeen' = [p \in Players |-> IF p \in names THEN t ELSE lastSeen[p]]

\* POST /roster, a heartbeat; the owner's keeps the synthetic rivals listed.
JoinRoster(p) ==
  /\ Upsert(IF p = Owner THEN {p} \cup Bots ELSE {p}, now)
  /\ UNCHANGED <<challenge, match, now, crashes, pc, req, at>>

\* Mutant: leaving also cancels what was resolved already.
LeaveChallenges_All(p) ==
  challenge' = [id \in Ids |-> IF Plays(p, id) THEN [challenge[id] EXCEPT !.status = "cancelled"]
                                               ELSE challenge[id]]

\* The second operation of LeaveRoster.  It sets no cooldown.
LeaveChallenges(p) ==
  challenge' = [id \in Ids |-> IF Pending(id) /\ Plays(p, id)
                                 THEN [challenge[id] EXCEPT !.status = "cancelled"]
                                 ELSE challenge[id]]

Resolve(id, status) ==
  /\ challenge' = [challenge EXCEPT ![id].status = status,
                                    ![id].cooldownUntil = now + ChallengeCooldown]
  /\ UNCHANGED <<lastSeen, match, now, crashes, pc, req, at>>

\* POST /challenges/{id}/cancel: by the challenger, while it has not expired.
CancelChallenge(id) == Pending(id) /\ Fresh(id, now) /\ Resolve(id, "cancelled")

\* POST /challenges/{id}/decline: by the opponent, expired or not.
DeclineChallenge(id) == Pending(id) /\ Resolve(id, "declined")

\* GET /lobby marks the expired challenges.
LobbyChallenges ==
  /\ challenge' = [id \in Ids |-> IF Pending(id) /\ ~Fresh(id, now)
                                    THEN [challenge[id] EXCEPT !.status = "expired"]
                                    ELSE challenge[id]]
  /\ challenge' # challenge
  /\ UNCHANGED <<lastSeen, match, now, crashes, pc, req, at>>

\* A match ends or its handoff is cancelled (PvpMatch).
MatchOver(id) ==
  /\ match[id] = "live"
  /\ match' = [match EXCEPT ![id] = "over"]
  /\ UNCHANGED <<lastSeen, challenge, now, crashes, pc, req, at>>

\* POST /matches/{id}/handoff/cancel is the one handler of a match that does
\* not overlook a staged one.
CancelStaged(id) ==
  /\ match[id] = "staged"
  /\ match' = [match EXCEPT ![id] = "void"]
  /\ UNCHANGED <<lastSeen, challenge, now, crashes, pc, req, at>>

-----------------------------------------------------------------------------
(* DELETE /roster, and the same cleanup when a match becomes active.       *)

StartLeave(w) ==
  /\ "leave" \in Kinds /\ pc[w] = "idle"
  /\ \E p \in Players :
       /\ p \in Humans \/ HasActiveMatch(p)
       /\ lastSeen' = [lastSeen EXCEPT ![p] = NoTime]
       /\ req' = [req EXCEPT ![w] = [NoReq EXCEPT !.who = p]]
  /\ pc' = [pc EXCEPT ![w] = "leave"]
  /\ UNCHANGED <<challenge, match, now, crashes, at>>

LeavePending(w) ==
  /\ pc[w] = "leave"
  /\ LeaveChallenges(req[w].who)
  /\ Return(w)
  /\ UNCHANGED <<lastSeen, match, now, crashes>>

-----------------------------------------------------------------------------
(* POST /challenges: Create.  Six reads, in this order, any of which ends  *)
(* the request.                                                            *)

\* Mutant: a challenge to oneself is not refused.
StartCreate_Self(w) ==
  /\ "create" \in Kinds /\ pc[w] = "idle"
  /\ \E p \in Humans, q \in Humans :
       req' = [req EXCEPT ![w] = [who |-> p, rival |-> q, id |-> "none"]]
  /\ pc' = [pc EXCEPT ![w] = "create_self"]
  /\ at' = [at EXCEPT ![w] = now]
  /\ UNCHANGED <<lastSeen, challenge, match, now, crashes>>

StartCreate(w) ==
  /\ "create" \in Kinds /\ pc[w] = "idle"
  /\ \E p \in Humans, q \in Players :
       /\ p # q /\ (q \in Bots => p = Owner)
       /\ req' = [req EXCEPT ![w] = [who |-> p, rival |-> q, id |-> "none"]]
       /\ IF q \in Bots THEN Upsert(Bots, now) ELSE UNCHANGED lastSeen
  /\ pc' = [pc EXCEPT ![w] = "create_self"]
  /\ at' = [at EXCEPT ![w] = now]
  /\ UNCHANGED <<challenge, match, now, crashes>>

CreateCheck(w, label) ==
  LET p == req[w].who  q == req[w].rival
  IN CASE label = "create_self"       -> IsRosterMember(p, at[w])
       [] label = "create_rival"      -> IsRosterMember(q, at[w])
       [] label = "create_self_busy"  -> ~HasActiveMatch(p)
       [] label = "create_rival_busy" -> ~HasActiveMatch(q)
       [] label = "create_cooldown"   -> ~CoolingDown(p, q, at[w])

AfterCheck ==
  [create_self |-> "create_rival", create_rival |-> "create_self_busy",
   create_self_busy |-> "create_rival_busy", create_rival_busy |-> "create_cooldown",
   create_cooldown |-> "create_find"]

CreateRead(w) ==
  /\ pc[w] \in DOMAIN AfterCheck
  /\ IF CreateCheck(w, pc[w]) THEN Goto(w, AfterCheck[pc[w]]) ELSE Return(w)
  /\ UNCHANGED <<store, now, crashes>>

\* The challenge is there: answer, or have the synthetic rival accept it.
Created(w, id) ==
  IF req[w].rival \in Bots
    THEN /\ pc' = [pc EXCEPT ![w] = "accept_get"]
         /\ req' = [req EXCEPT ![w] = [who |-> req[w].rival, rival |-> "none", id |-> id]]
         /\ at' = [at EXCEPT ![w] = 0]
    ELSE Return(w)

\* A pending challenge of the pair that has not expired is the answer.
CreateFind(w) ==
  /\ pc[w] = "create_find"
  /\ LET found == {id \in Ids : /\ Pending(id) /\ Fresh(id, at[w])
                                /\ {challenge[id].challenger, challenge[id].opponent}
                                     = {req[w].who, req[w].rival}}
     IN IF found # {} THEN \E id \in found : Created(w, id)
                      ELSE Goto(w, "create_insert")
  /\ UNCHANGED <<store, now, crashes>>

\* The insert, under the unique index on the pair key of pending challenges.
\* (A request that finds the bound on challenges reached ends.)
CreateInsert(w) ==
  /\ pc[w] = "create_insert"
  /\ IF \E id \in Ids : Pending(id) /\ SamePair(id, req[w].who, req[w].rival)
       THEN Goto(w, "create_winner") /\ UNCHANGED challenge
     ELSE IF \A id \in Ids : challenge[id].status # "none"
       THEN Return(w) /\ UNCHANGED challenge
       ELSE \E id \in Ids :
              /\ challenge[id].status = "none"
              /\ challenge' = [challenge EXCEPT ![id] =
                   [status |-> "pending", challenger |-> req[w].who, opponent |-> req[w].rival,
                    createdAt |-> at[w], cooldownUntil |-> NoTime]]
              /\ Created(w, id)
  /\ UNCHANGED <<lastSeen, match, now, crashes>>

\* A duplicate key: the answer is the pending challenge, even an expired one.
CreateWinner(w) ==
  /\ pc[w] = "create_winner"
  /\ LET winner == {id \in Ids : Pending(id) /\ SamePair(id, req[w].who, req[w].rival)}
     IN IF winner = {} THEN Return(w) ELSE \E id \in winner : Created(w, id)
  /\ UNCHANGED <<store, now, crashes>>

-----------------------------------------------------------------------------
(* POST /challenges/{id}/accept: Accept and CommitAcceptance.              *)

StartAccept(w, id) ==
  /\ "accept" \in Kinds /\ pc[w] = "idle"
  /\ challenge[id].opponent \in Humans
  /\ req' = [req EXCEPT ![w] = [who |-> challenge[id].opponent, rival |-> "none", id |-> id]]
  /\ pc' = [pc EXCEPT ![w] = "accept_get"]
  /\ UNCHANGED <<store, now, crashes, at>>

AcceptGet(w) ==
  /\ pc[w] = "accept_get"
  /\ LET c == challenge[req[w].id]
     IN CASE c.status = "accepted" -> Goto(w, "accept_match")
          [] c.status = "pending"  -> /\ pc' = [pc EXCEPT ![w] = "accept_rival_busy"]
                                      /\ req' = [req EXCEPT ![w].rival = c.challenger]
                                      /\ UNCHANGED at
          [] OTHER                 -> Return(w)
  /\ UNCHANGED <<store, now, crashes>>

\* Mutant: an accepted challenge is answered, found or not.
AcceptMatch_NoRecovery(w) ==
  /\ pc[w] = "accept_match"
  /\ Return(w)
  /\ UNCHANGED <<store, now, crashes>>

\* Accepted before: its match is the answer.  If there is none the saga runs
\* again, without the availability checks.
AcceptMatch(w) ==
  /\ pc[w] = "accept_match"
  /\ IF match[req[w].id] \in {"live", "over"}
       THEN Return(w)
       ELSE /\ pc' = [pc EXCEPT ![w] = "accept_insert"]
            /\ at' = [at EXCEPT ![w] = now]
            /\ UNCHANGED req
  /\ UNCHANGED <<store, now, crashes>>

AcceptBusy(w) ==
  /\ \/ /\ pc[w] = "accept_rival_busy"
        /\ IF HasActiveMatch(req[w].rival) THEN Return(w) ELSE Goto(w, "accept_self_busy")
     \/ /\ pc[w] = "accept_self_busy"
        /\ IF HasActiveMatch(req[w].who) THEN Return(w)
           ELSE /\ pc' = [pc EXCEPT ![w] = "accept_rival_listed"]
                /\ at' = [at EXCEPT ![w] = now]
                /\ UNCHANGED req
  /\ UNCHANGED <<store, now, crashes>>

AcceptListed(w) ==
  /\ \/ /\ pc[w] = "accept_rival_listed"
        /\ IF IsRosterMember(req[w].rival, at[w]) THEN Goto(w, "accept_self_listed") ELSE Return(w)
     \/ /\ pc[w] = "accept_self_listed"
        /\ IF IsRosterMember(req[w].who, at[w]) THEN Goto(w, "accept_insert") ELSE Return(w)
  /\ UNCHANGED <<store, now, crashes>>

\* The match is inserted staged, invisible to everyone else; or it is there
\* already, from this challenge, and is used.
AcceptInsert(w) ==
  /\ pc[w] = "accept_insert"
  /\ LET id == req[w].id
     IN IF match[id] = "none"
          THEN match' = [match EXCEPT ![id] = "staged"] /\ Goto(w, "accept_cas")
          ELSE UNCHANGED match /\ Goto(w, "accept_canonical")
  /\ UNCHANGED <<lastSeen, challenge, now, crashes>>

AcceptCanonical(w) ==
  /\ pc[w] = "accept_canonical"
  /\ IF match[req[w].id] = "none" THEN Return(w) ELSE Goto(w, "accept_cas")
  /\ UNCHANGED <<store, now, crashes>>

\* The point of no return: pending to accepted.
AcceptCas(w) ==
  /\ pc[w] = "accept_cas"
  /\ LET id == req[w].id
     IN IF Pending(id) /\ challenge[id].opponent = req[w].who /\ Fresh(id, at[w])
          THEN /\ challenge' = [challenge EXCEPT ![id].status = "accepted"]
               /\ Goto(w, "accept_activate")
          ELSE UNCHANGED challenge /\ Goto(w, "accept_find")
  /\ UNCHANGED <<lastSeen, match, now, crashes>>

\* Mutant: a challenge that changed meanwhile is not noticed.
AcceptFind_Unchecked(w) ==
  /\ pc[w] = "accept_find"
  /\ Goto(w, "accept_activate")
  /\ UNCHANGED <<store, now, crashes>>

AcceptFind(w) ==
  /\ pc[w] = "accept_find"
  /\ LET c == challenge[req[w].id]
     IN Goto(w, IF c.status = "accepted" /\ c.opponent = req[w].who
                  THEN "accept_activate" ELSE "accept_cleanup")
  /\ UNCHANGED <<store, now, crashes>>

\* Mutant: whatever match is there is cleaned up.
AcceptCleanup_AnyState(w) ==
  /\ pc[w] = "accept_cleanup"
  /\ match' = [match EXCEPT ![req[w].id] = "none"]
  /\ Return(w)
  /\ UNCHANGED <<lastSeen, challenge, now, crashes>>

\* Not accepted after all: the staged match goes, an active one never does.
AcceptCleanup(w) ==
  /\ pc[w] = "accept_cleanup"
  /\ match' = [match EXCEPT ![req[w].id] = IF @ \in {"staged", "void"} THEN "none" ELSE @]
  /\ Return(w)
  /\ UNCHANGED <<lastSeen, challenge, now, crashes>>

\* acceptance_state becomes active; an error when the match is gone.
AcceptActivate(w) ==
  /\ pc[w] = "accept_activate"
  /\ match' = [match EXCEPT ![req[w].id] =
                 CASE @ = "staged" -> "live" [] @ = "void" -> "over" [] OTHER -> @]
  /\ Return(w)
  /\ UNCHANGED <<lastSeen, challenge, now, crashes>>

-----------------------------------------------------------------------------
\* A store operation fails or the process dies: what is written stays.
Abort(w) ==
  /\ pc[w] # "idle"
  /\ crashes < MaxCrashes
  /\ crashes' = crashes + 1
  /\ Return(w)
  /\ UNCHANGED <<store, now>>

Step(w) ==
  \/ LeavePending(w)
  \/ CreateRead(w) \/ CreateFind(w) \/ CreateInsert(w) \/ CreateWinner(w)
  \/ AcceptGet(w) \/ AcceptMatch(w) \/ AcceptBusy(w) \/ AcceptListed(w)
  \/ AcceptInsert(w) \/ AcceptCanonical(w) \/ AcceptCas(w) \/ AcceptFind(w)
  \/ AcceptCleanup(w) \/ AcceptActivate(w)

Next ==
  \/ Tick
  \/ \E p \in Humans : JoinRoster(p)
  \/ LobbyChallenges
  \/ \E id \in Ids : CancelChallenge(id) \/ DeclineChallenge(id) \/ MatchOver(id) \/ CancelStaged(id)
  \/ \E w \in Workers :
       \/ StartLeave(w) \/ StartCreate(w) \/ Step(w) \/ Abort(w)
       \/ \E id \in Ids : StartAccept(w, id)

Spec == Init /\ [][Next]_vars

\* For liveness: a request that has begun goes on.  Nothing makes a client
\* begin one.
Fairness == \A w \in Workers : WF_vars(Step(w))

FairSpec == Spec /\ Fairness

-----------------------------------------------------------------------------
Resolved == {"accepted", "declined", "cancelled", "expired"}

CreateLabels == {"create_self", "create_rival", "create_self_busy", "create_rival_busy",
                 "create_cooldown", "create_find", "create_insert", "create_winner"}
AcceptLabels == {"accept_get", "accept_match", "accept_rival_busy", "accept_self_busy",
                 "accept_rival_listed", "accept_self_listed", "accept_insert",
                 "accept_canonical", "accept_cas", "accept_find", "accept_cleanup",
                 "accept_activate"}

ChallengeRow ==
  {c \in [status : Resolved \cup {"pending"}, challenger : Players, opponent : Players,
          createdAt : Nat, cooldownUntil : Nat \cup {NoTime}] : c.challenger # c.opponent}

\* Every variable holds a value of its kind; nobody has a challenge with
\* themselves.
TypeOK ==
  /\ lastSeen \in [Players -> Nat \cup {NoTime}]
  /\ challenge \in [Ids -> ChallengeRow \cup {NoChallenge}]
  /\ match \in [Ids -> {"none", "staged", "void", "live", "over"}]
  /\ now \in Nat /\ crashes \in Nat
  /\ pc \in [Workers -> {"idle", "leave"} \cup CreateLabels \cup AcceptLabels]
  /\ req \in [Workers -> [who : Players \cup {"none"}, rival : Players \cup {"none"},
                          id : Ids \cup {"none"}]]
  /\ at \in [Workers -> Nat]

\* Two players never have two challenges pending, even when each challenges
\* the other at the same time and both requests found none.
OnePendingPerPair ==
  \A i, j \in Ids : Pending(i) /\ Pending(j) /\ i # j =>
    {challenge[i].challenger, challenge[i].opponent}
      # {challenge[j].challenger, challenge[j].opponent}

\* There is a match only where a challenge was accepted: an acceptance that
\* lost against a cancellation, a decline or the expiry leaves no duel behind.
DuelsAreAgreed == \A id \in Ids : match[id] \in {"live", "over"} => challenge[id].status = "accepted"

\* A challenge is resolved once, by one of the requests that race for it.
ResolvedIsFinal ==
  [][\A id \in Ids : challenge[id].status \in Resolved
       => challenge'[id].status = challenge[id].status]_vars

\* No late cleanup and no retry of an acceptance deletes or restarts a duel.
DuelsArePermanent ==
  [][\A id \in Ids : match[id] \in {"live", "over"}
       => match'[id] \in {match[id], "over"}]_vars

\* An acceptance that is repeated until it succeeds brings the match into being,
\* wherever earlier ones stopped and whatever the others clean up meanwhile (the
\* recovery of Accept and the canonical match of CommitAcceptance).  Without a
\* repetition nothing completes the saga.
RetriedIsCompleted ==
  \A id \in Ids :
    []<><<\E w \in Workers : StartAccept(w, id)>>_vars
      => (challenge[id].status = "accepted" ~> match[id] \in {"live", "over"})

\* What challenges promise, whatever the requests do to each other: see Agreement.
Stage(id) ==
  LET status == challenge[id].status
  IN IF match[id] = "live" THEN "playing"
     ELSE IF match[id] = "over" THEN "over"
     ELSE IF status = "pending" THEN "offered"
     ELSE IF status = "accepted" THEN "agreed"
     ELSE IF status = "none" THEN "none" ELSE "withdrawn"

Promise == INSTANCE Agreement WITH
  stage <- [id \in Ids |-> Stage(id)],
  pair <- [id \in Ids |-> {challenge[id].challenger, challenge[id].opponent} \ {"none"}]

\* The saga of acceptance, with its staged match and its cleanup, implements an
\* agreement that is made in one step.
ImplementsAgreement == Promise!Spec

\* A player is in at most one duel at a time.
OneDuelAtATime ==
  \A p \in Players : Cardinality({id \in Ids : match[id] = "live" /\ Plays(p, id)}) <= 1

=============================================================================
