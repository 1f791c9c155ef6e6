------------------------ MODULE PvpChallengeProofs ------------------------
(***************************************************************************)
(* The safety of challenges and of the acceptance saga, for any number of  *)
(* players, challenges and concurrent requests.                            *)
(***************************************************************************)
EXTENDS PvpChallenge, TLAPS

-----------------------------------------------------------------------------
(* The inductive invariant.  A request in the middle of Create or Accept   *)
(* knows what it works on; and one that is about to activate its match has *)
(* seen the challenge accepted, which no other request undoes.             *)

Equipped(w) ==
  /\ pc[w] \in CreateLabels => /\ req[w].who \in Players /\ req[w].rival \in Players
                               /\ req[w].who # req[w].rival
  /\ pc[w] \in AcceptLabels => req[w].id \in Ids

Committed(w) == pc[w] = "accept_activate" => challenge[req[w].id].status = "accepted"

Inv ==
  /\ TypeOK
  /\ \A w \in Workers : Equipped(w) /\ Committed(w)
  /\ OnePendingPerPair
  /\ DuelsAreAgreed

-----------------------------------------------------------------------------
(* What a step may do to the shared documents.                             *)

\* Challenges are resolved from pending, and never otherwise changed.
Resolves ==
  /\ challenge' \in [Ids -> ChallengeRow \cup {NoChallenge}]
  /\ \A id \in Ids :
       \/ challenge'[id] = challenge[id]
       \/ /\ Pending(id)
          /\ challenge'[id].status \in Resolved
          /\ challenge'[id].challenger = challenge[id].challenger
          /\ challenge'[id].opponent = challenge[id].opponent

\* One challenge is created, where the pair has none pending.
Creates ==
  /\ challenge' \in [Ids -> ChallengeRow \cup {NoChallenge}]
  /\ \E id \in Ids :
       /\ challenge[id].status = "none"
       /\ challenge'[id].status = "pending"
       /\ \A j \in Ids \ {id} :
            /\ challenge'[j] = challenge[j]
            /\ Pending(j) => {challenge[j].challenger, challenge[j].opponent}
                             # {challenge'[id].challenger, challenge'[id].opponent}

\* A match appears or disappears staged, is activated once its challenge is
\* accepted, and ends.
Advances ==
  /\ match' \in [Ids -> {"none", "staged", "void", "live", "over"}]
  /\ \A id \in Ids :
       \/ match'[id] = match[id]
       \/ match[id] \notin {"live", "over"} /\ match'[id] \notin {"live", "over"}
       \/ match[id] \notin {"live", "over"} /\ challenge[id].status = "accepted"
       \/ match[id] = "live" /\ match'[id] = "over"

Shared == (Resolves \/ Creates) /\ Advances

\* The requests keep what the invariant says of them, given the new challenges.
Requests ==
  /\ lastSeen' \in [Players -> Nat \cup {NoTime}] /\ now' \in Nat /\ crashes' \in Nat
  /\ pc' \in [Workers -> {"idle", "leave"} \cup CreateLabels \cup AcceptLabels]
  /\ req' \in [Workers -> [who : Players \cup {"none"}, rival : Players \cup {"none"},
                          id : Ids \cup {"none"}]]
  /\ at' \in [Workers -> Nat]
  /\ \A w \in Workers : Equipped(w)' /\ Committed(w)'

StepOK == Shared /\ Requests

-----------------------------------------------------------------------------
LEMMA SharedIsEnough == Inv /\ StepOK => Inv'
<1> SUFFICES ASSUME Inv, StepOK PROVE Inv'
  OBVIOUS
<1> USE DEF Inv, StepOK, Shared
<1>1. TypeOK'
  BY DEF TypeOK, Requests, Resolves, Creates, Advances
<1>2. \A w \in Workers : Equipped(w)' /\ Committed(w)'
  BY DEF Requests
<1>3. OnePendingPerPair'
  <2>1. CASE Resolves
    <3>1. SUFFICES ASSUME NEW i \in Ids, NEW j \in Ids, Pending(i)', Pending(j)', i # j
                   PROVE {challenge'[i].challenger, challenge'[i].opponent}
                         # {challenge'[j].challenger, challenge'[j].opponent}
      BY DEF OnePendingPerPair
    <3>2. challenge'[i] = challenge[i] /\ challenge'[j] = challenge[j]
      BY <2>1, <3>1 DEF Resolves, Pending, Resolved
    <3>3. Pending(i) /\ Pending(j)
      BY <3>1, <3>2 DEF Pending
    <3> QED BY <3>1, <3>2, <3>3 DEF OnePendingPerPair
  <2>2. CASE Creates
    <3>1. PICK new \in Ids :
            /\ challenge[new].status = "none"
            /\ \A j \in Ids \ {new} :
                 /\ challenge'[j] = challenge[j]
                 /\ Pending(j) => {challenge[j].challenger, challenge[j].opponent}
                                  # {challenge'[new].challenger, challenge'[new].opponent}
      BY <2>2 DEF Creates
    <3>2. SUFFICES ASSUME NEW i \in Ids, NEW j \in Ids, Pending(i)', Pending(j)', i # j
                   PROVE {challenge'[i].challenger, challenge'[i].opponent}
                         # {challenge'[j].challenger, challenge'[j].opponent}
      BY DEF OnePendingPerPair
    <3>3. CASE i = new
      BY <3>1, <3>2, <3>3 DEF Pending
    <3>4. CASE j = new
      BY <3>1, <3>2, <3>4 DEF Pending
    <3>5. CASE i # new /\ j # new
      BY <3>1, <3>2, <3>5 DEF Pending, OnePendingPerPair
    <3> QED BY <3>3, <3>4, <3>5
  <2> QED BY <2>1, <2>2
<1>4. DuelsAreAgreed'
  BY DEF Resolves, Creates, Advances, DuelsAreAgreed, Pending
<1> QED BY <1>1, <1>2, <1>3, <1>4

-----------------------------------------------------------------------------
(* How the documents keep their side of StepOK.                            *)

Label == {"idle", "leave"} \cup CreateLabels \cup AcceptLabels
Request == [who : Players \cup {"none"}, rival : Players \cup {"none"}, id : Ids \cup {"none"}]

\* What is resolved stays as it is, and so does what is agreed on.
LEMMA ResolvedStays ==
  ASSUME Inv, Resolves \/ Creates, NEW id \in Ids, challenge[id].status \in Resolved
  PROVE  challenge'[id] = challenge[id]
BY DEF Resolves, Creates, Pending, Resolved

\* A step of one request that leaves it with a label, a request and an instant.
Fits(l, r) ==
  /\ l \in CreateLabels => r.who \in Players /\ r.rival \in Players /\ r.who # r.rival
  /\ l \in AcceptLabels => r.id \in Ids
  /\ l = "accept_activate" => challenge'[r.id].status = "accepted"

Kept == lastSeen' \in [Players -> Nat \cup {NoTime}] /\ now' \in Nat /\ crashes' \in Nat

LEMMA OneRequest ==
  ASSUME Inv, Resolves \/ Creates, Kept, NEW w \in Workers,
         NEW l \in Label, NEW r \in Request, NEW t \in Nat, Fits(l, r),
         pc' = [pc EXCEPT ![w] = l], req' = [req EXCEPT ![w] = r], at' = [at EXCEPT ![w] = t]
  PROVE  Requests
<1> USE DEF Inv, TypeOK, Label, Request
<1>1. \A v \in Workers : Equipped(v)'
  <2> SUFFICES ASSUME NEW v \in Workers PROVE Equipped(v)'
    OBVIOUS
  <2>1. CASE v = w
    BY <2>1 DEF Equipped, Fits
  <2>2. CASE v # w
    <3>1. pc'[v] = pc[v] /\ req'[v] = req[v]
      BY <2>2
    <3> QED BY <3>1 DEF Equipped
  <2> QED BY <2>1, <2>2
<1>2. \A v \in Workers : Committed(v)'
  <2> SUFFICES ASSUME NEW v \in Workers, pc'[v] = "accept_activate"
               PROVE challenge'[req'[v].id].status = "accepted"
    BY DEF Committed
  <2>1. CASE v = w
    BY <2>1 DEF Fits
  <2>2. CASE v # w
    <3>1. pc'[v] = pc[v] /\ req'[v] = req[v]
      BY <2>2
    <3>2. req[v].id \in Ids /\ challenge[req[v].id].status = "accepted"
      BY <3>1 DEF Equipped, Committed, AcceptLabels
    <3>3. challenge'[req[v].id] = challenge[req[v].id]
      BY <3>2, ResolvedStays DEF Resolved
    <3> QED BY <3>1, <3>2, <3>3
  <2> QED BY <2>1, <2>2
<1> QED BY <1>1, <1>2 DEF Requests, Kept

LEMMA NoRequest ==
  ASSUME Inv, Resolves \/ Creates, Kept, UNCHANGED <<pc, req, at>>
  PROVE  Requests
<1> USE DEF Inv, TypeOK
<1>1. \A v \in Workers : Equipped(v)'
  BY DEF Equipped
<1>2. \A v \in Workers : Committed(v)'
  <2> SUFFICES ASSUME NEW v \in Workers, pc[v] = "accept_activate"
               PROVE challenge'[req[v].id].status = "accepted"
    BY DEF Committed
  <2>1. req[v].id \in Ids /\ challenge[req[v].id].status = "accepted"
    BY DEF Equipped, Committed, AcceptLabels
  <2> QED BY <2>1, ResolvedStays DEF Resolved
<1> QED BY <1>1, <1>2 DEF Requests, Kept

LEMMA ReturnOK ==
  ASSUME Inv, Resolves \/ Creates, Kept, NEW w \in Workers, Return(w)
  PROVE  Requests
<1>1. NoReq \in Request /\ "idle" \in Label /\ 0 \in Nat /\ Fits("idle", NoReq)
  BY DEF NoReq, Request, Label, Fits, CreateLabels, AcceptLabels
<1> QED BY <1>1, OneRequest DEF Return

LEMMA GotoOK ==
  ASSUME Inv, Resolves \/ Creates, Kept, NEW w \in Workers,
         NEW l \in Label, Fits(l, req[w]), Goto(w, l)
  PROVE  Requests
<1>1. req[w] \in Request /\ at[w] \in Nat
  BY DEF Inv, TypeOK, Request
<1>2. req' = [req EXCEPT ![w] = req[w]] /\ at' = [at EXCEPT ![w] = at[w]]
  BY DEF Goto, Inv, TypeOK
<1>3. pc' = [pc EXCEPT ![w] = l]
  BY DEF Goto
<1> QED BY <1>1, <1>2, <1>3, OneRequest

LEMMA SameDocuments ==
  ASSUME Inv
  PROVE  /\ UNCHANGED challenge => Resolves
         /\ UNCHANGED match => Advances
BY DEF Inv, TypeOK, Resolves, Advances

-----------------------------------------------------------------------------
(* Each action is a StepOK.  First the handlers of one operation.          *)

LEMMA HandlersOK ==
  ASSUME Inv
  PROVE  /\ Tick => StepOK
         /\ \A p \in Humans : JoinRoster(p) => StepOK
         /\ LobbyChallenges => StepOK
         /\ \A id \in Ids : CancelChallenge(id) \/ DeclineChallenge(id) => StepOK
         /\ \A id \in Ids : MatchOver(id) \/ CancelStaged(id) => StepOK
<1> USE DEF StepOK, Shared
<1>1. Tick => StepOK
  <2> SUFFICES ASSUME Tick PROVE StepOK
    OBVIOUS
  <2>1. Kept /\ Resolves /\ Advances /\ UNCHANGED <<pc, req, at>>
    BY SameDocuments DEF Tick, Kept, Inv, TypeOK, store
  <2> QED BY <2>1, NoRequest
<1>2. \A p \in Humans : JoinRoster(p) => StepOK
  <2> SUFFICES ASSUME NEW p \in Humans, JoinRoster(p) PROVE StepOK
    OBVIOUS
  <2>1. Kept /\ Resolves /\ Advances /\ UNCHANGED <<pc, req, at>>
    BY SameDocuments DEF JoinRoster, Upsert, Kept, Inv, TypeOK
  <2> QED BY <2>1, NoRequest
<1>3. LobbyChallenges => StepOK
  <2> SUFFICES ASSUME LobbyChallenges PROVE StepOK
    OBVIOUS
  <2>1. Kept /\ Advances /\ UNCHANGED <<pc, req, at>>
    BY SameDocuments DEF LobbyChallenges, Kept, Inv, TypeOK
  <2>2. Resolves
    <3>1. \A id \in Ids : Pending(id) => [challenge[id] EXCEPT !.status = "expired"] \in ChallengeRow
      BY DEF Inv, TypeOK, ChallengeRow, NoChallenge, Pending, Resolved
    <3> QED BY <3>1 DEF LobbyChallenges, Resolves, Inv, TypeOK, ChallengeRow, NoChallenge, Pending, Resolved
  <2> QED BY <2>1, <2>2, NoRequest
<1>4. \A id \in Ids : CancelChallenge(id) \/ DeclineChallenge(id) => StepOK
  <2> SUFFICES ASSUME NEW id \in Ids, NEW s \in {"cancelled", "declined"}, Pending(id), Resolve(id, s)
               PROVE StepOK
    BY DEF CancelChallenge, DeclineChallenge
  <2>1. Kept /\ Advances /\ UNCHANGED <<pc, req, at>>
    BY SameDocuments DEF Resolve, Kept, Inv, TypeOK
  <2>2. Resolves
    <3> DEFINE settled == [challenge[id] EXCEPT !.status = s]
               new == [settled EXCEPT !.cooldownUntil = now + ChallengeCooldown]
    <3>1. settled \in ChallengeRow
      BY DEF Inv, TypeOK, ChallengeRow, NoChallenge, Pending, Resolved
    <3>2. now + ChallengeCooldown \in Nat
      BY ChallengeAssumption DEF Inv, TypeOK
    <3>3. /\ settled.status = s /\ settled.challenger = challenge[id].challenger
          /\ settled.opponent = challenge[id].opponent
      BY DEF Inv, TypeOK, ChallengeRow, NoChallenge, Pending
    <3>4. challenge' = [challenge EXCEPT ![id] = new]
      BY DEF Resolve, Inv, TypeOK
    <3> HIDE DEF settled
    <3>5. /\ new \in ChallengeRow /\ new.status = s
          /\ new.challenger = challenge[id].challenger /\ new.opponent = challenge[id].opponent
      BY <3>1, <3>2, <3>3 DEF ChallengeRow
    <3> HIDE DEF new
    <3> QED BY <3>4, <3>5 DEF Resolves, Inv, TypeOK, Resolved
  <2> QED BY <2>1, <2>2, NoRequest
<1>5. \A id \in Ids : MatchOver(id) \/ CancelStaged(id) => StepOK
  <2> SUFFICES ASSUME NEW id \in Ids, MatchOver(id) \/ CancelStaged(id) PROVE StepOK
    OBVIOUS
  <2>1. Kept /\ Resolves /\ UNCHANGED <<pc, req, at>>
    BY SameDocuments DEF MatchOver, CancelStaged, Kept, Inv, TypeOK
  <2>2. Advances
    BY DEF MatchOver, CancelStaged, Advances, Inv, TypeOK
  <2> QED BY <2>1, <2>2, NoRequest
<1> QED BY <1>1, <1>2, <1>3, <1>4, <1>5

-----------------------------------------------------------------------------
(* Leaving the roster, creating and accepting.                             *)

LEMMA LeaveOK ==
  ASSUME Inv, NEW w \in Workers
  PROVE  StartLeave(w) \/ LeavePending(w) => StepOK
<1> USE DEF StepOK, Shared
<1>1. ASSUME StartLeave(w) PROVE StepOK
  <2>1. PICK p \in Players : /\ lastSeen' = [lastSeen EXCEPT ![p] = NoTime]
                             /\ req' = [req EXCEPT ![w] = [NoReq EXCEPT !.who = p]]
    BY <1>1 DEF StartLeave
  <2>2. Kept /\ Resolves /\ Advances
    BY <1>1, <2>1, SameDocuments DEF StartLeave, Kept, Inv, TypeOK
  <2>3. /\ "leave" \in Label /\ [NoReq EXCEPT !.who = p] \in Request
        /\ Fits("leave", [NoReq EXCEPT !.who = p])
    BY DEF Label, Request, NoReq, Fits, CreateLabels, AcceptLabels
  <2>4. pc' = [pc EXCEPT ![w] = "leave"] /\ at' = [at EXCEPT ![w] = at[w]] /\ at[w] \in Nat
    BY <1>1 DEF StartLeave, Inv, TypeOK
  <2> QED BY <2>1, <2>2, <2>3, <2>4, OneRequest
<1>2. ASSUME LeavePending(w) PROVE StepOK
  <2>1. Kept /\ Advances /\ Return(w)
    BY <1>2, SameDocuments DEF LeavePending, Kept, Inv, TypeOK
  <2>2. Resolves
    <3>1. \A id \in Ids : Pending(id) => [challenge[id] EXCEPT !.status = "cancelled"] \in ChallengeRow
      BY DEF Inv, TypeOK, ChallengeRow, NoChallenge, Pending, Resolved
    <3> QED BY <1>2, <3>1 DEF LeavePending, LeaveChallenges, Resolves, Inv, TypeOK,
                              ChallengeRow, NoChallenge, Pending, Resolved
  <2> QED BY <2>1, <2>2, ReturnOK
<1> QED BY <1>1, <1>2

LEMMA CreatedOK ==
  ASSUME Inv, Resolves \/ Creates, Kept, NEW w \in Workers, NEW id \in Ids, Created(w, id)
  PROVE  Requests
<1>1. CASE req[w].rival \in Bots
  <2> DEFINE r == [who |-> req[w].rival, rival |-> "none", id |-> id]
  <2>1. "accept_get" \in Label /\ r \in Request /\ Fits("accept_get", r) /\ 0 \in Nat
    BY <1>1, ChallengeAssumption DEF Label, Request, Fits, CreateLabels, AcceptLabels
  <2>2. /\ pc' = [pc EXCEPT ![w] = "accept_get"] /\ req' = [req EXCEPT ![w] = r]
        /\ at' = [at EXCEPT ![w] = 0]
    BY <1>1 DEF Created
  <2> HIDE DEF r
  <2> QED BY <2>1, <2>2, OneRequest
<1>2. CASE req[w].rival \notin Bots
  BY <1>2, ReturnOK DEF Created
<1> QED BY <1>1, <1>2

LEMMA CreateOK ==
  ASSUME Inv, NEW w \in Workers
  PROVE  StartCreate(w) \/ CreateRead(w) \/ CreateFind(w) \/ CreateInsert(w) \/ CreateWinner(w)
           => StepOK
<1> USE DEF StepOK, Shared
<1>1. ASSUME StartCreate(w) PROVE StepOK
  <2>1. PICK p \in Humans, q \in Players :
          /\ p # q
          /\ req' = [req EXCEPT ![w] = [who |-> p, rival |-> q, id |-> "none"]]
          /\ IF q \in Bots THEN Upsert(Bots, now) ELSE UNCHANGED lastSeen
    BY <1>1 DEF StartCreate
  <2> DEFINE r == [who |-> p, rival |-> q, id |-> "none"]
  <2>2. Kept /\ Resolves /\ Advances
    BY <1>1, <2>1, SameDocuments DEF StartCreate, Upsert, Kept, Inv, TypeOK
  <2>3. "create_self" \in Label /\ r \in Request /\ Fits("create_self", r)
    BY <2>1 DEF Label, Request, Fits, CreateLabels, AcceptLabels, Humans
  <2>4. /\ pc' = [pc EXCEPT ![w] = "create_self"] /\ at' = [at EXCEPT ![w] = now]
        /\ req' = [req EXCEPT ![w] = r] /\ now \in Nat
    BY <1>1, <2>1 DEF StartCreate, Inv, TypeOK
  <2> HIDE DEF r
  <2> QED BY <2>2, <2>3, <2>4, OneRequest
<1>2. ASSUME CreateRead(w) PROVE StepOK
  <2>1. Kept /\ Resolves /\ Advances
    BY <1>2, SameDocuments DEF CreateRead, Kept, Inv, TypeOK, store
  <2>2. CASE Return(w)
    BY <2>1, <2>2, ReturnOK
  <2>3. CASE Goto(w, AfterCheck[pc[w]])
    <3>1. pc[w] \in CreateLabels /\ AfterCheck[pc[w]] \in CreateLabels
      BY <1>2 DEF CreateRead, AfterCheck, CreateLabels
    <3>2. AfterCheck[pc[w]] \in Label /\ Fits(AfterCheck[pc[w]], req[w])
      BY <3>1 DEF Inv, Equipped, Fits, Label, CreateLabels, AcceptLabels
    <3> QED BY <2>1, <2>3, <3>2, GotoOK
  <2> QED BY <1>2, <2>2, <2>3 DEF CreateRead
<1>3. ASSUME CreateFind(w) PROVE StepOK
  <2>1. Kept /\ Resolves /\ Advances
    BY <1>3, SameDocuments DEF CreateFind, Kept, Inv, TypeOK, store
  <2>2. CASE \E id \in Ids : Created(w, id)
    BY <2>1, <2>2, CreatedOK
  <2>3. CASE Goto(w, "create_insert")
    <3>1. "create_insert" \in Label /\ Fits("create_insert", req[w])
      BY <1>3 DEF CreateFind, Inv, Equipped, Fits, Label, CreateLabels, AcceptLabels
    <3> QED BY <2>1, <2>3, <3>1, GotoOK
  <2> QED BY <1>3, <2>2, <2>3 DEF CreateFind
<1>4. ASSUME CreateInsert(w) PROVE StepOK
  <2>1. Kept /\ Advances
    BY <1>4, SameDocuments DEF CreateInsert, Kept, Inv, TypeOK
  <2>2. CASE Goto(w, "create_winner") /\ UNCHANGED challenge
    <3>1. "create_winner" \in Label /\ Fits("create_winner", req[w])
      BY <1>4 DEF CreateInsert, Inv, Equipped, Fits, Label, CreateLabels, AcceptLabels
    <3> QED BY <2>1, <2>2, <3>1, GotoOK, SameDocuments
  <2>3. CASE Return(w) /\ UNCHANGED challenge
    BY <2>1, <2>3, ReturnOK, SameDocuments
  <2>4. ASSUME NEW id \in Ids, challenge[id].status = "none",
               ~\E j \in Ids : Pending(j) /\ SamePair(j, req[w].who, req[w].rival),
               challenge' = [challenge EXCEPT ![id] =
                   [status |-> "pending", challenger |-> req[w].who, opponent |-> req[w].rival,
                    createdAt |-> at[w], cooldownUntil |-> NoTime]],
               Created(w, id)
        PROVE  StepOK
    <3> DEFINE new == [status |-> "pending", challenger |-> req[w].who, opponent |-> req[w].rival,
                       createdAt |-> at[w], cooldownUntil |-> NoTime]
    <3>1. /\ req[w].who \in Players /\ req[w].rival \in Players /\ req[w].who # req[w].rival
          /\ at[w] \in Nat
      BY <1>4 DEF CreateInsert, Inv, TypeOK, Equipped, CreateLabels
    <3>2. new \in ChallengeRow
      BY <3>1 DEF ChallengeRow
    <3>3. challenge' = [challenge EXCEPT ![id] = new]
      BY <2>4
    <3>4. new.status = "pending" /\ new.challenger = req[w].who /\ new.opponent = req[w].rival
      OBVIOUS
    <3> HIDE DEF new
    <3>5. challenge' \in [Ids -> ChallengeRow \cup {NoChallenge}]
      BY <3>2, <3>3 DEF Inv, TypeOK
    <3>6. challenge'[id] = new /\ \A j \in Ids \ {id} : challenge'[j] = challenge[j]
      BY <3>3 DEF Inv, TypeOK
    <3>7. \A j \in Ids : Pending(j) => {challenge[j].challenger, challenge[j].opponent}
                                       # {new.challenger, new.opponent}
      BY <2>4, <3>4 DEF SamePair
    <3>8. Creates
      <4>1. challenge[id].status = "none" /\ challenge'[id].status = "pending"
        BY <2>4, <3>4, <3>6
      <4>2. \A j \in Ids \ {id} :
              /\ challenge'[j] = challenge[j]
              /\ Pending(j) => {challenge[j].challenger, challenge[j].opponent}
                               # {challenge'[id].challenger, challenge'[id].opponent}
        BY <3>6, <3>7
      <4> QED BY <3>5, <4>1, <4>2, Zenon DEF Creates
    <3> QED BY <2>1, <2>4, <3>8, CreatedOK
  <2> QED BY <1>4, <2>2, <2>3, <2>4 DEF CreateInsert
<1>5. ASSUME CreateWinner(w) PROVE StepOK
  <2>1. Kept /\ Resolves /\ Advances
    BY <1>5, SameDocuments DEF CreateWinner, Kept, Inv, TypeOK, store
  <2>2. Return(w) \/ \E id \in Ids : Created(w, id)
    BY <1>5 DEF CreateWinner
  <2> QED BY <2>1, <2>2, CreatedOK, ReturnOK
<1> QED BY <1>1, <1>2, <1>3, <1>4, <1>5

LEMMA AcceptChecksOK ==
  ASSUME Inv, NEW w \in Workers
  PROVE  /\ \A id \in Ids : StartAccept(w, id) => StepOK
         /\ AcceptGet(w) \/ AcceptMatch(w) \/ AcceptBusy(w) \/ AcceptListed(w) => StepOK
<1> USE DEF StepOK, Shared
<1>1. ASSUME NEW id \in Ids, StartAccept(w, id) PROVE StepOK
  <2> DEFINE r == [who |-> challenge[id].opponent, rival |-> "none", id |-> id]
  <2>1. Kept /\ Resolves /\ Advances
    BY <1>1, SameDocuments DEF StartAccept, Kept, Inv, TypeOK, store
  <2>2. "accept_get" \in Label /\ r \in Request /\ Fits("accept_get", r)
    BY <1>1 DEF StartAccept, Label, Request, Fits, CreateLabels, AcceptLabels, Humans
  <2>3. /\ pc' = [pc EXCEPT ![w] = "accept_get"] /\ req' = [req EXCEPT ![w] = r]
        /\ at' = [at EXCEPT ![w] = at[w]] /\ at[w] \in Nat
    BY <1>1 DEF StartAccept, Inv, TypeOK
  <2> HIDE DEF r
  <2> QED BY <2>1, <2>2, <2>3, OneRequest
<1> SUFFICES ASSUME AcceptGet(w) \/ AcceptMatch(w) \/ AcceptBusy(w) \/ AcceptListed(w)
             PROVE  StepOK
  BY <1>1
<1>2. Kept /\ Resolves /\ Advances
  BY SameDocuments DEF AcceptGet, AcceptMatch, AcceptBusy, AcceptListed, Kept, Inv, TypeOK, store
<1>3. pc[w] \in AcceptLabels /\ req[w].id \in Ids /\ req[w] \in Request /\ at[w] \in Nat /\ now \in Nat
  BY DEF AcceptGet, AcceptMatch, AcceptBusy, AcceptListed, AcceptLabels, Inv, TypeOK, Equipped, Request
\* Nothing is asked of a request at any of these labels but an id.
<1>4. \A l \in AcceptLabels \ {"accept_activate"}, r \in Request :
        r.id \in Ids => l \in Label /\ Fits(l, r)
  BY DEF Label, Fits, AcceptLabels, CreateLabels
<1>5. CASE Return(w)
  BY <1>2, <1>5, ReturnOK
<1>6. ASSUME NEW l \in AcceptLabels \ {"accept_activate"}, Goto(w, l) PROVE StepOK
  BY <1>2, <1>3, <1>4, <1>6, GotoOK
<1>7. ASSUME NEW l \in AcceptLabels \ {"accept_activate"}, pc' = [pc EXCEPT ![w] = l],
             at' = [at EXCEPT ![w] = now], UNCHANGED req
      PROVE  StepOK
  <2>1. req' = [req EXCEPT ![w] = req[w]]
    BY <1>7 DEF Inv, TypeOK
  <2> QED BY <1>2, <1>3, <1>4, <1>7, <2>1, OneRequest
<1>8. CASE AcceptGet(w)
  <2>1. ASSUME challenge[req[w].id].status = "pending",
               pc' = [pc EXCEPT ![w] = "accept_rival_busy"],
               req' = [req EXCEPT ![w].rival = challenge[req[w].id].challenger], UNCHANGED at
        PROVE  StepOK
    <3> DEFINE r == [req[w] EXCEPT !.rival = challenge[req[w].id].challenger]
    <3>1. challenge[req[w].id].challenger \in Players
      BY <1>3, <2>1 DEF Inv, TypeOK, ChallengeRow, NoChallenge
    <3>2. r \in Request /\ r.id \in Ids
      BY <1>3, <3>1 DEF Request
    <3>3. req' = [req EXCEPT ![w] = r] /\ at' = [at EXCEPT ![w] = at[w]]
      BY <2>1 DEF Inv, TypeOK
    <3> HIDE DEF r
    <3>4. "accept_rival_busy" \in Label /\ Fits("accept_rival_busy", r)
      BY <1>4, <3>2 DEF AcceptLabels
    <3> QED BY <1>2, <1>3, <2>1, <3>2, <3>3, <3>4, OneRequest
  <2>2. Goto(w, "accept_match") => StepOK
    BY <1>6 DEF AcceptLabels
  <2> QED BY <1>5, <1>8, <2>1, <2>2 DEF AcceptGet
<1>9. CASE AcceptMatch(w)
  BY <1>5, <1>7, <1>9 DEF AcceptMatch, AcceptLabels
<1>10. CASE AcceptBusy(w)
  <2>1. Goto(w, "accept_self_busy") => StepOK
    BY <1>6 DEF AcceptLabels
  <2> QED BY <1>5, <1>7, <1>10, <2>1 DEF AcceptBusy, AcceptLabels
<1>11. CASE AcceptListed(w)
  <2>1. Goto(w, "accept_self_listed") \/ Goto(w, "accept_insert") => StepOK
    BY <1>6 DEF AcceptLabels
  <2> QED BY <1>5, <1>11, <2>1 DEF AcceptListed
<1> QED BY <1>8, <1>9, <1>10, <1>11

LEMMA CommitOK ==
  ASSUME Inv, NEW w \in Workers
  PROVE  AcceptInsert(w) \/ AcceptCanonical(w) \/ AcceptCas(w) \/ AcceptFind(w)
           \/ AcceptCleanup(w) \/ AcceptActivate(w) => StepOK
<1> USE DEF StepOK, Shared
<1> SUFFICES ASSUME AcceptInsert(w) \/ AcceptCanonical(w) \/ AcceptCas(w) \/ AcceptFind(w)
                    \/ AcceptCleanup(w) \/ AcceptActivate(w)
             PROVE  StepOK
  OBVIOUS
<1> DEFINE id == req[w].id
<1>1. Kept
  BY DEF AcceptInsert, AcceptCanonical, AcceptCas, AcceptFind, AcceptCleanup, AcceptActivate,
         Kept, Inv, TypeOK, store
<1>2. id \in Ids /\ (pc[w] = "accept_activate" => challenge[id].status = "accepted")
  BY DEF AcceptInsert, AcceptCanonical, AcceptCas, AcceptFind, AcceptCleanup, AcceptActivate,
         AcceptLabels, Inv, Equipped, Committed
<1>3. \A l \in {"accept_cas", "accept_canonical", "accept_find", "accept_cleanup"} :
        l \in Label /\ Fits(l, req[w])
  BY <1>2 DEF Label, Fits, AcceptLabels, CreateLabels
<1>4. "accept_activate" \in Label
      /\ (challenge'[id].status = "accepted" => Fits("accept_activate", req[w]))
  BY <1>2 DEF Label, Fits, AcceptLabels, CreateLabels
<1>5. CASE AcceptInsert(w)
  <2>1. Resolves /\ Advances
    BY <1>2, <1>5, SameDocuments DEF AcceptInsert, Advances, Inv, TypeOK
  <2>2. Goto(w, "accept_cas") \/ Goto(w, "accept_canonical")
    BY <1>5 DEF AcceptInsert
  <2> QED BY <1>1, <1>3, <2>1, <2>2, GotoOK
<1>6. CASE AcceptCanonical(w)
  <2>1. Resolves /\ Advances
    BY <1>6, SameDocuments DEF AcceptCanonical, store
  <2>2. Goto(w, "accept_cas") \/ Return(w)
    BY <1>6 DEF AcceptCanonical
  <2> QED BY <1>1, <1>3, <2>1, <2>2, GotoOK, ReturnOK
<1>7. CASE AcceptCas(w)
  <2>1. Advances
    BY <1>7, SameDocuments DEF AcceptCas
  <2>2. CASE UNCHANGED challenge /\ Goto(w, "accept_find")
    BY <1>1, <1>3, <2>1, <2>2, SameDocuments, GotoOK
  <2>3. CASE /\ Pending(id) /\ challenge' = [challenge EXCEPT ![id].status = "accepted"]
             /\ Goto(w, "accept_activate")
    <3> DEFINE new == [challenge[id] EXCEPT !.status = "accepted"]
    <3>1. /\ new \in ChallengeRow /\ new.status = "accepted"
          /\ new.challenger = challenge[id].challenger /\ new.opponent = challenge[id].opponent
      BY <1>2, <2>3 DEF Inv, TypeOK, ChallengeRow, NoChallenge, Pending, Resolved
    <3>2. challenge' = [challenge EXCEPT ![id] = new]
      BY <1>2, <2>3 DEF Inv, TypeOK
    <3> HIDE DEF new
    <3>3. Resolves /\ challenge'[id].status = "accepted"
      BY <1>2, <2>3, <3>1, <3>2 DEF Resolves, Inv, TypeOK, Resolved
    <3> QED BY <1>1, <1>4, <2>1, <2>3, <3>3, GotoOK
  <2> QED BY <1>7, <2>2, <2>3 DEF AcceptCas
<1>8. CASE AcceptFind(w)
  <2>1. Resolves /\ Advances /\ challenge' = challenge
    BY <1>8, SameDocuments DEF AcceptFind, store
  <2>2. \/ Goto(w, "accept_activate") /\ challenge[id].status = "accepted"
        \/ Goto(w, "accept_cleanup")
    BY <1>8 DEF AcceptFind
  <2> QED BY <1>1, <1>3, <1>4, <2>1, <2>2, GotoOK
<1>9. CASE AcceptCleanup(w)
  <2>1. Resolves /\ Advances /\ Return(w)
    BY <1>2, <1>9, SameDocuments DEF AcceptCleanup, Advances, Inv, TypeOK
  <2> QED BY <1>1, <2>1, ReturnOK
<1>10. CASE AcceptActivate(w)
  <2>1. Resolves /\ Advances /\ Return(w)
    BY <1>2, <1>10, SameDocuments DEF AcceptActivate, Advances, Inv, TypeOK
  <2> QED BY <1>1, <2>1, ReturnOK
<1> QED BY <1>5, <1>6, <1>7, <1>8, <1>9, <1>10

LEMMA AbortOK ==
  ASSUME Inv, NEW w \in Workers, Abort(w)
  PROVE  StepOK
<1>1. Kept /\ Resolves /\ Advances /\ Return(w)
  BY SameDocuments DEF Abort, Kept, Inv, TypeOK, store
<1> QED BY <1>1, ReturnOK DEF StepOK, Shared

-----------------------------------------------------------------------------
(* The theorems.                                                           *)

LEMMA InitInv == Init => Inv
<1> SUFFICES ASSUME Init PROVE Inv
  OBVIOUS
<1>1. NoReq \in [who : Players \cup {"none"}, rival : Players \cup {"none"}, id : Ids \cup {"none"}]
  BY DEF NoReq
<1>2. TypeOK
  BY <1>1 DEF Init, TypeOK, NoTime
<1>3. \A w \in Workers : Equipped(w) /\ Committed(w)
  BY DEF Init, Equipped, Committed, CreateLabels, AcceptLabels
<1>4. OnePendingPerPair /\ DuelsAreAgreed
  BY DEF Init, OnePendingPerPair, DuelsAreAgreed, Pending, NoChallenge
<1> QED BY <1>2, <1>3, <1>4 DEF Inv

LEMMA NextOK == Inv /\ Next => StepOK
<1> SUFFICES ASSUME Inv, Next PROVE StepOK
  OBVIOUS
<1>1. CASE Tick \/ LobbyChallenges \/ \E p \in Humans : JoinRoster(p)
  BY <1>1, HandlersOK
<1>2. CASE \E id \in Ids : CancelChallenge(id) \/ DeclineChallenge(id) \/ MatchOver(id) \/ CancelStaged(id)
  BY <1>2, HandlersOK
<1>3. ASSUME NEW w \in Workers,
             StartLeave(w) \/ StartCreate(w) \/ Step(w) \/ Abort(w) \/ \E id \in Ids : StartAccept(w, id)
      PROVE  StepOK
  BY <1>3, LeaveOK, CreateOK, AcceptChecksOK, CommitOK, AbortOK DEF Step
<1> QED BY <1>1, <1>2, <1>3 DEF Next

LEMMA StutterOK == Inv /\ UNCHANGED vars => StepOK
<1> SUFFICES ASSUME Inv, UNCHANGED vars PROVE StepOK
  OBVIOUS
<1>1. Kept /\ Resolves /\ Advances /\ UNCHANGED <<pc, req, at>>
  BY SameDocuments DEF vars, store, Kept, Inv, TypeOK
<1> QED BY <1>1, NoRequest DEF StepOK, Shared

LEMMA InvInductive == Spec => []Inv
<1>1. Inv /\ [Next]_vars => Inv'
  BY NextOK, StutterOK, SharedIsEnough
<1> QED BY InitInv, <1>1, PTL DEF Spec

\* Every variable of PvpChallenge keeps its type, and no row of pvp_challenges
\* ever has the same player on both sides, whatever requests interleave.
THEOREM ChallengeTypes == Spec => []TypeOK
<1>1. Inv => TypeOK
  BY DEF Inv
<1> QED BY InvInductive, <1>1, PTL

\* The unique index keeps a pair to one pending challenge, although Create
\* looks for one and inserts in two operations.
THEOREM OnePending == Spec => []OnePendingPerPair
<1>1. Inv => OnePendingPerPair
  BY DEF Inv
<1> QED BY InvInductive, <1>1, PTL

\* CommitAcceptance without a transaction: no interleaving of acceptances,
\* cancellations, expiry, cleanups and crashes leaves a duel whose challenge
\* was not accepted.
THEOREM AgreedDuels == Spec => []DuelsAreAgreed
<1>1. Inv => DuelsAreAgreed
  BY DEF Inv
<1> QED BY InvInductive, <1>1, PTL

\* The filters on status pending: what is resolved is never resolved again.
THEOREM FinalResolution == Spec => ResolvedIsFinal
<1>1. Inv /\ StepOK => \A id \in Ids : challenge[id].status \in Resolved
                           => challenge'[id].status = challenge[id].status
  BY ResolvedStays DEF StepOK, Shared
<1>2. Inv /\ [Next]_vars => [\A id \in Ids : challenge[id].status \in Resolved
                                => challenge'[id].status = challenge[id].status]_vars
  BY <1>1, NextOK
<1> QED BY InvInductive, <1>2, PTL DEF Spec, ResolvedIsFinal

\* The cleanup of a failed acceptance deletes staged matches only, and an
\* activation never restarts a duel.
THEOREM PermanentDuels == Spec => DuelsArePermanent
<1>1. Inv /\ StepOK => \A id \in Ids : match[id] \in {"live", "over"}
                           => match'[id] \in {match[id], "over"}
  BY DEF StepOK, Shared, Advances
<1>2. Inv /\ [Next]_vars => [\A id \in Ids : match[id] \in {"live", "over"}
                                => match'[id] \in {match[id], "over"}]_vars
  BY <1>1, NextOK
<1> QED BY InvInductive, <1>2, PTL DEF Spec, DuelsArePermanent

-----------------------------------------------------------------------------
(* The refinement: each request takes at most one step of the agreement.   *)

PairOf(id) == {challenge[id].challenger, challenge[id].opponent} \ {"none"}

\* A duel on show is an accepted challenge, so the stage tells the status.
LEMMA StageTells ==
  ASSUME Inv, NEW id \in Ids
  PROVE  /\ Stage(id) = "offered" <=> Pending(id)
         /\ Stage(id) = "none" <=> challenge[id].status = "none"
         /\ Stage(id) = "agreed" <=>
              challenge[id].status = "accepted" /\ match[id] \notin {"live", "over"}
BY DEF Inv, TypeOK, DuelsAreAgreed, Stage, Pending, ChallengeRow, NoChallenge, Resolved

LEMMA StaysSame ==
  ASSUME challenge' = challenge,
         \A id \in Ids : \/ match'[id] = match[id]
                         \/ match[id] \notin {"live", "over"} /\ match'[id] \notin {"live", "over"}
  PROVE  UNCHANGED Promise!agreements
<1>1. \A id \in Ids : Stage(id)' = Stage(id)
  BY DEF Stage
<1> QED BY <1>1 DEF Promise!agreements

LEMMA Withdraws ==
  ASSUME Inv, match' = match,
         \A id \in Ids : \/ challenge'[id] = challenge[id]
                         \/ /\ Pending(id)
                            /\ challenge'[id].status \in {"declined", "cancelled", "expired"}
                            /\ challenge'[id].challenger = challenge[id].challenger
                            /\ challenge'[id].opponent = challenge[id].opponent
  PROVE  Promise!Next
<1> DEFINE S == {id \in Ids : challenge'[id] # challenge[id]}
<1>1. \A id \in S : Stage(id) = "offered"
  BY StageTells
<1>2. ASSUME NEW id \in Ids
      PROVE  Stage(id)' = IF id \in S THEN "withdrawn" ELSE Stage(id)
  <2>1. CASE id \in S
    <3>1. match[id] \notin {"live", "over"}
      BY <2>1 DEF Inv, DuelsAreAgreed, Pending
    <3> QED BY <2>1, <3>1 DEF Stage
  <2>2. CASE id \notin S
    BY <2>2 DEF Stage
  <2> QED BY <2>1, <2>2
<1>3. \A id \in Ids : PairOf(id)' = PairOf(id)
  BY DEF PairOf
<1> HIDE DEF S
<1>4. S \subseteq Ids
  BY DEF S
<1>5. Promise!Withdraw
  BY <1>1, <1>2, <1>3, <1>4 DEF Promise!Withdraw, PairOf
<1> QED BY <1>5 DEF Promise!Next

\* One agreement moves on, with the same players.
LEMMA Moves ==
  ASSUME NEW id \in Ids, NEW from, NEW to, Stage(id) = from, Stage(id)' = to,
         \A j \in Ids \ {id} : Stage(j)' = Stage(j)
  PROVE  Promise!Move(id, from, to)
BY DEF Promise!Move

LEMMA MatchMoves ==
  ASSUME Inv, NEW id \in Ids, NEW m, challenge' = challenge, match' = [match EXCEPT ![id] = m],
         challenge[id].status = "accepted",
         \/ match[id] \notin {"live", "over"} /\ m \in {"live", "over"}
         \/ match[id] = "live" /\ m = "over"
  PROVE  Promise!Next
<1>1. \A j \in Ids : match'[j] = IF j = id THEN m ELSE match[j]
  BY DEF Inv, TypeOK
<1>2. \A j \in Ids \ {id} : Stage(j)' = Stage(j)
  BY <1>1 DEF Stage
<1>3. \/ Stage(id) = "agreed" /\ Stage(id)' \in {"playing", "over"}
      \/ Stage(id) = "playing" /\ Stage(id)' = "over"
  BY <1>1 DEF Stage
<1>4. Promise!Begin(id) \/ Promise!Finish(id)
  BY <1>2, <1>3, Moves DEF Promise!Begin, Promise!Finish
<1> QED BY <1>4 DEF Promise!Next

LEMMA Accepts ==
  ASSUME Inv, NEW id \in Ids, match' = match, Pending(id),
         challenge' = [challenge EXCEPT ![id].status = "accepted"]
  PROVE  Promise!Next
<1> DEFINE new == [challenge[id] EXCEPT !.status = "accepted"]
<1>1. /\ new.status = "accepted"
      /\ new.challenger = challenge[id].challenger /\ new.opponent = challenge[id].opponent
  BY DEF Inv, TypeOK, ChallengeRow, NoChallenge, Pending
<1>2. challenge' = [challenge EXCEPT ![id] = new]
  BY DEF Inv, TypeOK
<1> HIDE DEF new
<1>3. \A j \in Ids : challenge'[j] = IF j = id THEN new ELSE challenge[j]
  BY <1>2 DEF Inv, TypeOK
<1>4. Stage(id) = "offered" /\ match[id] \notin {"live", "over"}
  BY StageTells DEF Inv, DuelsAreAgreed, Pending
<1>5. Stage(id)' = "agreed" /\ \A j \in Ids \ {id} : Stage(j)' = Stage(j)
  BY <1>1, <1>3, <1>4 DEF Stage
<1>6. \A j \in Ids : PairOf(j)' = PairOf(j)
  BY <1>1, <1>3 DEF PairOf
<1>7. Promise!Move(id, "offered", "agreed")
  BY <1>4, <1>5, Moves
<1>8. Promise!Agree(id)
  BY <1>6, <1>7 DEF Promise!Agree, PairOf
<1> QED BY <1>8 DEF Promise!Next

LEMMA Offers ==
  ASSUME Inv, NEW id \in Ids, NEW p \in Players, NEW q \in Players, NEW c, p # q, match' = match,
         challenge[id].status = "none",
         challenge' = [challenge EXCEPT ![id] = c],
         c.status = "pending", c.challenger = p, c.opponent = q,
         \A j \in Ids : ~(Pending(j) /\ SamePair(j, p, q))
  PROVE  Promise!Next
<1>1. \A j \in Ids : challenge'[j] = IF j = id THEN c ELSE challenge[j]
  BY DEF Inv, TypeOK
<1>2. Stage(id) = "none" /\ match[id] \notin {"live", "over"}
  BY StageTells DEF Inv, DuelsAreAgreed
<1>3. Stage(id)' = "offered" /\ \A j \in Ids \ {id} : Stage(j)' = Stage(j)
  BY <1>1, <1>2 DEF Stage
<1>4. Promise!Move(id, "none", "offered")
  BY <1>2, <1>3, Moves
<1>5. PairOf(id)' = {p, q} /\ \A j \in Ids \ {id} : PairOf(j)' = PairOf(j)
  BY <1>1, ChallengeAssumption DEF PairOf
<1>6. ASSUME NEW j \in Ids, Stage(j) = "offered" PROVE PairOf(j) # {p, q}
  <2>1. Pending(j) /\ {challenge[j].challenger, challenge[j].opponent} # {p, q}
    BY <1>6, StageTells DEF SamePair
  <2>2. challenge[j].challenger \in Players /\ challenge[j].opponent \in Players
    BY <2>1 DEF Inv, TypeOK, ChallengeRow, NoChallenge, Pending
  <2> QED BY <2>1, <2>2, ChallengeAssumption DEF PairOf
<1> DEFINE pairs == [j \in Ids |-> PairOf(j)]
<1>7. [j \in Ids |-> PairOf(j)'] = [pairs EXCEPT ![id] = {p, q}]
  BY <1>5
<1>8. Promise!Offer(id)
  BY <1>4, <1>6, <1>7 DEF Promise!Offer, PairOf
<1> QED BY <1>8 DEF Promise!Next

Implements == [Promise!Next]_(Promise!agreements)

LEMMA DocumentsImplement ==
  ASSUME Inv,
         \/ Tick \/ LobbyChallenges \/ \E p \in Humans : JoinRoster(p)
         \/ \E id \in Ids : CancelChallenge(id) \/ DeclineChallenge(id) \/ MatchOver(id) \/ CancelStaged(id)
  PROVE  Implements
<1>1. CASE Tick \/ \E p \in Humans : JoinRoster(p)
  <2>1. UNCHANGED <<challenge, match>>
    BY <1>1 DEF Tick, JoinRoster, store
  <2> QED BY <2>1, StaysSame DEF Implements
<1>2. CASE LobbyChallenges
  <2> DEFINE new(id) == [challenge[id] EXCEPT !.status = "expired"]
  <2>1. /\ challenge' = [id \in Ids |-> IF Pending(id) /\ ~Fresh(id, now) THEN new(id) ELSE challenge[id]]
        /\ match' = match
    BY <1>2 DEF LobbyChallenges
  <2>2. \A id \in Ids : Pending(id) =>
          /\ new(id).status = "expired"
          /\ new(id).challenger = challenge[id].challenger /\ new(id).opponent = challenge[id].opponent
    BY DEF Inv, TypeOK, ChallengeRow, NoChallenge, Pending
  <2> HIDE DEF new
  <2> QED BY <2>1, <2>2, Withdraws DEF Implements
<1>3. ASSUME NEW id \in Ids, CancelChallenge(id) \/ DeclineChallenge(id) PROVE Implements
  <2>1. PICK s \in {"cancelled", "declined"} : Resolve(id, s)
    BY <1>3 DEF CancelChallenge, DeclineChallenge
  <2>2. Pending(id) /\ challenge[id] \in ChallengeRow
    BY <1>3 DEF CancelChallenge, DeclineChallenge, Inv, TypeOK, NoChallenge, Pending
  <2> DEFINE settled == [challenge[id] EXCEPT !.status = s]
             new == [settled EXCEPT !.cooldownUntil = now + ChallengeCooldown]
  <2>3. challenge' = [challenge EXCEPT ![id] = new] /\ match' = match
    BY <2>1 DEF Resolve, Inv, TypeOK
  <2>4. /\ new.status = s /\ new.challenger = challenge[id].challenger
        /\ new.opponent = challenge[id].opponent
    BY <2>2 DEF ChallengeRow
  <2> HIDE DEF settled, new
  <2>5. \A j \in Ids : challenge'[j] = IF j = id THEN new ELSE challenge[j]
    BY <2>3 DEF Inv, TypeOK
  <2>6. Promise!Next
    BY <2>2, <2>3, <2>4, <2>5, Withdraws
  <2> QED BY <2>6 DEF Implements
<1>4. ASSUME NEW id \in Ids, MatchOver(id) PROVE Implements
  <2>1. challenge[id].status = "accepted"
    BY <1>4 DEF Inv, DuelsAreAgreed, MatchOver
  <2> QED BY <1>4, <2>1, MatchMoves DEF MatchOver, Implements
<1>5. ASSUME NEW id \in Ids, CancelStaged(id) PROVE Implements
  <2>1. \A j \in Ids : \/ match'[j] = match[j]
                       \/ match[j] \notin {"live", "over"} /\ match'[j] \notin {"live", "over"}
    BY <1>5 DEF CancelStaged, Inv, TypeOK
  <2> QED BY <1>5, <2>1, StaysSame DEF CancelStaged, Implements
<1> QED BY <1>1, <1>2, <1>3, <1>4, <1>5

LEMMA RequestsImplement ==
  ASSUME Inv, NEW w \in Workers,
         StartLeave(w) \/ StartCreate(w) \/ Step(w) \/ Abort(w) \/ \E id \in Ids : StartAccept(w, id)
  PROVE  Implements
<1> DEFINE id == req[w].id
<1>1. CASE \/ StartLeave(w) \/ StartCreate(w) \/ Abort(w) \/ \E x \in Ids : StartAccept(w, x)
           \/ CreateRead(w) \/ CreateFind(w) \/ CreateWinner(w)
           \/ AcceptGet(w) \/ AcceptMatch(w) \/ AcceptBusy(w) \/ AcceptListed(w)
           \/ AcceptCanonical(w) \/ AcceptFind(w)
  <2>1. UNCHANGED <<challenge, match>>
    BY <1>1 DEF StartLeave, StartCreate, Abort, StartAccept, CreateRead, CreateFind, CreateWinner,
                AcceptGet, AcceptMatch, AcceptBusy, AcceptListed, AcceptCanonical, AcceptFind, store
  <2> QED BY <2>1, StaysSame DEF Implements
<1>2. CASE LeavePending(w)
  <2> DEFINE new(x) == [challenge[x] EXCEPT !.status = "cancelled"]
  <2>1. /\ challenge' = [x \in Ids |-> IF Pending(x) /\ Plays(req[w].who, x) THEN new(x) ELSE challenge[x]]
        /\ match' = match
    BY <1>2 DEF LeavePending, LeaveChallenges
  <2>2. \A x \in Ids : Pending(x) =>
          /\ new(x).status = "cancelled"
          /\ new(x).challenger = challenge[x].challenger /\ new(x).opponent = challenge[x].opponent
    BY DEF Inv, TypeOK, ChallengeRow, NoChallenge, Pending
  <2> HIDE DEF new
  <2> QED BY <2>1, <2>2, Withdraws DEF Implements
<1>3. CASE CreateInsert(w)
  <2>1. CASE UNCHANGED challenge
    BY <1>3, <2>1, StaysSame DEF CreateInsert, Implements
  <2>2. CASE challenge' # challenge
    <3> DEFINE p == req[w].who
               q == req[w].rival
               c == [status |-> "pending", challenger |-> p, opponent |-> q,
                     createdAt |-> at[w], cooldownUntil |-> NoTime]
    <3>1. p \in Players /\ q \in Players /\ p # q
      BY <1>3 DEF CreateInsert, Inv, Equipped, CreateLabels
    <3>2. PICK x \in Ids : challenge[x].status = "none" /\ challenge' = [challenge EXCEPT ![x] = c]
      BY <1>3, <2>2 DEF CreateInsert
    <3>3. match' = match /\ \A j \in Ids : ~(Pending(j) /\ SamePair(j, p, q))
      BY <1>3, <2>2 DEF CreateInsert
    <3>4. c.status = "pending" /\ c.challenger = p /\ c.opponent = q
      OBVIOUS
    <3> HIDE DEF p, q, c
    <3>5. Promise!Next
      BY <3>1, <3>2, <3>3, <3>4, Offers
    <3> QED BY <3>5 DEF Implements
  <2> QED BY <2>1, <2>2
<1>4. CASE AcceptInsert(w) \/ AcceptCleanup(w)
  <2>1. \A j \in Ids : \/ match'[j] = match[j]
                       \/ match[j] \notin {"live", "over"} /\ match'[j] \notin {"live", "over"}
    BY <1>4 DEF AcceptInsert, AcceptCleanup, Inv, TypeOK
  <2> QED BY <1>4, <2>1, StaysSame DEF AcceptInsert, AcceptCleanup, Implements
<1>5. CASE AcceptCas(w)
  <2>1. id \in Ids /\ match' = match
    BY <1>5 DEF AcceptCas, Inv, Equipped, AcceptLabels
  <2>2. \/ UNCHANGED challenge
        \/ Pending(id) /\ challenge' = [challenge EXCEPT ![id].status = "accepted"]
    BY <1>5 DEF AcceptCas
  <2> HIDE DEF id
  <2> QED BY <2>1, <2>2, StaysSame, Accepts DEF Implements
<1>6. CASE AcceptActivate(w)
  <2> DEFINE m == CASE match[id] = "staged" -> "live" [] match[id] = "void" -> "over"
                    [] OTHER -> match[id]
  <2>1. /\ id \in Ids /\ challenge' = challenge /\ challenge[id].status = "accepted"
        /\ match' = [match EXCEPT ![id] = m]
    BY <1>6 DEF AcceptActivate, Inv, TypeOK, Equipped, Committed, AcceptLabels
  <2>2. m = match[id] \/ (match[id] \notin {"live", "over"} /\ m \in {"live", "over"})
    OBVIOUS
  <2> HIDE DEF m, id
  <2>3. CASE m = match[id]
    <3>1. match' = match
      BY <2>1, <2>3 DEF Inv, TypeOK
    <3> QED BY <2>1, <3>1, StaysSame DEF Implements
  <2> QED BY <2>1, <2>2, <2>3, MatchMoves DEF Implements
<1> QED BY <1>1, <1>2, <1>3, <1>4, <1>5, <1>6 DEF Step

\* The handlers and stores of challenges implement agreements made in one step:
\* what players can see of their challenges and duels could have come about
\* without concurrent requests, staged matches or crashes.
THEOREM Agreements == Spec => ImplementsAgreement
<1>1. Init => Promise!Init
  <2> SUFFICES ASSUME Init PROVE Promise!Init
    OBVIOUS
  <2>1. \A id \in Ids : Stage(id) = "none" /\ PairOf(id) = {}
    BY DEF Init, Stage, PairOf, NoChallenge
  <2> QED BY <2>1 DEF Promise!Init, PairOf
<1>2. Inv /\ [Next]_vars => [Promise!Next]_(Promise!agreements)
  <2> SUFFICES ASSUME Inv, [Next]_vars PROVE Implements
    BY DEF Implements
  <2>1. CASE UNCHANGED vars
    BY <2>1, StaysSame DEF vars, store, Implements
  <2>2. CASE Next
    BY <2>2, DocumentsImplement, RequestsImplement DEF Next
  <2> QED BY <2>1, <2>2
<1> QED BY InvInductive, <1>1, <1>2, PTL DEF Spec, ImplementsAgreement, Promise!Spec
=============================================================================
