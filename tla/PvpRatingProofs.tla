---------------------------- MODULE PvpRatingProofs ----------------------------
(***************************************************************************)
(* What settlement keeps for any players, duels and concurrent requests.    *)
(***************************************************************************)
EXTENDS PvpRating, FiniteSetTheorems, TLAPS

Ratings == MinRating .. MaxRating
Account == [rating : {NoRating} \cup Ratings, last : Matches \cup {"none"}, games : Nat]
Row == [status : {"none", "pending", "cancelled", "playing", "finished"},
        result : Results \cup {"none"},
        white : {NoRating} \cup Ratings, black : {NoRating} \cup Ratings]

\* A duel whose ratings and result change no more.
Over(d) == d.status = "finished" /\ d.result \in Results

Earned(p, m) ==
  LET d == duel[m]
      next == NextRatings(Normalize(d.white), Normalize(d.black), d.result)
  IN IF p = White[m] THEN next.white ELSE next.black

\* The rating of p that the duel was agreed with.
Mine(p, m) == Normalize(IF p = White[m] THEN duel[m].white ELSE duel[m].black)

\* What an account settled last is a duel of its player that is over, and its
\* rating is what that duel gives.
Settled(p) ==
  users[p].last # "none" =>
    /\ users[p].last \in Rated /\ Plays(p, users[p].last) /\ Over(duel[users[p].last])
    /\ users[p].rating = Earned(p, users[p].last)

IInv ==
  /\ TypeOK
  /\ \A m \in Matches : duel[m].status = "finished" => Over(duel[m])
  /\ \A w \in Workers : pc[w] # "idle" => job[w] \in Rated /\ Over(duel[job[w]])
  /\ \A p \in Players : Settled(p)

-----------------------------------------------------------------------------
LEMMA RatingsInt == \A v \in {NoRating} \cup Ratings : v \in Int
BY DEF Ratings, NoRating, MinRating, MaxRating

LEMMA NormalizeOK ==
  ASSUME NEW v \in Int
  PROVE  Normalize(v) \in Ratings /\ Normalize(Normalize(v)) = Normalize(v)
BY DEF Normalize, Ratings, NoRating, DefaultRating, MinRating, MaxRating

\* Between 0 and EloK points, half of them between equals, and no fewer for the
\* stronger.
LEMMA ExpectedOK ==
  ASSUME NEW diff \in Int
  PROVE  /\ ExpectedPoints[diff] \in 0 .. EloK
         /\ diff >= 0 => ExpectedPoints[diff] >= EloK \div 2
         /\ diff <= 0 => ExpectedPoints[diff] <= EloK \div 2
<1> DEFINE D == DOMAIN EloSteps
           A == {i \in D : diff >= EloSteps[i]}
           B == {i \in D : -diff >= EloSteps[i]}
<1>1. IsFiniteSet(D) /\ Cardinality(D) = 16
  <2>1. D = 1 .. 16
    BY DEF EloSteps
  <2>2. IsFiniteSet(1 .. 16) /\ Cardinality(1 .. 16) = 16
    <3>1. ASSUME NEW i \in Int, NEW j \in Int, i = 1, j = 16
          PROVE  IsFiniteSet(i .. j) /\ Cardinality(i .. j) = 16
      <4>1. IsFiniteSet(i .. j) /\ Cardinality(i .. j) = IF i > j THEN 0 ELSE j - i + 1
        BY FS_Interval
      <4>2. (IF i > j THEN 0 ELSE j - i + 1) = 16
        BY <3>1
      <4> QED BY <4>1, <4>2
    <3>2. 1 \in Int /\ 16 \in Int
      OBVIOUS
    <3> QED BY <3>1, <3>2, Zenon
  <2> QED BY <2>1, <2>2
<1>2. Cardinality(A) \in 0 .. 16 /\ Cardinality(B) \in 0 .. 16
  <2>1. A \subseteq D /\ B \subseteq D
    OBVIOUS
  <2> HIDE DEF A, B, D
  <2>2. IsFiniteSet(A) /\ Cardinality(A) <= Cardinality(D)
    BY <1>1, <2>1, FS_Subset
  <2>3. IsFiniteSet(B) /\ Cardinality(B) <= Cardinality(D)
    BY <1>1, <2>1, FS_Subset
  <2> QED BY <1>1, <2>2, <2>3, FS_CardinalityType
<1>3. \A i \in D : EloSteps[i] \in Nat \ {0}
  BY DEF EloSteps
<1>4. ExpectedPoints[diff] = 16 + Cardinality(A) - Cardinality(B)
  BY DEF ExpectedPoints
<1>5. diff <= 0 => A = {}
  <2> SUFFICES ASSUME diff <= 0, NEW i \in A PROVE FALSE
    OBVIOUS
  <2>1. EloSteps[i] \in Nat \ {0} /\ diff >= EloSteps[i]
    BY <1>3
  <2> QED BY <2>1
<1>6. diff >= 0 => B = {}
  <2> SUFFICES ASSUME diff >= 0, NEW i \in B PROVE FALSE
    OBVIOUS
  <2>1. EloSteps[i] \in Nat \ {0} /\ -diff >= EloSteps[i]
    BY <1>3
  <2> QED BY <2>1
<1> HIDE DEF A, B
<1>7. /\ diff <= 0 => Cardinality(A) = 0
      /\ diff >= 0 => Cardinality(B) = 0
  BY <1>5, <1>6, FS_EmptySet
<1>8. EloK = 32 /\ EloK \div 2 = 16
  BY DEF EloK
<1> QED BY <1>2, <1>4, <1>7, <1>8

LEMMA NextOK ==
  ASSUME NEW w \in Int, NEW b \in Int, NEW r \in Results
  PROVE  LET n == NextRatings(w, b, r)
         IN n.white \in Ratings /\ n.black \in Ratings
              /\ Normalize(n.white) = n.white /\ Normalize(n.black) = n.black
<1> DEFINE change == ScorePoints(r) - ExpectedPoints[w - b]
<1>1. ScorePoints(r) \in Int
  BY DEF ScorePoints, Results, EloK
<1>2. change \in Int
  <2>1. ExpectedPoints[w - b] \in Int
    BY ExpectedOK DEF EloK
  <2> QED BY <1>1, <2>1
<1> HIDE DEF change
<1>3. w + change \in Int /\ b - change \in Int
  BY <1>2
<1>4. NextRatings(w, b, r) = [white |-> Normalize(w + change), black |-> Normalize(b - change)]
  BY DEF NextRatings, change
<1> QED BY <1>3, <1>4, NormalizeOK

LEMMA TypeDef ==
  TypeOK <=> /\ users \in [Players -> Account]
             /\ roster \in [Players -> {NoRating} \cup Ratings]
             /\ duel \in [Matches -> Row]
             /\ pc \in [Workers -> {"idle", "white", "black"}]
             /\ job \in [Workers -> Matches \cup {"none"}]
BY DEF TypeOK, Account, Row, Ratings

LEMMA EarnedOK ==
  ASSUME TypeOK, NEW m \in Matches, NEW p \in Players, Over(duel[m])
  PROVE  Earned(p, m) \in Ratings /\ Normalize(Earned(p, m)) = Earned(p, m)
<1>1. duel[m] \in Row
  BY TypeDef
<1>2. duel[m].white \in Int /\ duel[m].black \in Int /\ duel[m].result \in Results
  BY <1>1, RatingsInt DEF Row, Over
<1>3. Normalize(duel[m].white) \in Int /\ Normalize(duel[m].black) \in Int
  BY <1>2, NormalizeOK, RatingsInt
<1> DEFINE n == NextRatings(Normalize(duel[m].white), Normalize(duel[m].black), duel[m].result)
<1>4. n.white \in Ratings /\ n.black \in Ratings
        /\ Normalize(n.white) = n.white /\ Normalize(n.black) = n.black
  BY <1>2, <1>3, NextOK
<1>5. Earned(p, m) = IF p = White[m] THEN n.white ELSE n.black
  BY DEF Earned
<1> HIDE DEF n
<1> QED BY <1>4, <1>5

-----------------------------------------------------------------------------
(* Steps on the duels: what is over stays as it is.                        *)

LEMMA DuelsChange ==
  ASSUME IInv, TypeOK', UNCHANGED <<users, pc, job>>,
         \A m \in Matches : /\ Over(duel[m]) => duel'[m] = duel[m]
                            /\ duel'[m].status = "finished" => Over(duel'[m])
  PROVE  IInv'
<1>1. \A w \in Workers : pc'[w] # "idle" => job'[w] \in Rated /\ Over(duel'[job'[w]])
  BY MatchesAssumption DEF IInv
<1>2. ASSUME NEW p \in Players PROVE Settled(p)'
  <2>1. Settled(p)
    BY DEF IInv
  <2>2. CASE users[p].last # "none"
    <3>1. users[p].last \in Matches /\ duel'[users[p].last] = duel[users[p].last]
      BY <2>1, <2>2, MatchesAssumption DEF Settled
    <3> QED BY <2>1, <2>2, <3>1 DEF Settled, Earned, Over, Plays
  <2> QED BY <2>2 DEF Settled
<1> QED BY <1>1, <1>2 DEF IInv, Over

LEMMA LeaveOK ==
  ASSUME IInv, NEW gone \in SUBSET Players, NEW rows \in [Matches -> Row], Leave(gone, rows),
         \A m \in Matches : /\ Over(duel[m]) => rows[m] = duel[m]
                            /\ rows[m].status = "finished" => Over(rows[m]),
         UNCHANGED <<users, pc, job>>
  PROVE  IInv'
<1>1. \A m \in Matches : [rows[m] EXCEPT !.status = "cancelled"] \in Row
  BY DEF Row
<1>2. duel' \in [Matches -> Row] /\ roster' \in [Players -> {NoRating} \cup Ratings]
  BY <1>1, TypeDef DEF Leave, IInv
<1>3. TypeOK'
  <2>1. /\ users \in [Players -> Account] /\ pc \in [Workers -> {"idle", "white", "black"}]
        /\ job \in [Workers -> Matches \cup {"none"}]
    BY TypeDef DEF IInv
  <2> QED BY <1>2, <2>1 DEF TypeOK, Account, Row, Ratings
<1>4. ASSUME NEW m \in Matches
      PROVE  /\ Over(duel[m]) => duel'[m] = duel[m]
             /\ duel'[m].status = "finished" => Over(duel'[m])
  <2>1. duel'[m] = IF rows[m].status = "pending" /\ \E p \in gone : Plays(p, m)
                     THEN [rows[m] EXCEPT !.status = "cancelled"] ELSE rows[m]
    BY DEF Leave
  <2>2. [rows[m] EXCEPT !.status = "cancelled"].status = "cancelled"
    BY DEF Row
  <2> QED BY <2>1, <2>2 DEF Over
<1> QED BY <1>3, <1>4, DuelsChange

LEMMA BusinessOK ==
  ASSUME IInv,
         \/ \E p \in Players : JoinRoster(p) \/ LeaveRoster(p)
         \/ \E m \in Matches : CreateChallenge(m) \/ Activate(m) \/ \E r \in Outcomes[m] : Finish(m, r)
  PROVE  IInv'
<1>0. /\ users \in [Players -> Account] /\ roster \in [Players -> {NoRating} \cup Ratings]
      /\ duel \in [Matches -> Row] /\ pc \in [Workers -> {"idle", "white", "black"}]
      /\ job \in [Workers -> Matches \cup {"none"}]
  BY TypeDef DEF IInv
<1>1. ASSUME NEW p \in Players, JoinRoster(p)
      PROVE  IInv'
  <2>1. users[p].rating \in Int
    BY <1>0, RatingsInt DEF Account
  <2>2. Normalize(users[p].rating) \in Ratings
    BY <2>1, NormalizeOK
  <2>3. TypeOK'
    BY <1>0, <1>1, <2>2 DEF JoinRoster, TypeOK, Account, Row, Ratings
  <2> QED BY <1>1, <2>3, DuelsChange DEF JoinRoster, IInv
<1>2. ASSUME NEW p \in Players, LeaveRoster(p)
      PROVE  IInv'
  BY <1>0, <1>2, LeaveOK DEF LeaveRoster, IInv
<1>3. ASSUME NEW m \in Matches, CreateChallenge(m)
      PROVE  IInv'
  <2> DEFINE d == [duel[m] EXCEPT !.status = "pending", !.white = roster[White[m]], !.black = roster[Black[m]]]
  <2>1. d \in Row /\ d.status = "pending"
    BY <1>0, MatchesAssumption DEF Row
  <2>2. duel' = [duel EXCEPT ![m] = d] /\ UNCHANGED <<users, roster, pc, job>> /\ duel[m].status = "none"
    BY <1>3 DEF CreateChallenge
  <2> HIDE DEF d
  <2>3. duel' \in [Matches -> Row]
    BY <1>0, <2>1, <2>2
  <2>4. TypeOK'
    BY <1>0, <2>2, <2>3 DEF TypeOK, Account, Row, Ratings
  <2>5. \A x \in Matches : /\ Over(duel[x]) => duel'[x] = duel[x]
                           /\ duel'[x].status = "finished" => Over(duel'[x])
    BY <1>0, <2>1, <2>2 DEF Over, IInv
  <2> QED BY <2>2, <2>4, <2>5, DuelsChange
<1>4. ASSUME NEW m \in Matches, Activate(m)
      PROVE  IInv'
  <2> DEFINE d == [duel[m] EXCEPT !.status = "playing"]
             rows == [duel EXCEPT ![m] = d]
  <2>1. d \in Row /\ d.status = "playing" /\ duel[m].status = "pending"
    BY <1>0, <1>4 DEF Row, Activate
  <2>2. PICK gone \in SUBSET {White[m], Black[m]} : Leave(gone, rows) /\ UNCHANGED <<users, pc, job>>
    BY <1>4 DEF Activate
  <2>3. gone \in SUBSET Players
    BY MatchesAssumption
  <2> HIDE DEF d
  <2>4. rows \in [Matches -> Row] /\ \A x \in Matches : /\ Over(duel[x]) => rows[x] = duel[x]
                                                        /\ rows[x].status = "finished" => Over(rows[x])
    BY <1>0, <2>1 DEF Over, IInv
  <2> HIDE DEF rows
  <2> QED BY <2>2, <2>3, <2>4, LeaveOK
<1>5. ASSUME NEW m \in Matches, NEW r \in Outcomes[m], Finish(m, r)
      PROVE  IInv'
  <2> DEFINE d == [duel[m] EXCEPT !.status = "finished", !.result = r]
  <2>1. r \in Results /\ duel[m].status = "playing"
    BY <1>5, MatchesAssumption DEF Finish
  <2>2. d \in Row /\ Over(d)
    BY <1>0, <2>1 DEF Row, Over
  <2>3. duel' = [duel EXCEPT ![m] = d] /\ UNCHANGED <<users, roster, pc, job>>
    BY <1>0, <1>5 DEF Finish, Row
  <2> HIDE DEF d
  <2>4. duel' \in [Matches -> Row]
    BY <1>0, <2>2, <2>3
  <2>5. TypeOK'
    BY <1>0, <2>3, <2>4 DEF TypeOK, Account, Row, Ratings
  <2>6. \A x \in Matches : /\ Over(duel[x]) => duel'[x] = duel[x]
                           /\ duel'[x].status = "finished" => Over(duel'[x])
    BY <1>0, <2>1, <2>2, <2>3 DEF Over, IInv
  <2> QED BY <2>3, <2>5, <2>6, DuelsChange
<1> QED BY <1>1, <1>2, <1>3, <1>4, <1>5

-----------------------------------------------------------------------------
(* Settlement.                                                             *)

LEMMA SettleOK ==
  ASSUME IInv, NEW w \in Workers,
         (\E m \in Matches : Settle(w, m)) \/ Abort(w)
  PROVE  IInv'
<1>0. /\ UNCHANGED <<users, roster, duel>> /\ pc \in [Workers -> {"idle", "white", "black"}]
      /\ job \in [Workers -> Matches \cup {"none"}]
  BY TypeDef DEF IInv, Settle, Abort
<1>1. pc' \in [Workers -> {"idle", "white", "black"}] /\ job' \in [Workers -> Matches \cup {"none"}]
  BY <1>0 DEF Settle, Abort
<1>2. TypeOK'
  BY <1>0, <1>1 DEF TypeOK, IInv
<1>3. \A x \in Workers : pc'[x] # "idle" => job'[x] \in Rated /\ Over(duel'[job'[x]])
  BY <1>0 DEF Settle, Abort, IInv
<1> QED BY <1>0, <1>2, <1>3 DEF IInv, Settled, Earned, Over, Plays

\* One guarded update, with the rating that the duel gives.
LEMMA AppliedOK ==
  ASSUME IInv, NEW p \in Players, NEW m \in Rated, Plays(p, m), Over(duel[m]),
         NEW expected, ApplyRating(p, m, expected, Earned(p, m))
  PROVE  users' \in [Players -> Account] /\ \A x \in Players : Settled(x)'
<1> DEFINE r == Earned(p, m)
           u == [rating |-> r, last |-> m, games |-> users[p].games + 1]
<1>0. m \in Matches /\ m # "none" /\ users \in [Players -> Account] /\ UNCHANGED <<roster, duel>>
  BY MatchesAssumption, TypeDef DEF IInv, ApplyRating
<1>1. r \in Ratings /\ Normalize(r) = r
  BY <1>0, EarnedOK DEF IInv
<1> HIDE DEF r
<1>2. RatingUpdate(users[p], m, r) = u
  BY <1>1 DEF RatingUpdate
<1>3. u \in Account
  BY <1>0, <1>1 DEF Account
<1>4. u.rating = r /\ u.last = m
  OBVIOUS
<1> HIDE DEF u
<1>5. users' = users \/ users' = [users EXCEPT ![p] = u]
  BY <1>2 DEF ApplyRating, r
<1>6. users' \in [Players -> Account]
  BY <1>0, <1>3, <1>5
<1>7. ASSUME NEW x \in Players PROVE Settled(x)'
  <2>1. CASE users'[x] = users[x]
    BY <1>0, <2>1 DEF IInv, Settled, Earned, Plays
  <2>2. CASE users'[x] # users[x]
    <3>1. x = p /\ users'[x] = u
      BY <1>0, <1>5, <2>2
    <3>2. Earned(p, m)' = r
      BY <1>0 DEF Earned, r
    <3> QED BY <1>0, <1>4, <3>1, <3>2 DEF Settled, Plays
  <2> QED BY <2>1, <2>2
<1> QED BY <1>6, <1>7

\* Each of the two updates is such a one.
LEMMA UpdateIsEarned ==
  ASSUME IInv, NEW w \in Workers, ApplyWhite(w) \/ ApplyBlack(w)
  PROVE  \E p \in Players, m \in Rated :
           /\ Plays(p, m) /\ Over(duel[m]) /\ m \in Matches
           /\ ApplyRating(p, m, Mine(p, m), Earned(p, m))
<1> DEFINE m == job[w]
           d == duel[m]
<1>1. m \in Rated /\ Over(d) /\ m \in Matches
  BY MatchesAssumption DEF IInv, ApplyWhite, ApplyBlack
<1>2. White[m] \in Players /\ Black[m] \in Players /\ White[m] # Black[m]
        /\ Plays(White[m], m) /\ Plays(Black[m], m)
  BY <1>1, MatchesAssumption DEF Plays
<1>3. CASE ApplyWhite(w)
  <2>1. ApplyRating(White[m], m, Mine(White[m], m), Earned(White[m], m))
    BY <1>3 DEF ApplyWhite, Earned, Mine
  <2> QED BY <1>1, <1>2, <2>1
<1>4. CASE ApplyBlack(w)
  <2>1. ApplyRating(Black[m], m, Mine(Black[m], m), Earned(Black[m], m))
    BY <1>2, <1>4 DEF ApplyBlack, Earned, Mine
  <2> QED BY <1>1, <1>2, <2>1
<1> QED BY <1>3, <1>4

LEMMA ApplyOK ==
  ASSUME IInv, NEW w \in Workers, ApplyWhite(w) \/ ApplyBlack(w)
  PROVE  IInv'
<1>1. users' \in [Players -> Account] /\ \A x \in Players : Settled(x)'
  BY UpdateIsEarned, AppliedOK
<1>2. /\ UNCHANGED <<roster, duel>> /\ pc \in [Workers -> {"idle", "white", "black"}]
      /\ job \in [Workers -> Matches \cup {"none"}]
  BY TypeDef DEF IInv, ApplyWhite, ApplyBlack, ApplyRating
<1>3. pc' \in [Workers -> {"idle", "white", "black"}] /\ job' \in [Workers -> Matches \cup {"none"}]
  BY <1>2 DEF ApplyWhite, ApplyBlack
<1>4. \A x \in Workers : pc'[x] # "idle" => job'[x] \in Rated /\ Over(duel'[job'[x]])
  BY <1>2 DEF ApplyWhite, ApplyBlack, IInv
<1>5. TypeOK'
  BY <1>1, <1>2, <1>3 DEF TypeOK, Account, Ratings, IInv
<1> QED BY <1>1, <1>2, <1>4, <1>5 DEF IInv, Over

LEMMA Starts == Init => IInv
<1> SUFFICES ASSUME Init PROVE IInv
  OBVIOUS
<1>1. users \in [Players -> Account]
  <2>1. InitialRatings \subseteq {NoRating} \cup Ratings
    BY MatchesAssumption DEF Ratings
  <2> QED BY <2>1 DEF Init, Account
<1>2. TypeOK
  BY <1>1, TypeDef DEF Init, Row
<1>3. \A p \in Players : users[p].last = "none"
  BY DEF Init
<1> QED BY <1>2, <1>3 DEF Init, IInv, Settled

LEMMA Steps == IInv /\ [Next]_vars => IInv'
<1>1. IInv /\ Next => IInv'
  BY BusinessOK, SettleOK, ApplyOK DEF Next
<1>2. IInv /\ UNCHANGED vars => IInv'
  BY DEF vars, IInv, TypeOK, Settled, Earned, Over, Plays
<1> QED BY <1>1, <1>2

\* Every field of the accounts, the roster and the match rows keeps its range:
\* no stored rating leaves 100 .. 10000 (pvprating.Normalize).
THEOREM RatingTypes == Spec => []TypeOK
<1>1. IInv => TypeOK
  BY DEF IInv
<1> QED BY Starts, Steps, <1>1, PTL DEF Spec

\* However the updates of any number of requests and duels interleave or stop
\* halfway, the account that settled a duel last has exactly the rating that
\* the duel gives it (ApplyRating's filter and update).
THEOREM RatingsAreEarned == Spec => []RatedByTheResult
<1>1. IInv => RatedByTheResult
  <2> SUFFICES ASSUME IInv, NEW p \in Players, NEW m \in FinishedOf(p), users[p].last = m
               PROVE  users[p].rating = Earned(p, m)
    BY DEF RatedByTheResult, Earned
  <2>1. m # "none"
    BY MatchesAssumption DEF FinishedOf
  <2> QED BY <2>1 DEF IInv, Settled
<1> QED BY Starts, Steps, <1>1, PTL DEF Spec

-----------------------------------------------------------------------------
(* What a result is worth.                                                 *)

\* The points follow the result, and the bounds on a rating do not turn them.
LEMMA PointsOK ==
  ASSUME NEW w \in Ratings, NEW b \in Ratings, NEW r \in Results
  PROVE  LET n == NextRatings(w, b, r)
         IN /\ n.white - w \in -EloK .. EloK /\ n.black - b \in -EloK .. EloK
            /\ r = "1-0" => n.white >= w /\ n.black <= b
            /\ r = "0-1" => n.white <= w /\ n.black >= b
            /\ r = "1/2-1/2" /\ w >= b => n.white <= w /\ n.black >= b
            /\ r = "1/2-1/2" /\ w <= b => n.white >= w /\ n.black <= b
<1> DEFINE e == ExpectedPoints[w - b]
           change == ScorePoints(r) - e
<1>0. w \in Int /\ b \in Int /\ w - b \in Int
  BY DEF Ratings, MinRating, MaxRating
<1>1. e \in 0 .. 32 /\ (w >= b => e >= 16) /\ (w <= b => e <= 16)
  <2>1. e \in 0 .. EloK /\ (w - b >= 0 => e >= EloK \div 2) /\ (w - b <= 0 => e <= EloK \div 2)
    BY <1>0, ExpectedOK
  <2> HIDE DEF e
  <2> QED BY <1>0, <2>1 DEF EloK
<1>2. ScorePoints(r) = IF r = "1-0" THEN 32 ELSE IF r = "0-1" THEN 0 ELSE 16
  BY DEF ScorePoints, Results, EloK
<1>3. NextRatings(w, b, r) = [white |-> Normalize(w + change), black |-> Normalize(b - change)]
  BY DEF NextRatings
<1> HIDE DEF e
<1>4. /\ change \in -32 .. 32
      /\ r = "1-0" => change >= 0
      /\ r = "0-1" => change <= 0
      /\ r = "1/2-1/2" /\ w >= b => change <= 0
      /\ r = "1/2-1/2" /\ w <= b => change >= 0
  BY <1>1, <1>2
<1> HIDE DEF change
<1>5. ASSUME NEW v \in Ratings, NEW c \in -32 .. 32
      PROVE  /\ Normalize(v + c) - v \in -32 .. 32
             /\ c >= 0 => Normalize(v + c) >= v
             /\ c <= 0 => Normalize(v + c) <= v
  <2>1. v \in 100 .. 10000 /\ v + c \in Int /\ v + c # 0
    BY DEF Ratings, MinRating, MaxRating
  <2> DEFINE x == v + c
  <2>2. Normalize(x) = IF x < 100 THEN 100 ELSE IF x > 10000 THEN 10000 ELSE x
    BY <2>1 DEF Normalize, NoRating, MinRating, MaxRating
  <2> HIDE DEF x
  <2>3. x = v + c
    BY DEF x
  <2> QED BY <2>1, <2>2, <2>3
<1>6. -change \in -32 .. 32 /\ b - change = b + (-change)
  BY <1>0, <1>4
<1>7. /\ Normalize(w + change) - w \in -32 .. 32
      /\ change >= 0 => Normalize(w + change) >= w
      /\ change <= 0 => Normalize(w + change) <= w
  BY <1>4, <1>5
<1>8. /\ Normalize(b - change) - b \in -32 .. 32
      /\ change >= 0 => Normalize(b - change) <= b
      /\ change <= 0 => Normalize(b - change) >= b
  <2>1. /\ Normalize(b + (-change)) - b \in -32 .. 32
        /\ -change >= 0 => Normalize(b + (-change)) >= b
        /\ -change <= 0 => Normalize(b + (-change)) <= b
    BY <1>5, <1>6
  <2> QED BY <1>4, <1>6, <2>1
<1>9. EloK = 32
  BY DEF EloK
<1> QED BY <1>3, <1>4, <1>7, <1>8, <1>9

\* What the step does to the account of p.
Follows(p) ==
  LET m == users'[p].last
      before == Normalize(users[p].rating)
      after == users'[p].rating
      rival == Normalize(IF p = White[m] THEN duel[m].black ELSE duel[m].white)
  IN /\ after - before \in -EloK .. EloK
     /\ Score(p, m) = EloK => after >= before
     /\ Score(p, m) = 0 => after <= before
     /\ Score(p, m) = EloK \div 2 =>
          /\ before >= rival => after <= before
          /\ before <= rival => after >= before

\* The filter lets through the account that still has the rating of the duel.
LEMMA FilterOK ==
  ASSUME NEW u \in Account, NEW m, NEW expected \in Ratings, RatingUpdateFilter(u, m, expected)
  PROVE  Normalize(u.rating) = expected
<1>1. Normalize(expected) = expected
  BY DEF Normalize, Ratings, NoRating, MinRating, MaxRating
<1>2. Normalize(NoRating) = DefaultRating
  BY DEF Normalize, NoRating, DefaultRating, MinRating, MaxRating
<1>3. u.rating = expected \/ (expected = DefaultRating /\ u.rating = NoRating)
  BY DEF RatingUpdateFilter
<1> QED BY <1>1, <1>2, <1>3

LEMMA AccountsFollow ==
  ASSUME IInv, [Next]_vars, NEW p \in Players, users'[p] # users[p]
  PROVE  Follows(p)
<1>1. PICK w \in Workers : ApplyWhite(w) \/ ApplyBlack(w)
  BY DEF Next, vars, JoinRoster, LeaveRoster, CreateChallenge, Activate, Finish, Settle, Abort
<1>2. PICK q \in Players, m \in Rated :
         /\ Plays(q, m) /\ Over(duel[m]) /\ m \in Matches
         /\ ApplyRating(q, m, Mine(q, m), Earned(q, m))
  BY <1>1, UpdateIsEarned
<1>3. users \in [Players -> Account] /\ duel \in [Matches -> Row]
  BY TypeDef DEF IInv
<1> DEFINE u == [rating |-> Normalize(Earned(q, m)), last |-> m, games |-> users[q].games + 1]
<1>4. RatingUpdateFilter(users[q], m, Mine(q, m)) /\ users' = [users EXCEPT ![q] = u]
  BY <1>2 DEF ApplyRating, RatingUpdate
<1>5. u.rating = Earned(q, m) /\ u.last = m
  BY <1>2, EarnedOK DEF IInv
<1> HIDE DEF u
<1>6. p = q /\ users'[p].last = m /\ users'[p].rating = Earned(p, m)
  BY <1>3, <1>4, <1>5
<1> DEFINE a == Normalize(duel[m].white)
           b == Normalize(duel[m].black)
           r == duel[m].result
           n == NextRatings(a, b, r)
<1>7. a \in Ratings /\ b \in Ratings /\ r \in Results
  <2>1. duel[m] \in Row
    BY <1>2, <1>3
  <2>2. duel[m].white \in Int /\ duel[m].black \in Int
    BY <2>1, RatingsInt DEF Row
  <2> QED BY <1>2, <2>2, NormalizeOK DEF Over
<1>8. /\ Mine(p, m) = IF p = White[m] THEN a ELSE b
      /\ Normalize(IF p = White[m] THEN duel[m].black ELSE duel[m].white) = IF p = White[m] THEN b ELSE a
      /\ Earned(p, m) = IF p = White[m] THEN n.white ELSE n.black
  BY DEF Mine, Earned
<1>9. Normalize(users[p].rating) = Mine(p, m)
  BY <1>3, <1>4, <1>6, <1>7, <1>8, FilterOK
<1>10. Score(p, m) = IF p = White[m] THEN ScorePoints(r) ELSE EloK - ScorePoints(r)
  BY DEF Score
<1>11. EloK = 32 /\ EloK \div 2 = 16 /\ ScorePoints(r) = IF r = "1-0" THEN 32 ELSE IF r = "0-1" THEN 0 ELSE 16
  BY <1>7 DEF ScorePoints, Results, EloK
<1>12. /\ n.white - a \in -EloK .. EloK /\ n.black - b \in -EloK .. EloK
       /\ r = "1-0" => n.white >= a /\ n.black <= b
       /\ r = "0-1" => n.white <= a /\ n.black >= b
       /\ r = "1/2-1/2" /\ a >= b => n.white <= a /\ n.black >= b
       /\ r = "1/2-1/2" /\ a <= b => n.white >= a /\ n.black <= b
  BY <1>7, PointsOK
<1>13. r = "1-0" \/ r = "0-1" \/ r = "1/2-1/2"
  BY <1>7 DEF Results
<1> HIDE DEF a, b, r, n
<1> QED BY <1>6, <1>8, <1>9, <1>10, <1>11, <1>12, <1>13 DEF Follows

\* A settlement moves an account from the rating that it has, by EloK points at
\* most, up for a win, down for a loss and towards the rival for a draw, for any
\* number of requests, duels and rosters (ApplyRating and NextRatings).
THEOREM PointsAreFair == Spec => PointsFollowTheResult
<1>1. IInv /\ [Next]_vars => [\A p \in Players : users'[p] # users[p] => Follows(p)]_vars
  BY AccountsFollow
<1> QED BY Starts, Steps, <1>1, PTL DEF Spec, PointsFollowTheResult, Follows

-----------------------------------------------------------------------------
(* The account remembers one duel.  A finished one counts again only when   *)
(* later ones bring back the rating that it was agreed with.                *)

\* The ratings go one way: some order of the duels that p finished puts a duel
\* that earned a rating before every other that was agreed with that rating.
Ranks(order, p) ==
  \A m, n \in FinishedOf(p) : m # n /\ Earned(p, m) = Mine(p, n) => order[m] < order[n]

NoWayBack(p) == \E order \in [Matches -> Nat] : Ranks(order, p)

\* The duels that come no later than the one settled last.
Reached(order, p) ==
  {m \in FinishedOf(p) : /\ users[p].last # "none"
                         /\ m = users[p].last \/ order[m] < order[users[p].last]}

AllFinished == {m \in Matches : duel[m].status = "finished"}

\* However the duels can be ranked, each settlement has gone up the order.
Walked ==
  /\ IsFiniteSet(AllFinished)
  /\ \A p \in Players, order \in [Matches -> Nat] :
       Ranks(order, p) => users[p].games <= Cardinality(Reached(order, p))

LEMMA FinishedFinite ==
  ASSUME IsFiniteSet(AllFinished), NEW p \in Players
  PROVE  /\ IsFiniteSet(FinishedOf(p)) /\ Cardinality(FinishedOf(p)) \in Nat
         /\ \A order : /\ IsFiniteSet(Reached(order, p)) /\ Cardinality(Reached(order, p)) \in Nat
                       /\ Cardinality(Reached(order, p)) <= Cardinality(FinishedOf(p))
<1>1. FinishedOf(p) \subseteq AllFinished
  BY MatchesAssumption DEF FinishedOf, AllFinished
<1>2. IsFiniteSet(FinishedOf(p))
  BY <1>1, FS_Subset
<1>3. ASSUME NEW order
      PROVE  /\ IsFiniteSet(Reached(order, p))
             /\ Cardinality(Reached(order, p)) <= Cardinality(FinishedOf(p))
  <2>1. Reached(order, p) \subseteq FinishedOf(p)
    BY DEF Reached
  <2> QED BY <1>2, <2>1, FS_Subset
<1> QED BY <1>2, <1>3, FS_CardinalityType

\* A step that leaves the accounts alone: duels only finish.
LEMMA DuelsWalk ==
  ASSUME IInv, Walked, users' = users,
         \A m \in Matches : duel[m].status = "finished" => duel'[m] = duel[m],
         \E m : AllFinished' \subseteq AllFinished \cup {m}
  PROVE  Walked'
<1>1. IsFiniteSet(AllFinished')
  <2>1. PICK m : AllFinished' \subseteq AllFinished \cup {m}
    OBVIOUS
  <2>2. IsFiniteSet(AllFinished \cup {m})
    BY FS_AddElement DEF Walked
  <2> QED BY <2>1, <2>2, FS_Subset
<1>2. ASSUME NEW p \in Players, NEW order \in [Matches -> Nat], Ranks(order, p)'
      PROVE  users'[p].games <= Cardinality(Reached(order, p)')
  <2>1. ASSUME NEW m \in FinishedOf(p)
        PROVE  m \in FinishedOf(p)' /\ Earned(p, m)' = Earned(p, m) /\ Mine(p, m)' = Mine(p, m)
    <3>1. duel'[m] = duel[m] /\ m \in Rated /\ Plays(p, m) /\ duel[m].status = "finished"
      BY MatchesAssumption DEF FinishedOf
    <3> QED BY <3>1 DEF FinishedOf, Plays, Earned, Mine
  <2>2. Ranks(order, p)
    BY <1>2, <2>1 DEF Ranks
  <2>3. Reached(order, p) \subseteq Reached(order, p)'
    BY <2>1 DEF Reached
  <2>4. IsFiniteSet(Reached(order, p)') /\ Cardinality(Reached(order, p)') \in Nat
    <3>1. FinishedOf(p)' \subseteq AllFinished'
      BY MatchesAssumption DEF FinishedOf, AllFinished
    <3>2. Reached(order, p)' \subseteq FinishedOf(p)'
      BY DEF Reached
    <3>3. Reached(order, p)' \subseteq AllFinished'
      BY <3>1, <3>2
    <3> QED BY <1>1, <3>3, FS_Subset, FS_CardinalityType
  <2>5. Cardinality(Reached(order, p)) <= Cardinality(Reached(order, p)')
    BY <2>3, <2>4, FS_Subset
  <2>6. users[p].games <= Cardinality(Reached(order, p)) /\ users[p].games \in Nat
    BY <2>2, TypeDef DEF Walked, IInv, Account
  <2>7. Cardinality(Reached(order, p)) \in Nat
    BY FinishedFinite DEF Walked
  <2> QED BY <2>4, <2>5, <2>6, <2>7
<1> QED BY <1>1, <1>2 DEF Walked

\* A settlement goes up the order: the account has the rating that the duel
\* settled last gave it, and the filter lets through only a duel agreed with
\* that rating.
LEMMA AppliedWalks ==
  ASSUME IInv, Walked,
         NEW p \in Players, NEW m \in Rated, m \in Matches, Plays(p, m), Over(duel[m]),
         ApplyRating(p, m, Mine(p, m), Earned(p, m))
  PROVE  Walked'
<1> DEFINE u == RatingUpdate(users[p], m, Earned(p, m))
<1>1. duel' = duel /\ AllFinished' = AllFinished
  BY DEF ApplyRating, AllFinished
<1>2. \A q \in Players : FinishedOf(q)' = FinishedOf(q)
  BY <1>1 DEF FinishedOf, Plays
<1>3. \A q \in Players, order \in [Matches -> Nat] : Ranks(order, q)' <=> Ranks(order, q)
  BY <1>1, <1>2 DEF Ranks, Earned, Mine
<1>4. users \in [Players -> Account]
  BY TypeDef DEF IInv
<1>5. users' = users \/ (RatingUpdateFilter(users[p], m, Mine(p, m)) /\ users' = [users EXCEPT ![p] = u])
  BY DEF ApplyRating
<1>6. u.last = m /\ u.games = users[p].games + 1
  BY DEF RatingUpdate
<1> HIDE DEF u
<1>7. ASSUME NEW q \in Players, NEW order \in [Matches -> Nat], Ranks(order, q)'
      PROVE  users'[q].games <= Cardinality(Reached(order, q)')
  <2>0. /\ users[q].games <= Cardinality(Reached(order, q)) /\ users[q].games \in Nat
        /\ IsFiniteSet(Reached(order, q)) /\ Cardinality(Reached(order, q)) \in Nat
    BY <1>3, <1>4, <1>7, FinishedFinite DEF Walked, Account
  <2>1. CASE users'[q] = users[q]
    <3>1. Reached(order, q)' = Reached(order, q)
      BY <1>2, <2>1 DEF Reached
    <3> QED BY <2>0, <2>1, <3>1
  <2>2. CASE users'[q] # users[q]
    <3> DEFINE l == users[p].last
               before == Reached(order, p)
               after == Reached(order, p)'
    <3>1. /\ q = p /\ users'[p] = u /\ l # m
          /\ users[p].rating = Mine(p, m) \/ users[p].rating = NoRating
      BY <1>4, <1>5, <2>2 DEF RatingUpdateFilter
    <3>2. m \in FinishedOf(p) /\ m # "none" /\ order[m] \in Nat
      BY MatchesAssumption DEF FinishedOf, Over
    <3>3. after = {x \in FinishedOf(p) : x = m \/ order[x] < order[m]}
      BY <1>2, <1>6, <3>1, <3>2 DEF Reached
    <3>4. m \in after
      BY <3>2, <3>3
    <3>5. IsFiniteSet(after) /\ Cardinality(after) \in Nat
      <4>1. after \subseteq FinishedOf(p)
        BY <3>3
      <4> QED BY <4>1, FinishedFinite, FS_Subset, FS_CardinalityType DEF Walked
    <3>6. m \notin before /\ before \subseteq after
      <4>1. CASE l = "none"
        BY <4>1 DEF Reached
      <4>2. CASE l # "none"
        <5>1. l \in FinishedOf(p) /\ users[p].rating = Earned(p, l)
          BY <4>2 DEF IInv, Settled, FinishedOf, Over
        <5>2. Earned(p, l) # NoRating
          <6>1. l \in Matches /\ Over(duel[l]) /\ Plays(p, l)
            BY <4>2, MatchesAssumption DEF IInv, Settled
          <6>2. Earned(p, l) \in Ratings
            BY <6>1, EarnedOK DEF IInv
          <6>3. NoRating \notin Ratings
            BY DEF Ratings, NoRating, MinRating, MaxRating
          <6> QED BY <6>2, <6>3
        <5>3. order[l] < order[m] /\ order[l] \in Nat
          BY <1>3, <1>7, <3>1, <3>2, <5>1, <5>2, MatchesAssumption DEF Ranks, FinishedOf
        <5>4. \A x \in FinishedOf(p) : order[x] \in Nat
          BY MatchesAssumption DEF FinishedOf
        <5>5. before = {x \in FinishedOf(p) : x = l \/ order[x] < order[l]}
          BY <4>2 DEF Reached
        <5> HIDE DEF before, after, l
        <5> QED BY <3>1, <3>2, <3>3, <5>3, <5>4, <5>5
      <4> QED BY <4>1, <4>2
    <3>7. /\ IsFiniteSet(before \cup {m})
          /\ Cardinality(before \cup {m}) = Cardinality(before) + 1
      BY <2>0, <3>1, <3>6, FS_AddElement
    <3>8. Cardinality(before \cup {m}) <= Cardinality(after)
      BY <3>4, <3>5, <3>6, FS_Subset
    <3> HIDE DEF before, after
    <3>9. users[p].games + 1 <= Cardinality(after)
      BY <2>0, <3>1, <3>5, <3>7, <3>8 DEF before
    <3> QED BY <1>6, <3>1, <3>9 DEF after
  <2> QED BY <2>1, <2>2
<1> QED BY <1>1, <1>7 DEF Walked

LEMMA Walks == IInv /\ Walked /\ [Next]_vars => Walked'
<1> SUFFICES ASSUME IInv, Walked, [Next]_vars PROVE Walked'
  OBVIOUS
<1> DEFINE Quiet == /\ users' = users
                    /\ \A m \in Matches : duel[m].status = "finished" => duel'[m] = duel[m]
                    /\ \E m : AllFinished' \subseteq AllFinished \cup {m}
<1>0. duel \in [Matches -> Row] /\ DOMAIN duel = Matches
  BY TypeDef DEF IInv
<1>1. ASSUME duel' = duel, users' = users PROVE Quiet
  BY <1>1 DEF AllFinished
<1>2. ASSUME NEW gone, NEW rows, NEW m \in Matches, Leave(gone, rows), users' = users,
             \A x \in Matches : x # m => rows[x] = duel[x],
             rows[m] = duel[m] \/ (duel[m].status # "finished" /\ rows[m].status # "finished")
      PROVE  Quiet
  BY <1>0, <1>2 DEF Leave, AllFinished
<1>3. ASSUME NEW p \in Players, JoinRoster(p) \/ LeaveRoster(p) PROVE Quiet
  <2>1. CASE JoinRoster(p)
    BY <1>1, <2>1 DEF JoinRoster
  <2>2. CASE LeaveRoster(p)
    BY <1>0, <2>2 DEF LeaveRoster, Leave, AllFinished
  <2> QED BY <1>3, <2>1, <2>2
<1>4. ASSUME NEW m \in Matches, CreateChallenge(m) PROVE Quiet
  BY <1>0, <1>4 DEF CreateChallenge, AllFinished
<1>5. ASSUME NEW m \in Matches, Activate(m) PROVE Quiet
  <2> DEFINE rows == [duel EXCEPT ![m].status = "playing"]
  <2>1. PICK gone \in SUBSET {White[m], Black[m]} : Leave(gone, rows)
    BY <1>5 DEF Activate
  <2>2. /\ users' = users /\ duel[m].status # "finished"
        /\ \A x \in Matches : x # m => rows[x] = duel[x]
        /\ rows[m].status # "finished"
    BY <1>0, <1>5 DEF Activate, Row
  <2> HIDE DEF rows
  <2> QED BY <1>2, <2>1, <2>2
<1>6. ASSUME NEW m \in Matches, NEW r, Finish(m, r) PROVE Quiet
  BY <1>0, <1>6 DEF Finish, AllFinished
<1>7. ASSUME NEW w \in Workers, (\E m \in Matches : Settle(w, m)) \/ Abort(w) PROVE Quiet
  BY <1>1, <1>7 DEF Settle, Abort
<1>8. ASSUME NEW w \in Workers, ApplyWhite(w) \/ ApplyBlack(w) PROVE Walked'
  BY <1>8, UpdateIsEarned, AppliedWalks
<1>9. CASE UNCHANGED vars
  BY <1>1, <1>9, DuelsWalk DEF vars
<1>10. Quiet => Walked'
  BY DuelsWalk
<1> HIDE DEF Quiet
<1> QED BY <1>3, <1>4, <1>5, <1>6, <1>7, <1>8, <1>9, <1>10 DEF Next

LEMMA WalkStarts == Init => Walked
<1> SUFFICES ASSUME Init PROVE Walked
  OBVIOUS
<1>1. AllFinished = {}
  BY DEF Init, AllFinished
<1>2. IsFiniteSet({}) /\ Cardinality({}) = 0
  BY FS_EmptySet
<1>3. ASSUME NEW p \in Players, NEW order \in [Matches -> Nat]
      PROVE  users[p].games <= Cardinality(Reached(order, p))
  <2>1. Reached(order, p) = {} /\ users[p].games = 0
    BY DEF Init, Reached
  <2> QED BY <1>2, <2>1
<1> QED BY <1>1, <1>2, <1>3 DEF Walked

\* However many duels an account has, how many requests settle them and where
\* they stop, the account counts none twice unless results bring back a rating
\* that a duel of it was agreed with (the single pvp_last_settled_match that the
\* filter of ApplyRating compares): if its finished duels can be put in an order
\* in which a duel comes before those agreed with the rating that it gave, the
\* games counted are at most the duels finished.  A win and then a loss, as in the
\* violation of AtMostOnce, have no such order; neither have two losses at the
\* floor or two draws between equals, where the rating never moves.
THEOREM OnlyAReturnCountsTwice ==
  Spec => [](\A p \in Players : NoWayBack(p) => CountedOnce(p))
<1>1. IInv /\ Walked => \A p \in Players : NoWayBack(p) => CountedOnce(p)
  <2> SUFFICES ASSUME IInv, Walked, NEW p \in Players, NEW order \in [Matches -> Nat], Ranks(order, p)
               PROVE  CountedOnce(p)
    BY DEF NoWayBack
  <2>1. users[p].games <= Cardinality(Reached(order, p)) /\ users[p].games \in Nat
    BY TypeDef DEF Walked, IInv, Account
  <2>2. /\ Cardinality(Reached(order, p)) \in Nat /\ Cardinality(FinishedOf(p)) \in Nat
        /\ Cardinality(Reached(order, p)) <= Cardinality(FinishedOf(p))
    BY FinishedFinite DEF Walked
  <2> QED BY <2>1, <2>2 DEF CountedOnce
<1> QED BY Starts, Steps, WalkStarts, Walks, <1>1, PTL DEF Spec

=============================================================================
