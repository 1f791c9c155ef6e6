------------------------------ MODULE PvpRating ------------------------------
(***************************************************************************)
(* The settlement of finished duels on the players' accounts               *)
(* (backend-go/internal/pvprating and pulse/rating_store.go).              *)
(*                                                                         *)
(* A duel carries the ratings its players had in the roster when the       *)
(* challenge was created.  Every handler that finds the duel finished      *)
(* settles it: one guarded update of White's account, then one of Black's, *)
(* with no transaction around them.  That the row of a finished duel is    *)
(* final is shown in PvpMatch (TerminalIsFinal).                           *)
(***************************************************************************)
EXTENDS Integers, FiniteSets, Sequences

CONSTANTS
  Players, Matches,
  White, Black,        \* who plays a match
  Rated,               \* the matches that count (none against synthetic rivals)
  Outcomes,            \* the results a match may end with
  InitialRatings,      \* stored ratings of the accounts, NoRating included
  Workers              \* concurrent requests

NoRating == 0          \* the account has no pvp_rating field
DefaultRating == 400
MinRating == 100
MaxRating == 10000
EloK == 32
Results == {"1-0", "0-1", "1/2-1/2"}

ASSUME MatchesAssumption ==
  /\ White \in [Matches -> Players] /\ Black \in [Matches -> Players]
  /\ \A m \in Matches : White[m] # Black[m]
  /\ Rated \subseteq Matches
  /\ Outcomes \in [Matches -> SUBSET Results]
  /\ InitialRatings \subseteq {NoRating} \cup (MinRating .. MaxRating)
  /\ "none" \notin Matches

VARIABLES
  users,     \* users: pvp_rating, pvp_last_settled_match, pvp_rating_games
  roster,    \* pvp_roster: the rating shown in the lobby, or NoRating
  duel,      \* the match rows: status, result, both rating snapshots
  pc, job    \* per request: the account it updates next, and the match

vars == <<users, roster, duel, pc, job>>

-----------------------------------------------------------------------------
\* Mutant: no floor under a rating.
Normalize_NoFloor(value) ==
  IF value = NoRating THEN DefaultRating ELSE IF value > MaxRating THEN MaxRating ELSE value

Normalize(value) ==
  LET v == IF value = NoRating THEN DefaultRating ELSE value
  IN IF v < MinRating THEN MinRating ELSE IF v > MaxRating THEN MaxRating ELSE v

\* EloK times the expected score of a player who is `diff` points stronger,
\* rounded: 16 points for equals, one more at each of these differences.  (No
\* difference is a tie for RoundToEven, so rounding the points and rounding the
\* new rating is the same.)
EloSteps == <<11, 33, 55, 78, 101, 125, 150, 177, 206, 238, 274, 315, 365, 429, 524, 720>>
ExpectedPoints[diff \in Int] ==
  16 + Cardinality({i \in DOMAIN EloSteps : diff >= EloSteps[i]})
     - Cardinality({i \in DOMAIN EloSteps : -diff >= EloSteps[i]})

ScorePoints(result) == CASE result = "1-0"     -> EloK
                         [] result = "0-1"     -> 0
                         [] result = "1/2-1/2" -> EloK \div 2

\* What White gains, Black loses, up to the bounds on a rating.
NextRatings(white, black, result) ==
  LET change == ScorePoints(result) - ExpectedPoints[white - black]
  IN [white |-> Normalize(white + change), black |-> Normalize(black - change)]

\* Mutant: the filter does not exclude an account that settled this match.
RatingUpdateFilter_NoLast(user, m, expected) ==
  Normalize(user.rating) = expected

\* The account still has the rating the duel was made with, and this match is
\* not the last it settled.  An absent rating is the default one.
RatingUpdateFilter(user, m, expected) ==
  /\ user.last # m
  /\ user.rating = expected \/ (expected = DefaultRating /\ user.rating = NoRating)

RatingUpdate(user, m, next) ==
  [rating |-> Normalize(next), last |-> m, games |-> user.games + 1]

-----------------------------------------------------------------------------
Init ==
  /\ users \in [Players -> [rating : InitialRatings, last : {"none"}, games : {0}]]
  /\ roster = [p \in Players |-> NoRating]
  /\ duel = [m \in Matches |-> [status |-> "none", result |-> "none",
                                white |-> NoRating, black |-> NoRating]]
  /\ pc = [w \in Workers |-> "idle"]
  /\ job = [w \in Workers |-> "none"]

Plays(p, m) == p \in {White[m], Black[m]}
Busy(p) == \E m \in Matches : Plays(p, m) /\ duel[m].status = "playing"

\* JoinRoster copies the account's rating.
JoinRoster(p) ==
  /\ roster' = [roster EXCEPT ![p] = Normalize(users[p].rating)]
  /\ UNCHANGED <<users, duel, pc, job>>

\* A challenge takes both ratings from the roster (the checks that lead to it,
\* and the acceptance saga, are PvpChallenge's).
CreateChallenge(m) ==
  /\ duel[m].status = "none"
  /\ \A p \in {White[m], Black[m]} : roster[p] # NoRating /\ ~Busy(p)
  /\ duel' = [duel EXCEPT ![m] = [@ EXCEPT !.status = "pending",
                !.white = roster[White[m]], !.black = roster[Black[m]]]]
  /\ UNCHANGED <<users, roster, pc, job>>

\* LeaveRoster deletes the row and cancels the pending challenges.
Leave(gone, rows) ==
  /\ roster' = [p \in Players |-> IF p \in gone THEN NoRating ELSE roster[p]]
  /\ duel' = [m \in Matches |->
                IF rows[m].status = "pending" /\ \E p \in gone : Plays(p, m)
                  THEN [rows[m] EXCEPT !.status = "cancelled"] ELSE rows[m]]

LeaveRoster(p) ==
  /\ Leave({p}, duel)
  /\ UNCHANGED <<users, pc, job>>

\* The challenge is accepted and both confirm.  Activation then takes both out
\* of the roster; an error there is ignored, so it may fail for either.
Activate(m) ==
  /\ duel[m].status = "pending"
  /\ \A p \in {White[m], Black[m]} : ~Busy(p)
  /\ \E gone \in SUBSET {White[m], Black[m]} :
       Leave(gone, [duel EXCEPT ![m].status = "playing"])
  /\ UNCHANGED <<users, pc, job>>

\* The duel ends with a result, on the board or otherwise (PvpMatch).
Finish(m, result) ==
  /\ duel[m].status = "playing"
  /\ duel' = [duel EXCEPT ![m].status = "finished", ![m].result = result]
  /\ UNCHANGED <<users, roster, pc, job>>

\* A read, move or resignation has the finished duel in hand: Settle.
Settle(w, m) ==
  /\ pc[w] = "idle"
  /\ duel[m].status = "finished" /\ m \in Rated
  /\ pc' = [pc EXCEPT ![w] = "white"]
  /\ job' = [job EXCEPT ![w] = m]
  /\ UNCHANGED <<users, roster, duel>>

\* ApplyRating on one account.  On a miss it only looks whether this match was
\* settled already, which no caller of Settle makes use of.
ApplyRating(p, m, expected, next) ==
  /\ users' = IF RatingUpdateFilter(users[p], m, expected)
                THEN [users EXCEPT ![p] = RatingUpdate(@, m, next)] ELSE users
  /\ UNCHANGED <<roster, duel>>

ApplyWhite(w) ==
  /\ pc[w] = "white"
  /\ LET m == job[w]  d == duel[m]
     IN ApplyRating(White[m], m, Normalize(d.white),
          NextRatings(Normalize(d.white), Normalize(d.black), d.result).white)
  /\ pc' = [pc EXCEPT ![w] = "black"]
  /\ UNCHANGED job

\* Mutant: Black is rated with White's numbers.
ApplyBlack_Swapped(w) ==
  /\ pc[w] = "black"
  /\ LET m == job[w]  d == duel[m]
     IN ApplyRating(Black[m], m, Normalize(d.black),
          NextRatings(Normalize(d.white), Normalize(d.black), d.result).white)
  /\ pc' = [pc EXCEPT ![w] = "idle"]
  /\ job' = [job EXCEPT ![w] = "none"]

\* Mutant: Black's account is checked against White's rating.
ApplyBlack_WrongExpected(w) ==
  /\ pc[w] = "black"
  /\ LET m == job[w]  d == duel[m]
     IN ApplyRating(Black[m], m, Normalize(d.white),
          NextRatings(Normalize(d.white), Normalize(d.black), d.result).black)
  /\ pc' = [pc EXCEPT ![w] = "idle"]
  /\ job' = [job EXCEPT ![w] = "none"]

ApplyBlack(w) ==
  /\ pc[w] = "black"
  /\ LET m == job[w]  d == duel[m]
     IN ApplyRating(Black[m], m, Normalize(d.black),
          NextRatings(Normalize(d.white), Normalize(d.black), d.result).black)
  /\ pc' = [pc EXCEPT ![w] = "idle"]
  /\ job' = [job EXCEPT ![w] = "none"]

\* The store fails or the process dies before the next update.
Abort(w) ==
  /\ pc[w] # "idle"
  /\ pc' = [pc EXCEPT ![w] = "idle"]
  /\ job' = [job EXCEPT ![w] = "none"]
  /\ UNCHANGED <<users, roster, duel>>

Next ==
  \/ \E p \in Players : JoinRoster(p) \/ LeaveRoster(p)
  \/ \E m \in Matches : CreateChallenge(m) \/ Activate(m) \/ \E r \in Outcomes[m] : Finish(m, r)
  \/ \E w \in Workers : (\E m \in Matches : Settle(w, m)) \/ ApplyWhite(w) \/ ApplyBlack(w) \/ Abort(w)

Spec == Init /\ [][Next]_vars

\* A finished duel is read again (its players' clients poll it), and of the
\* updates that are tried again and again some reach the store.
Fairness ==
  /\ \A m \in Rated : SF_vars(\E w \in Workers : Settle(w, m))
  /\ SF_vars(\E w \in Workers : ApplyWhite(w))
  /\ SF_vars(\E w \in Workers : ApplyBlack(w))

FairSpec == Spec /\ Fairness

-----------------------------------------------------------------------------
\* Every variable holds a value of its kind.
TypeOK ==
  /\ users \in [Players -> [rating : {NoRating} \cup (MinRating .. MaxRating),
                            last : Matches \cup {"none"}, games : Nat]]
  /\ roster \in [Players -> {NoRating} \cup (MinRating .. MaxRating)]
  /\ duel \in [Matches -> [status : {"none", "pending", "cancelled", "playing", "finished"},
                           result : Results \cup {"none"},
                           white : {NoRating} \cup (MinRating .. MaxRating),
                           black : {NoRating} \cup (MinRating .. MaxRating)]]
  /\ pc \in [Workers -> {"idle", "white", "black"}]
  /\ job \in [Workers -> Matches \cup {"none"}]

FinishedOf(p) == {m \in Rated : Plays(p, m) /\ duel[m].status = "finished"}

CountedOnce(p) == users[p].games <= Cardinality(FinishedOf(p))

\* No account counts a duel it did not finish, or one twice, however many
\* requests settle it and wherever they stop.
AtMostOnce == \A p \in Players : CountedOnce(p)

\* The two updates have no transaction, yet each account is either untouched
\* or carries exactly the rating the result gives it: half a settlement is
\* never a wrong one.
RatedByTheResult ==
  \A p \in Players : \A m \in FinishedOf(p) :
    users[p].last = m =>
      LET d == duel[m]
          next == NextRatings(Normalize(d.white), Normalize(d.black), d.result)
      IN users[p].rating = IF p = White[m] THEN next.white ELSE next.black

\* The points that a result gives p, out of EloK.
Score(p, m) ==
  IF p = White[m] THEN ScorePoints(duel[m].result) ELSE EloK - ScorePoints(duel[m].result)

\* Whatever the ratings of a duel were when it was agreed, its settlement moves
\* an account from the rating that it has now, by EloK points at most, never down
\* for a win nor up for a loss, and for a draw never away from the rival
\* (NextRatings with the condition on the rating in ApplyRating).
PointsFollowTheResult ==
  [][\A p \in Players : users'[p] # users[p] =>
       LET m == users'[p].last
           before == Normalize(users[p].rating)
           after == users'[p].rating
           rival == Normalize(IF p = White[m] THEN duel[m].black ELSE duel[m].white)
       IN /\ after - before \in -EloK .. EloK
          /\ Score(p, m) = EloK => after >= before
          /\ Score(p, m) = 0 => after <= before
          /\ Score(p, m) = EloK \div 2 =>
               /\ before >= rival => after <= before
               /\ before <= rival => after >= before]_vars

\* Every finished duel is in the end counted on both accounts.
EventuallySettled ==
  \A p \in Players : []<>(users[p].games >= Cardinality(FinishedOf(p)))

=============================================================================
