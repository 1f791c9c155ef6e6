--------------------------- MODULE GameLaunchProofs ---------------------------
(***************************************************************************)
(* What starting a game keeps, for any settings, draws, attempts and       *)
(* number of starts.                                                        *)
(***************************************************************************)
EXTENDS GameLaunch, TLAPS

Drawn == UNION {Draws(s) : s \in Settings}
Game == [key : StartKeys, setting : Settings, drawn : Drawn]
Kinds == {"waiting", "ok", "failed", "conflict"}

PostType == [n : Nat \ {0}, try : Nat, key : StartKeys, setting : Settings,
             st : {"sent", "ready"}, game : Game \cup {NoGame}]
LaunchType == [n : Nat \ {0}, key : StartKeys, setting : Settings, view : Views,
               tries : Nat, ans : Kinds, game : Game \cup {NoGame}]

Types ==
  /\ games \in [StartKeys -> Game \cup {NoGame}]
  /\ posts \subseteq PostType
  /\ dels \in [StartKeys -> {"none", "sent", "done"}]
  /\ client \in [view : Views, game : Game \cup {NoGame},
                 launch : LaunchType \cup {NoLaunch},
                 retry : [key : StartKeys, setting : Settings] \cup {NoKey}]
  /\ starts \in 0 .. MaxStarts
  /\ run \in [asked : Settings \cup {"none"}, keys : SUBSET StartKeys]

\* A game is stored under its own key; a prepared one is what was asked for.
Named ==
  /\ \A k \in StartKeys : games[k] # NoGame => games[k].key = k
  /\ \A p \in posts : p.st = "ready" =>
       p.game \in Game /\ p.game.key = p.key /\ p.game.setting = p.setting

\* An attempt that carries the number of the current start asks for its game.
Numbered ==
  /\ client.launch.n <= starts
  /\ \A p \in posts : p.n <= starts /\ (p.n = client.launch.n => p.key = client.launch.key)

\* What each key in use asks for.
AskedBy(k, s) ==
  \/ \E p \in posts : p.key = k /\ p.setting = s
  \/ k \in StartKeys /\ games[k] # NoGame /\ games[k].setting = s
  \/ client.retry # NoKey /\ client.retry = [key |-> k, setting |-> s]
  \/ client.launch # NoLaunch /\ client.launch.key = k /\ client.launch.setting = s

Agreed ==
  \A k, s : AskedBy(k, s) => k <= starts /\ \A t : AskedBy(k, t) => s = t

\* A game the page was given is the stored one, if its deletion was not asked.
Kept(g, d, stored) == g # NoGame => g \in Game /\ (d[g.key] = "none" => stored[g.key] = g)

Given ==
  /\ Kept(client.game, dels, games)
  /\ Kept(client.launch.game, dels, games)
  /\ client.launch.ans = "ok" =>
       client.launch.game # NoGame /\ client.launch.game.key = client.launch.key

\* All the starts of a run have the key that the page would use again.
OneKey ==
  /\ \A k, m \in run.keys : k = m
  /\ run.asked # "none" => client.retry.setting = run.asked /\ client.retry.key \in run.keys

IInv ==
  Types /\ Named /\ Numbered /\ Agreed /\ Given /\ OneKey /\ StartsNeverConflict

-----------------------------------------------------------------------------
LEMMA Nothing == 0 \notin StartKeys /\ NoGame \notin Game /\ NoLaunch \notin LaunchType
                 /\ NoKey \notin [key : StartKeys, setting : Settings]
BY LaunchAssumption DEF StartKeys, NoGame, Game, NoLaunch, LaunchType, NoKey

LEMMA InitOK == LaunchInit => IInv
<1> SUFFICES ASSUME LaunchInit PROVE IInv
  OBVIOUS
<1> USE DEF LaunchInit
<1>1. Types
  BY LaunchAssumption DEF Types, Views
<1>2. Named /\ Numbered /\ StartsNeverConflict
  BY Nothing DEF Named, Numbered, NoLaunch, StartsNeverConflict
<1>3. Agreed
  BY DEF Agreed, AskedBy
<1>4. Given /\ OneKey
  BY DEF Given, Kept, OneKey, NoLaunch
<1> QED BY <1>1, <1>2, <1>3, <1>4 DEF IInv

\* What the page knows after an answer.
LEMMA Answers ==
  ASSUME IInv, NEW p \in posts, NEW kind \in Kinds, NEW g \in Game \cup {NoGame},
         Answer(p, kind, g)
  PROVE  /\ posts' = posts \ {p}
         /\ client'.view = client.view /\ client'.game = client.game
         /\ client'.retry = client.retry
         /\ \/ client'.launch = client.launch
            \/ /\ client.launch \in LaunchType /\ client.launch.key = p.key
               /\ client'.launch = [client.launch EXCEPT !.ans = kind, !.game = g]
         /\ client' \in [view : Views, game : Game \cup {NoGame},
                         launch : LaunchType \cup {NoLaunch},
                         retry : [key : StartKeys, setting : Settings] \cup {NoKey}]
<1> USE DEF IInv, Types, Answer
<1>1. p \in PostType
  OBVIOUS
<1>2. CASE client' = client
  BY <1>2
<1>3. CASE client' # client
  <2>1. /\ client.launch.n = p.n /\ client.launch.ans = "waiting"
        /\ client' = [client EXCEPT !.launch.ans = kind, !.launch.game = g]
    BY <1>3
  <2>2. client.launch \in LaunchType
    BY <2>1 DEF NoLaunch
  <2>3. client.launch.key = p.key
    BY <2>1 DEF Numbered
  <2>4. client'.launch = [client.launch EXCEPT !.ans = kind, !.game = g]
    BY <2>1
  <2>5. client'.launch \in LaunchType
    BY <2>2, <2>4 DEF LaunchType
  <2> QED BY <2>1, <2>2, <2>3, <2>4, <2>5
<1> QED BY <1>2, <1>3

\* No use of a key for other settings comes from what only forgets uses.
LEMMA FewerUses ==
  ASSUME Agreed, starts' = starts, \A k, s : AskedBy(k, s)' => AskedBy(k, s)
  PROVE  Agreed'
BY DEF Agreed

\* An answer, whether or not it is the one that stores the game.
LEMMA AnswerOK ==
  ASSUME IInv, NEW p \in posts, NEW kind \in {"ok", "failed"}, NEW g \in Game \cup {NoGame},
         Answer(p, kind, g), UNCHANGED <<dels, starts, run>>,
         \/ UNCHANGED games
         \/ /\ p.st = "ready" /\ games[p.key] = NoGame
            /\ games' = [games EXCEPT ![p.key] = p.game],
         kind = "ok" => g # NoGame /\ g.key = p.key /\ games'[p.key] = g,
         kind = "failed" => g = NoGame
  PROVE  IInv'
<1> USE DEF IInv
<1>1. /\ posts' = posts \ {p} /\ client'.game = client.game /\ client'.retry = client.retry
      /\ \/ client'.launch = client.launch
         \/ /\ client.launch \in LaunchType /\ client.launch.key = p.key
            /\ client'.launch = [client.launch EXCEPT !.ans = kind, !.game = g]
      /\ client' \in [view : Views, game : Game \cup {NoGame},
                      launch : LaunchType \cup {NoLaunch},
                      retry : [key : StartKeys, setting : Settings] \cup {NoKey}]
  BY Answers DEF Kinds
<1>2. p \in PostType /\ p.key \in StartKeys
  BY DEF Types, PostType
<1>3. games' \in [StartKeys -> Game \cup {NoGame}] /\ Types'
  BY <1>1, <1>2 DEF Types, Named
<1>4. Named'
  BY <1>1, <1>2, <1>3 DEF Named, Types
<1>5. client'.launch.n = client.launch.n /\ client'.launch.key = client.launch.key
      /\ client'.launch.setting = client.launch.setting
      /\ (client'.launch # NoLaunch => client.launch # NoLaunch)
  BY <1>1, Nothing DEF LaunchType
<1>6. Numbered'
  BY <1>1, <1>5 DEF Numbered
<1>7. Agreed'
  <2>1. ASSUME NEW k, NEW s, AskedBy(k, s)' PROVE AskedBy(k, s)
    BY <2>1, <1>1, <1>2, <1>5 DEF AskedBy, Named, Types
  <2> QED BY <2>1, FewerUses
<1>8. \A k \in StartKeys : games[k] # NoGame => games'[k] = games[k]
  BY <1>2 DEF Types
<1>9. Given'
  <2>1. ASSUME NEW h, Kept(h, dels, games) PROVE Kept(h, dels', games')
    BY <2>1, <1>8, Nothing DEF Kept, Types, Game
  <2>2. CASE client'.launch = client.launch
    BY <1>1, <2>1, <2>2 DEF Given
  <2>3. CASE client'.launch # client.launch
    <3>1. client.launch \in LaunchType /\ client.launch.key = p.key
          /\ client'.launch.ans = kind /\ client'.launch.game = g
      BY <1>1, <2>3 DEF LaunchType
    <3>2. Kept(g, dels', games')
      BY DEF Kept
    <3> QED BY <1>1, <2>1, <3>1, <3>2, <1>5 DEF Given
  <2> QED BY <2>2, <2>3
<1>10. OneKey' /\ StartsNeverConflict'
  BY <1>1 DEF OneKey, StartsNeverConflict, LaunchType
<1> QED BY <1>3, <1>4, <1>6, <1>7, <1>9, <1>10

\* createdAlready finds its own marker.
LEMMA SameSetting ==
  ASSUME Agreed, NEW p \in posts, p.key \in StartKeys, games[p.key] # NoGame
  PROVE  games[p.key].setting = p.setting
<1>1. AskedBy(p.key, p.setting)
  BY DEF AskedBy
<1>2. AskedBy(p.key, games[p.key].setting)
  BY DEF AskedBy
<1> QED BY <1>1, <1>2 DEF Agreed

LEMMA ReplayOK == ASSUME IInv, NEW p \in posts, Replay(p) PROVE IInv'
<1>1. p \in PostType /\ games[p.key] \in Game /\ games[p.key].key = p.key
  BY DEF IInv, Types, PostType, Named, Replay
<1>2. games[p.key].setting = p.setting
  BY <1>1, SameSetting DEF IInv, Replay, PostType
<1>3. Answer(p, "ok", games[p.key])
  BY <1>2 DEF Replay, CreatedAlready
<1> QED BY <1>1, <1>3, AnswerOK, Nothing DEF Replay

LEMMA CreateOnceOK == ASSUME IInv, NEW p \in posts, CreateOnce(p) PROVE IInv'
<1> USE DEF CreateOnce
<1>1. p \in PostType /\ p.key \in StartKeys /\ games \in [StartKeys -> Game \cup {NoGame}]
  BY DEF IInv, Types, PostType
<1>2. CASE games[p.key] = NoGame
  <2>1. p.game \in Game /\ p.game.key = p.key
    BY DEF IInv, Named
  <2>2. games' = [games EXCEPT ![p.key] = p.game] /\ Answer(p, "ok", p.game)
    BY <1>2
  <2> QED BY <1>1, <1>2, <2>1, <2>2, AnswerOK, Nothing
<1>3. CASE games[p.key] # NoGame
  <2>1. games[p.key] \in Game /\ games[p.key].key = p.key
    BY <1>1, <1>3 DEF IInv, Named
  <2>2. games[p.key].setting = p.setting
    BY <1>1, <1>3, SameSetting DEF IInv
  <2>3. Answer(p, "ok", games[p.key]) /\ UNCHANGED games
    BY <1>3, <2>2 DEF CreatedAlready
  <2> QED BY <1>1, <2>1, <2>3, AnswerOK, Nothing
<1> QED BY <1>2, <1>3

LEMMA PostFailsOK == ASSUME IInv, NEW p \in posts, PostFails(p) PROVE IInv'
BY AnswerOK DEF PostFails

LEMMA PrepareOK == ASSUME IInv, NEW p \in posts, Prepare(p) PROVE IInv'
<1> USE DEF IInv
<1>1. p \in PostType
  BY DEF Types
<1>2. PICK d \in Draws(p.setting) : posts' = (posts \ {p}) \cup
        {[p EXCEPT !.st = "ready",
                   !.game = [key |-> p.key, setting |-> p.setting, drawn |-> d]]}
  BY DEF Prepare
<1> DEFINE g == [key |-> p.key, setting |-> p.setting, drawn |-> d]
           q == [p EXCEPT !.st = "ready", !.game = g]
<1>3. g \in Game
  BY <1>1 DEF Game, Drawn, PostType
<1>4. q \in PostType /\ q.n = p.n /\ q.key = p.key /\ q.setting = p.setting /\ q.game = g
  BY <1>1, <1>3 DEF PostType
<1>5. UNCHANGED <<games, dels, client, starts, run>> /\ posts' = (posts \ {p}) \cup {q}
  BY <1>2 DEF Prepare
<1> HIDE DEF g, q
<1>6. Types'
  BY <1>4, <1>5 DEF Types
<1>7. Named' /\ Numbered'
  <2>1. g.key = p.key /\ g.setting = p.setting
    BY DEF g
  <2> QED BY <1>3, <1>4, <1>5, <2>1 DEF Named, Numbered
<1>8. Agreed'
  <2>1. ASSUME NEW k, NEW s, AskedBy(k, s)' PROVE AskedBy(k, s)
    BY <2>1, <1>4, <1>5 DEF AskedBy
  <2> QED BY <2>1, <1>5, FewerUses
<1>9. Given' /\ OneKey' /\ StartsNeverConflict'
  BY <1>5 DEF Given, Kept, OneKey, StartsNeverConflict
<1> QED BY <1>6, <1>7, <1>8, <1>9

LEMMA DeleteLandsOK == ASSUME IInv, NEW k \in StartKeys, DeleteLands(k) PROVE IInv'
<1> USE DEF IInv, DeleteLands
<1>1. Types' /\ Named' /\ Numbered'
  BY DEF Types, Named, Numbered
<1>2. Agreed'
  <2>1. ASSUME NEW m, NEW s, AskedBy(m, s)' PROVE AskedBy(m, s)
    BY <2>1 DEF AskedBy, Types
  <2> QED BY <2>1, FewerUses
<1>3. ASSUME NEW h, Kept(h, dels, games) PROVE Kept(h, dels', games')
  BY <1>3 DEF Kept, Types, Game
<1>4. Given' /\ OneKey' /\ StartsNeverConflict'
  BY <1>3 DEF Given, OneKey, StartsNeverConflict
<1> QED BY <1>1, <1>2, <1>4

\* The page's own steps that neither draw a key nor show a game: the start in
\* progress changes no key or setting, or ends.
LEMMA PageOK ==
  ASSUME IInv, UNCHANGED <<games, posts, starts, run>>, client'.retry = client.retry,
         dels' \in [StartKeys -> {"none", "sent", "done"}],
         \A k \in StartKeys : dels[k] # "none" => dels'[k] # "none",
         client' \in [view : Views, game : Game \cup {NoGame},
                      launch : LaunchType \cup {NoLaunch},
                      retry : [key : StartKeys, setting : Settings] \cup {NoKey}],
         client'.game \in {client.game, NoGame},
         \/ client'.launch \in {client.launch, NoLaunch}
         \/ client.launch \in LaunchType /\ client'.launch = [client.launch EXCEPT !.ans = "failed"]
  PROVE  IInv'
<1> USE DEF IInv
<1>1. Types' /\ Named' /\ OneKey'
  BY DEF Types, Named, OneKey
<1>2. Numbered'
  BY DEF Numbered, NoLaunch, LaunchType, Types, PostType
<1>3. client'.launch # NoLaunch =>
        client.launch # NoLaunch /\ client'.launch.key = client.launch.key
        /\ client'.launch.setting = client.launch.setting
  BY Nothing DEF LaunchType
<1>4. Agreed'
  <2>1. ASSUME NEW k, NEW s, AskedBy(k, s)' PROVE AskedBy(k, s)
    BY <2>1, <1>3 DEF AskedBy
  <2> QED BY <2>1, FewerUses
<1>5. ASSUME NEW h, Kept(h, dels, games) PROVE Kept(h, dels', games')
  BY <1>5 DEF Kept, Types, Game
<1>6. Given' /\ StartsNeverConflict'
  <2>1. Kept(NoGame, dels', games')
    BY DEF Kept
  <2>2. client'.launch.game \in {client.launch.game, NoGame}
    BY DEF LaunchType, NoLaunch
  <2>3. Kept(client'.game, dels', games') /\ Kept(client'.launch.game, dels', games')
    <3>1. Kept(client.game, dels', games') /\ Kept(client.launch.game, dels', games')
      BY <1>5 DEF Given
    <3> QED BY <3>1, <2>1, <2>2 DEF Kept
  <2>4. client'.launch.ans = "ok" => client'.launch = client.launch
    BY DEF LaunchType, NoLaunch
  <2>5. StartsNeverConflict'
    BY DEF StartsNeverConflict, LaunchType, NoLaunch
  <2> QED BY <2>3, <2>4, <2>5 DEF Given
<1> QED BY <1>1, <1>2, <1>4, <1>6

LEMMA ForgetsOK ==
  ASSUME IInv, Interrupted \/ StartFails \/ TooLate \/ LaunchAborted
               \/ \E v \in Views : Navigate(v)
  PROVE  IInv'
<1> USE DEF IInv, Types
<1>1. CASE Interrupted
  <2>1. client.launch \in LaunchType
    BY <1>1 DEF Interrupted, NoLaunch
  <2>2. [client.launch EXCEPT !.ans = "failed"] \in LaunchType
    BY <2>1 DEF LaunchType, Kinds
  <2> QED BY <1>1, <2>1, <2>2, PageOK DEF Interrupted
<1>2. CASE StartFails
  BY <1>2, PageOK DEF StartFails
<1>3. CASE TooLate
  <2>1. client.launch \in LaunchType /\ client.launch.key \in StartKeys
    BY <1>3 DEF TooLate, NoLaunch, LaunchType
  <2> QED BY <1>3, <2>1, PageOK DEF TooLate
<1>4. CASE LaunchAborted
  BY <1>4, PageOK DEF LaunchAborted
<1>5. CASE \E v \in Views : Navigate(v)
  BY <1>5, PageOK DEF Navigate
<1> QED BY <1>1, <1>2, <1>3, <1>4, <1>5

LEMMA PostAgainOK == ASSUME IInv, PostAgain PROVE IInv'
<1> USE DEF IInv, PostAgain
<1> DEFINE l == client.launch
           q == Post(l.n, l.key, l.setting, l.tries + 1)
<1>1. l \in LaunchType
  BY DEF Types, NoLaunch
<1>2. q \in PostType /\ q.n = l.n /\ q.key = l.key /\ q.setting = l.setting /\ q.st = "sent"
  BY <1>1 DEF Post, PostType, LaunchType
<1>3. /\ posts' = posts \cup {q} /\ UNCHANGED <<games, dels, starts, run>>
      /\ client' = [client EXCEPT !.launch.tries = @ + 1, !.launch.ans = "waiting"]
  OBVIOUS
<1>4. client'.launch = [l EXCEPT !.tries = l.tries + 1, !.ans = "waiting"]
      /\ client'.retry = client.retry /\ client'.game = client.game
  BY <1>3, <1>1 DEF Types
<1> HIDE DEF q, l, PostAgain
<1>5. client'.launch \in LaunchType /\ client'.launch.n = l.n /\ client'.launch.key = l.key
  <2>1. l.tries + 1 \in Nat
    BY <1>1 DEF LaunchType
  <2> QED BY <1>1, <1>4, <2>1 DEF LaunchType, Kinds
<1>6. client' \in [view : Views, game : Game \cup {NoGame},
                   launch : LaunchType \cup {NoLaunch},
                   retry : [key : StartKeys, setting : Settings] \cup {NoKey}]
  BY <1>3, <1>5 DEF Types
<1>7. Types' /\ Named' /\ Numbered'
  <2>1. Types'
    BY <1>2, <1>3, <1>6 DEF Types
  <2>2. Named'
    BY <1>2, <1>3 DEF Named
  <2>3. Numbered'
    BY <1>2, <1>3, <1>5 DEF Numbered, l
  <2> QED BY <2>1, <2>2, <2>3
<1>8. Agreed'
  <2>1. ASSUME NEW k, NEW s, AskedBy(k, s)' PROVE AskedBy(k, s)
    <3>1. client'.launch.setting = l.setting /\ l # NoLaunch
      BY <1>1, <1>4, Nothing DEF LaunchType
    <3> QED BY <2>1, <3>1, <1>2, <1>3, <1>4, <1>5 DEF AskedBy, l
  <2> QED BY <2>1, <1>3, FewerUses
<1>9. Given' /\ StartsNeverConflict'
  <2>1. client'.launch.game = l.game /\ client'.launch.ans = "waiting"
    BY <1>1, <1>4 DEF LaunchType
  <2> QED BY <1>3, <1>4, <2>1 DEF l, Given, StartsNeverConflict
<1>10. OneKey'
  BY <1>3, <1>4 DEF OneKey
<1> QED BY <1>10, <1>7, <1>8, <1>9

LEMMA StartedOK == ASSUME IInv, Started PROVE IInv'
<1> USE DEF IInv, Started
<1>1. client.launch \in LaunchType /\ client.launch.game \in Game
  BY DEF Types, NoLaunch, Given, Kept
<1>2. Types' /\ Named'
  BY <1>1 DEF Types, Named, Views
<1>3. Numbered'
  BY DEF Numbered, NoLaunch, Types, PostType
<1>4. Agreed'
  <2>1. ASSUME NEW k, NEW s, AskedBy(k, s)' PROVE AskedBy(k, s)
    BY <2>1 DEF AskedBy
  <2> QED BY <2>1, FewerUses
<1>5. Given' /\ StartsNeverConflict'
  BY DEF Given, Kept, NoLaunch, StartsNeverConflict
<1>6. OneKey'
  BY DEF OneKey, Types
<1> QED BY <1>2, <1>3, <1>4, <1>5, <1>6

LEMMA StartGameOK ==
  ASSUME IInv, NEW s \in Settings, NEW old \in BOOLEAN, StartGame(s, old)
  PROVE  IInv'
<1> USE DEF IInv
<1> DEFINE key == Resolve(s, old)
           q == Post(starts + 1, key, s, 1)
           l == [n |-> starts + 1, key |-> key, setting |-> s, view |-> client.view,
                 tries |-> 1, ans |-> "waiting", game |-> NoGame]
<1>1. starts \in Nat /\ starts + 1 \in StartKeys /\ starts + 1 \in Nat \ {0}
  BY LaunchAssumption DEF Types, StartGame, StartKeys
<1>2. \/ key = starts + 1
      \/ ~old /\ client.retry = [key |-> key, setting |-> s] /\ client.retry # NoKey
         /\ key \in StartKeys
  <2>1. CASE client.retry = NoKey
    BY <2>1, LaunchAssumption DEF Resolve, NoKey
  <2>2. CASE client.retry # NoKey
    BY <2>2 DEF Resolve, Types
  <2> QED BY <2>1, <2>2
<1>3. /\ client' = [client EXCEPT !.retry = [key |-> key, setting |-> s], !.launch = l]
      /\ posts' = posts \cup {q} /\ starts' = starts + 1 /\ UNCHANGED <<games, dels>>
      /\ run' = [asked |-> s, keys |-> {key} \cup
                   (IF run.asked = s /\ ~old THEN run.keys ELSE {})]
      /\ client.launch = NoLaunch /\ starts < MaxStarts
  BY DEF StartGame
<1>4. q \in PostType /\ q.n = starts + 1 /\ q.key = key /\ q.setting = s /\ q.st = "sent"
  BY <1>1, <1>2 DEF Post, PostType
<1>5. l \in LaunchType /\ l.n = starts + 1 /\ l.key = key /\ l.setting = s /\ l.game = NoGame
      /\ l.ans = "waiting"
  BY <1>1, <1>2 DEF LaunchType, Kinds, Types
<1>6. /\ client'.retry = [key |-> key, setting |-> s] /\ client'.launch = l
      /\ client'.game = client.game /\ client'.view = client.view
      /\ client' \in [view : Views, game : Game \cup {NoGame},
                      launch : LaunchType \cup {NoLaunch},
                      retry : [key : StartKeys, setting : Settings] \cup {NoKey}]
  BY <1>1, <1>2, <1>3, <1>5 DEF Types
<1>7. key \in StartKeys
  BY <1>1, <1>2
<1> HIDE DEF q, l, key
<1>8. Types'
  <2>1. run' \in [asked : Settings \cup {"none"}, keys : SUBSET StartKeys]
    BY <1>3, <1>7 DEF Types
  <2>2. starts' \in 0 .. MaxStarts
    BY <1>1, <1>3, LaunchAssumption
  <2> QED BY <1>3, <1>4, <1>6, <2>1, <2>2 DEF Types
<1>9. Named' /\ Numbered'
  <2>1. Named'
    BY <1>3, <1>4 DEF Named
  <2>2. \A p \in posts : p.n <= starts /\ p.n \in Nat
    BY DEF Numbered, Types, PostType
  <2>3. Numbered'
    BY <1>1, <1>3, <1>4, <1>5, <1>6, <2>2 DEF Numbered
  <2> QED BY <2>1, <2>3
<1>10. Agreed'
  <2>1. ASSUME NEW k, NEW t, AskedBy(k, t)'
        PROVE  AskedBy(k, t) \/ (k = key /\ t = s)
    BY <2>1, <1>3, <1>4, <1>5, <1>6 DEF AskedBy
  <2>2. ASSUME NEW k, NEW t, AskedBy(k, t) PROVE k <= starts /\ k \in Int
    <3>1. k \in StartKeys
      BY <2>2, <1>3 DEF AskedBy, Types, PostType
    <3> QED BY <2>2, <3>1 DEF Agreed, StartKeys
  <2>3. CASE key = starts + 1
    <3>1. ASSUME NEW t PROVE ~AskedBy(key, t)
      BY <1>1, <2>2, <2>3
    <3> QED BY <1>1, <1>3, <2>1, <2>2, <2>3, <3>1 DEF Agreed
  <2>4. CASE AskedBy(key, s)
    <3>1. ASSUME NEW k, NEW t, AskedBy(k, t)' PROVE AskedBy(k, t)
      BY <2>1, <2>4, <3>1
    <3>2. starts <= starts'
      BY <1>1, <1>3
    <3> QED BY <1>1, <1>3, <2>2, <3>1, <3>2 DEF Agreed
  <2>5. key = starts + 1 \/ AskedBy(key, s)
    BY <1>2 DEF AskedBy
  <2> QED BY <2>3, <2>4, <2>5
<1>11. Given' /\ StartsNeverConflict'
  BY <1>3, <1>5, <1>6 DEF Given, Kept, StartsNeverConflict
<1>12. OneKey'
  <2>1. CASE run.asked = s /\ ~old
    <3>1. client.retry.setting = s /\ client.retry.key \in run.keys
      BY <2>1, LaunchAssumption DEF OneKey
    <3>2. key = client.retry.key
      BY <2>1, <3>1 DEF key, Resolve
    <3> QED BY <1>3, <1>6, <2>1, <3>1, <3>2 DEF OneKey
  <2>2. CASE ~(run.asked = s /\ ~old)
    BY <1>3, <1>6, <2>2 DEF OneKey
  <2> QED BY <2>1, <2>2
<1> QED BY <1>8, <1>9, <1>10, <1>11, <1>12

LEMMA NextOK == IInv /\ [LaunchNext]_launchVars => IInv'
<1> SUFFICES ASSUME IInv, [LaunchNext]_launchVars PROVE IInv'
  OBVIOUS
<1>1. CASE \E p \in posts : Replay(p) \/ Prepare(p) \/ CreateOnce(p) \/ PostFails(p)
  BY <1>1, ReplayOK, PrepareOK, CreateOnceOK, PostFailsOK
<1>2. CASE \E k \in StartKeys : DeleteLands(k)
  BY <1>2, DeleteLandsOK
<1>3. CASE \E s \in Settings, old \in BOOLEAN : StartGame(s, old)
  BY <1>3, StartGameOK
<1>4. CASE Interrupted \/ StartFails \/ TooLate \/ LaunchAborted \/ \E v \in Views : Navigate(v)
  BY <1>4, ForgetsOK
<1>5. CASE PostAgain \/ Started
  BY <1>5, PostAgainOK, StartedOK
<1>6. CASE UNCHANGED launchVars
  BY <1>6 DEF launchVars, IInv, Types, Named, Numbered, Agreed, AskedBy, Given, OneKey,
              StartsNeverConflict
<1> QED BY <1>1, <1>2, <1>3, <1>4, <1>5, <1>6 DEF LaunchNext

LEMMA Inductive == LaunchSpec => []IInv
BY InitOK, NextOK, PTL DEF LaunchSpec

-----------------------------------------------------------------------------
\* Whichever attempt made the game, the page shows the stored one (CreateOnce,
\* gamestore/store.go:127).
THEOREM ShownGames == LaunchSpec => []ShownGameIsStored
<1>1. IInv => ShownGameIsStored
  BY Nothing DEF IInv, Given, Kept, ShownGameIsStored
<1> QED BY <1>1, Inductive, PTL

\* Trying a failed start again makes no second game (operationId.js:36).
THEOREM RetriesAreOneGame == LaunchSpec => []RetriesMakeOneGame
<1>1. IInv => RetriesMakeOneGame
  BY DEF IInv, OneKey, RetriesMakeOneGame
<1> QED BY <1>1, Inductive, PTL

\* A key is never used for two different games (createdAlready,
\* gamesapi/writes.go:728).
THEOREM KeysAgree == LaunchSpec => []StartsNeverConflict
<1>1. IInv => StartsNeverConflict
  BY DEF IInv
<1> QED BY <1>1, Inductive, PTL
=============================================================================
