----------------------------- MODULE GameLaunch -----------------------------
(***************************************************************************)
(* Starting a game against the engine.  A page asks for a game with an     *)
(* idempotency key; a start that fails and is tried again keeps its key,   *)
(* and the server derives the game's id from it, so that all the attempts  *)
(* of one start make one game.  Attempts the page gave up run on in the    *)
(* server, and the player may leave the view where the start was asked.    *)
(***************************************************************************)
EXTENDS Integers, FiniteSets

CONSTANTS
  Settings,      \* what a game is asked for with: difficulty, colour, position
  Draws(_),      \* what the server may draw for it: the colours of "random"
  MaxAttempts,   \* POSTs of one start, TRANSIENT_RETRY_DELAYS_MS + 1
  MaxStarts      \* bound: starts the player asks for

ASSUME LaunchAssumption == MaxStarts \in Nat /\ "none" \notin Settings

VARIABLES
  games,   \* the games collection, by key: the game or NoGame
  posts,   \* POST /games that the server has not finished
  dels,    \* by key, the DELETE of its game: "none", "sent" or "done"
  client,  \* the page
  starts,  \* starts so far
  run      \* history: what the player has been asking for since a game was
           \* shown, and the keys of those starts

launchVars == <<games, posts, dels, client, starts, run>>

StartKeys == 1 .. MaxStarts
Views == {"home", "runs", "game"}
NoGame == [key |-> 0, setting |-> "none", drawn |-> "none"]
NoKey == [key |-> 0, setting |-> "none"]
NoLaunch == [n |-> 0, key |-> 0, setting |-> "none", view |-> "none", tries |-> 0,
             ans |-> "none", game |-> NoGame]

-----------------------------------------------------------------------------
(* The server: create and createdAlready of gamesapi/writes.go.            *)

\* The answer reaches the page only while it still waits for this attempt.
Answer(p, kind, g) ==
  /\ posts' = posts \ {p}
  /\ client' = IF /\ client.launch.n = p.n /\ client.launch.tries = p.try
                /\ client.launch.ans = "waiting"
               THEN [client EXCEPT !.launch.ans = kind, !.launch.game = g]
               ELSE client

\* The stored game, when it was made for this very request.
CreatedAlready(p) ==
  IF games[p.key].setting = p.setting
    THEN Answer(p, "ok", games[p.key])
    ELSE Answer(p, "conflict", NoGame)

Replay(p) ==
  /\ p.st = "sent" /\ games[p.key] # NoGame
  /\ CreatedAlready(p)
  /\ UNCHANGED <<games, dels, starts, run>>

\* There is no such game: the colour is drawn, and the engine may open.
Prepare(p) ==
  /\ p.st = "sent" /\ games[p.key] = NoGame
  /\ \E d \in Draws(p.setting) :
       posts' = (posts \ {p}) \cup
         {[p EXCEPT !.st = "ready",
                    !.game = [key |-> p.key, setting |-> p.setting, drawn |-> d]]}
  /\ UNCHANGED <<games, dels, client, starts, run>>

CreateOnce_OwnAnswer(p) ==
  /\ p.st = "ready"
  /\ games' = IF games[p.key] = NoGame THEN [games EXCEPT ![p.key] = p.game] ELSE games
  /\ Answer(p, "ok", p.game)
  /\ UNCHANGED <<dels, starts, run>>

\* The insert.  The loser of the race for the id answers with the winner's.
CreateOnce(p) ==
  /\ p.st = "ready"
  /\ \/ /\ games[p.key] = NoGame
        /\ games' = [games EXCEPT ![p.key] = p.game]
        /\ Answer(p, "ok", p.game)
     \/ /\ games[p.key] # NoGame
        /\ CreatedAlready(p)
        /\ UNCHANGED games
  /\ UNCHANGED <<dels, starts, run>>

\* The request never arrives, or storage is unavailable: nothing is written.
PostFails(p) ==
  /\ Answer(p, "failed", NoGame)
  /\ UNCHANGED <<games, dels, starts, run>>

DeleteLands(k) ==
  /\ dels[k] = "sent"
  /\ dels' = [dels EXCEPT ![k] = "done"]
  /\ games' = [games EXCEPT ![k] = NoGame]
  /\ UNCHANGED <<posts, client, starts, run>>

-----------------------------------------------------------------------------
(* The page: useGameStartFlow over useGameLaunchController, operationId    *)
(* and transientRetry.                                                     *)

Post(n, key, s, try) ==
  [n |-> n, try |-> try, key |-> key, setting |-> s, st |-> "sent", game |-> NoGame]

Resolve_AnyAsked(s, old) ==
  IF client.retry.key # 0 /\ ~old THEN client.retry.key ELSE starts + 1

Resolve_Fresh(s, old) == starts + 1

\* createRetryOperationIdCache: the key of the last start that was not
\* confirmed serves again when the same game is asked for and it is not old.
Resolve(s, old) ==
  IF client.retry.setting = s /\ ~old THEN client.retry.key ELSE starts + 1

\* The player asks for a game; old: more than ttlMs after the last start.
StartGame(s, old) ==
  /\ client.launch = NoLaunch /\ starts < MaxStarts
  /\ LET key == Resolve(s, old)
     IN /\ client' = [client EXCEPT
             !.retry = [key |-> key, setting |-> s],
             !.launch = [n |-> starts + 1, key |-> key, setting |-> s, view |-> client.view,
                         tries |-> 1, ans |-> "waiting", game |-> NoGame]]
        /\ posts' = posts \cup {Post(starts + 1, key, s, 1)}
        /\ run' = [asked |-> s, keys |-> {key} \cup
                     (IF run.asked = s /\ ~old THEN run.keys ELSE {})]
  /\ starts' = starts + 1
  /\ UNCHANGED <<games, dels>>

\* The connection breaks and the server works on.
Interrupted ==
  /\ client.launch.ans = "waiting"
  /\ client' = [client EXCEPT !.launch.ans = "failed"]
  /\ UNCHANGED <<games, posts, dels, starts, run>>

\* withTransientRetry: the same request again.
PostAgain ==
  LET l == client.launch
  IN /\ l.ans = "failed" /\ l.tries < MaxAttempts
     /\ posts' = posts \cup {Post(l.n, l.key, l.setting, l.tries + 1)}
     /\ client' = [client EXCEPT !.launch.tries = @ + 1, !.launch.ans = "waiting"]
     /\ UNCHANGED <<games, dels, starts, run>>

\* Out of retries, a timeout (which is not retried) or a conflict: an error is
\* shown and the key is kept for the next start.
StartFails ==
  /\ \/ client.launch.ans \in {"waiting", "conflict"}
     \/ client.launch.ans = "failed" /\ client.launch.tries = MaxAttempts
  /\ client' = [client EXCEPT !.launch = NoLaunch]
  /\ UNCHANGED <<games, posts, dels, starts, run>>

\* The game comes while its start is current: confirmCreated, then setGame.
Started ==
  /\ client.launch.ans = "ok" /\ client.launch.view = client.view
  /\ client' = [view |-> "game", game |-> client.launch.game, launch |-> NoLaunch,
              retry |-> IF client.retry.key = client.launch.key THEN NoKey ELSE client.retry]
  /\ run' = [run EXCEPT !.asked = "none"]
  /\ UNCHANGED <<games, posts, dels, starts>>

\* It comes when the player has left the view: the page deletes the game.
TooLate ==
  /\ client.launch.ans = "ok" /\ client.launch.view # client.view
  /\ dels' = [dels EXCEPT ![client.launch.key] = "sent"]
  /\ client' = [client EXCEPT !.launch = NoLaunch]
  /\ UNCHANGED <<games, posts, starts, run>>

\* Navigation; leaving a game takes it off the screen (useGameExitFlow).
Navigate(v) ==
  /\ v # "game" /\ v # client.view
  /\ client' = [client EXCEPT !.view = v, !.game = IF client.view = "game" THEN NoGame ELSE @]
  /\ UNCHANGED <<games, posts, dels, starts, run>>

\* The effect that follows a change of view aborts the start.
LaunchAborted ==
  /\ client.launch # NoLaunch /\ client.launch.view # client.view
  /\ client' = [client EXCEPT !.launch = NoLaunch]
  /\ UNCHANGED <<games, posts, dels, starts, run>>

-----------------------------------------------------------------------------
LaunchInit ==
  /\ games = [k \in StartKeys |-> NoGame]
  /\ posts = {}
  /\ dels = [k \in StartKeys |-> "none"]
  /\ client = [view |-> "home", game |-> NoGame, launch |-> NoLaunch, retry |-> NoKey]
  /\ starts = 0
  /\ run = [asked |-> "none", keys |-> {}]

LaunchNext ==
  \/ \E p \in posts : Replay(p) \/ Prepare(p) \/ CreateOnce(p) \/ PostFails(p)
  \/ \E k \in StartKeys : DeleteLands(k)
  \/ \E s \in Settings, old \in BOOLEAN : StartGame(s, old)
  \/ \E v \in Views : Navigate(v)
  \/ Interrupted \/ PostAgain \/ StartFails \/ Started \/ TooLate \/ LaunchAborted

LaunchSpec == LaunchInit /\ [][LaunchNext]_launchVars

-----------------------------------------------------------------------------
\* The game on screen is the stored one, with the same colours, whichever of
\* the concurrent attempts made it (gamestore/store.go:127 CreateOnce) -
\* unless the page asked to delete that id for a start it had abandoned.
ShownGameIsStored ==
  client.game # NoGame /\ dels[client.game.key] = "none" => games[client.game.key] = client.game

\* However often a start fails and the player tries again, within ttlMs and
\* with the same settings, one game at most is made (operationId.js:36 with
\* the deterministic id of gamesapi/writes.go:637).
RetriesMakeOneGame ==
  \A k, m \in run.keys : games[k] # NoGame /\ games[m] # NoGame => k = m

\* No start is refused because its key was used for other settings
\* (gamesapi/writes.go:728 createdAlready against the client's key cache).
StartsNeverConflict == client.launch.ans # "conflict"
=============================================================================
