# Chess Studio: TLA+ models and proofs

Chess Studio is a browser chess application: a single-page client, and a Go
service over MongoDB. These modules model the places where its state is shared
by several actors or survives one of them:

* **the two-player (PvP) service**: two browsers, any number of concurrent
  requests and several server processes share documents without transactions,
  locks or background jobs (`Duel`, `PvpMatch`, `PvpForfeit`, `Agreement`,
  `PvpChallenge`, `PvpRating`);
* **the PvP page**: one player's browser, with answers that come late and in any
  order (`PvpPlayer`);
* **games against the engine**: how one is started and played, over a network
  that loses answers, from a page that retries, reconnects and reloads
  (`GameLaunch`, `GameSession`);
* **the profile** of an account on several devices (`ProfileSync`).

Contents: [inventory](#1-inventory), [modules](#2-modules-and-how-they-correspond-to-the-code),
[properties](#3-what-is-claimed), [runs](#4-runs-and-bounds),
[disagreements](#5-where-code-and-documentation-disagree),
[proofs](#6-proofs), [limits](#7-abstractions-and-what-is-not-modelled),
[plan](#8-plan).

## 1. Inventory

### State and operations

| Part | State | Operations |
|---|---|---|
| Roster (`pulse/roster_http.go`, `challenge_create_http.go`) | `pvp_roster`: player, rating shown, `last_seen` (stale after a TTL) | join / heartbeat (also refreshes the synthetic rivals of their owner), leave (also cancels pending challenges) |
| Challenges (`challengecreate`, `challengeaccept`, `pulse/challenge_*`) | `pvp_challenges`: pair, ratings, status, `created_at`, cooldown; unique index on the pair key of pending rows | create, cancel, decline, accept; expiry is marked by lobby reads |
| Duel (`pulse/match_*`, `move_*`, `timeout_store`, `disconnect_store`, `resign_*`, `match*` packages) | one `pvp_matches` document: status, `revision`, readiness, position, history, clocks, result; presence and disconnect grace in the same document but outside the revision | ready, cancel handoff, full read, pulse, move (and the server's own reply for a resident), resign |
| Ratings (`pvprating`, `pulse/rating_store.go`) | in `users`: `pvp_rating`, last settled match, count of games | settle, from every handler that finds a duel finished |
| Lobby (`pulse/lobby_*`) | capped chat, revision hashes computed on demand, rate windows in process memory | lobby read, lobby pulse, chat |
| PvP page (`usePvpAppFlow.js`, `usePvpRosterPresence.js`, `PvpGameScreen.jsx`, `PvpHandoffModal.jsx`) | the handoff and the duel on screen, the last duel that is over, the last lobby snapshot | poll the lobby, accept, synchronise and cancel a handoff, poll a duel, move, resign, leave |
| Engine games, server (`gamestore`, `gameops`, `gamesapi`) | a game document: its move list (which is its version), a bounded ledger of applied operations, the operation that created it | create, move with the engine's reply, undo, read, delete |
| Engine games, browser (`useGameLaunchController.js`, `operationId.js`, `useGameStartFlow.js`; `gameMutationCoordinator.js`, `useGameReconnect.js`, `useActiveSessionRestore.js`, `GameScreen.jsx`) | the start in progress and its retry key; the game shown, the move in progress, whether the page must reconcile, the stored session | start, retry, abandon; move, undo, retry, reconnect, restore |
| Profiles (`profilestore`) | keys with a revision each, and a write revision | read, patch by compare-and-swap |
| Profile in the browser (`profileBackup.js`, `profileKeys.js`) | local copy, journal of edited keys, the last profile the server sent, queued saves | edit, pull, push, recover |
| Game results in the browser (rating, rivalry, history, career, series, tournament) | records in local storage, keyed by game | record a finished game |
| Accounts and sessions, resident engine, narrative and admin services, edge router, screens and scenes, side games, infrastructure | see `PROJECT.json` | not modelled; each with its reason there |

### How the parts interact

    roster --availability, ratings--> challenge --accept saga--> duel --finished row--> ratings
       ^                                  ^                        |                      |
       |       leave: cancels pending     |                        |                      |
       +----------------------------------+<--- activation: both leave the roster         |
       +<---------------------------------- a later join copies the account's rating -----+

    start --game id--> engine game <--moves, undos--> page --result--> profile (local copy) <--patches--> profile document

On the server all interaction is through Mongo documents. A handler is a sequence of Mongo
operations; only one operation is atomic. Three mechanisms hold the service
together:

* **compare-and-swap on `revision`** for the duel (`moveCommitFilter`,
  `FinishTimeout`, `FinishResignation`, `FinishDisconnect`, `ReadyMatch`,
  `CancelStartingMatch`), with a handful of retries and then a 409;
* **a saga with a staged document** for acceptance: the match is inserted
  invisible (`acceptance_state: "staged"`), the challenge is moved from pending
  to accepted (the point of no return), and the match is made visible; a retried
  acceptance finishes what an earlier one left;
* **guarded updates** for ratings: the account must still have the rating the
  duel recorded, and must not have settled this match last.

The engine games and the profile use the same first mechanism with other
versions (the move list; a write revision), and add a second: **idempotency
keys**. An operation keeps its key over all its attempts, so that the server can
tell a retry from a new request: by a ledger in the document for moves, by the
game's id for creations.

Nothing happens by itself in a duel. A flag falls, a handoff expires, a forfeit is
declared, an accepted challenge is completed and a rating is settled only
because somebody sends a request.

### What is hard

Interleavings of handlers between any two operations; snapshots used after
they are stale; writes that fail after having been applied, and are retried;
crashes in the middle of the saga or between the two rating updates; deadlines
racing the requests they cut off; presence that shares a document with the
revision but is not covered by it. In the browser: an answer applied after what
it was asked for has changed, by another answer, by the user, by a reload or by
a login in another tab; attempts that were given up and still run. `PROJECT.json` "hazards" has each at its
line, with the properties that watch it.

## 2. Modules, and how they correspond to the code

| Module | Models |
|---|---|
| `Duel` | abstract: the duel as one atomic state machine (confirm, activate, cancel, play, decide) |
| `PvpMatch` | the match document and every handler that works on it, one action per Mongo operation |
| `PvpForfeit` | `PvpMatch` with two history variables (when a player's presence began; what was true when a forfeit was recorded) |
| `Agreement` | abstract: what challenges promise, in atomic steps (offer, withdraw, agree, begin, finish) |
| `PvpChallenge` | roster, challenges and the acceptance saga |
| `PvpRating` | roster ratings, duel snapshots and settlement |
| `PvpPlayer` | one player's page through consecutive duels, against a server reduced to statuses and revisions |
| `GameLaunch` | the start of a game against the engine: the page's launch and retry key, and the handler that creates the game |
| `GameSession` | one such game: its document and handlers, and the page that plays it |
| `ProfileSync` | the profile document, its handler, and the page's local copy, journal and saves |
| `MCPvpMatch`, `MCPvpForfeit`, `MCPvpChallenge`, `MCPvpRating` | values of the constants for TLC |
| `MCChallengeRaces` | `PvpChallenge` limited to the steps of two kinds of behaviour, by the action constraint `Races` |
| `MCPvpCompletion` | `PvpRating` and, as an instance, `PvpChallenge` in one model, for what a crash leaves half done; a behaviour exercises one of them |
| `MCBrowser` | `GameSession`, `GameLaunch`, `ProfileSync` and `PvpPlayer` in one model; they share no state, and a behaviour exercises one of them |
| `PvpMatchProofs`, `PvpDuelProofs`, `PvpChallengeProofs`, `PvpRatingProofs`, `PvpPlayerProofs`, `GameLaunchProofs`, `GameSessionProofs`, `ProfileSyncProofs` | theorems |

### PvpMatch

`doc` is the document, the presence fields excepted; those are `seen`
(`white_seen_at`, `black_seen_at`) and `grace`
(`..._disconnect_grace_started_at`), because the code writes them with other
guards (none). `now` is the server's clock. A request is a worker `w`: `pc[w]`
names the next Mongo operation, `req[w]` what was asked, `row[w]` the snapshot
the handler holds, `at[w]` the instant it works with, `live` and `graceAt` the
locals of `matchdisconnect.Apply`, `attempt` and `inner` its loop counters,
`ret` where `FinishIfExpired` returns to. `Return` is the response; `Abort` a
store error or the death of the process, after which what was written stays.

| Handler | Actions, in order |
|---|---|
| `serveMatchReady` / `ReadyMatch` | `ReadyTouch`, then one of the guarded writes of `ReadyCommit` (synthetic rival confirms, deadline cancels, caller confirms or activates), or `ReadyMiss`; `ReadyRetry` is the handler's retry after a store error, with the write applied or not |
| `CancelStartingMatch` | `CancelRead`, `CancelCommit` |
| `serveMatchRead` | `TouchRead`, `Touch`, (`VirtualTouch`, `VirtualCommit`, `VirtualRetry`), `HandoffTimeout` or the lifecycle: `TimeoutRead`, `TimeoutCommit`, `Reread`, `GraceRead`, `GraceBegin`, `GraceCommit`, `Reconciled`, and for a resident to move `ResidentPrepare`, `ResidentCommit` |
| match pulse (`MatchState`) | `Touch` alone |
| `serveMatchMove` | `MoveRead`, `TouchRead`, `Touch`, the same lifecycle, `Reconciled` (`matchmove.Prepare`), `MoveCommit`, the resident's reply; `MoveExpired` when the clock ran out in between |
| `serveMatchResign` | `ResignRead`, `ResignCommit` |

Operations merged into one action: the first read of `ReadyMatch` with the
presence write that follows (the read is used for immutable fields only); a
missed swap with the re-read that only reports its outcome. The chess rules are
two functions, `Turn` and `ApplyUCI`, of which only this is assumed: sides
alternate. Time is in abstract ticks; the increment is 0 as in `pvpclock`.

### PvpChallenge

`lastSeen`, `challenge` and `match` are the three collections; the match of a
challenge has its id, and its whole life is "none, staged, live, over" (and
"void", staged and cancelled: `CancelStartingMatch` is the one match handler
that does not skip staged rows). `Create` is six reads, the search for a pending
challenge, the insert under the unique index and the search for the winner of a
lost insert (`CreateRead`, `CreateFind`, `CreateInsert`, `CreateWinner`), and a
synthetic rival accepts in the same request. `Accept` and `CommitAcceptance` are
`AcceptGet`, `AcceptMatch`, `AcceptBusy`, `AcceptListed`, `AcceptInsert`,
`AcceptCanonical`, `AcceptCas`, `AcceptFind`, `AcceptCleanup`, `AcceptActivate`.
Leaving the roster is two operations (`StartLeave`, `LeavePending`), also
started by the activation of a match. Cancel, decline and the lobby's expiry are
single guarded updates. `Abort` stops a request before any operation.

### PvpRating

`users`, `roster` and the rows of duels. `CreateChallenge` takes both ratings
from the roster, `JoinRoster` copies the account's, `Activate` takes both
players off the roster (an error there is ignored by the code, so each may
remain). `Settle` computes both new ratings from the row; `ApplyWhite` and
`ApplyBlack` are the two guarded updates. `ExpectedPoints` is the Elo formula as
a table of integer steps: it equals `RoundToEven(32 * expected)` at every
difference, and no difference gives a tie. The row of a finished duel is
constant, which is `TerminalIsFinal` of `PvpMatch`.

### PvpPlayer

`duels` are the match documents (status, revision, who confirmed), `page` holds
the view, the lobby's last match, the handoff with its synchronisation (`sync`),
the duel on screen and `tomb`, the one duel `usePvpAppFlow` remembers to be
over. A request that reads or writes the match is one action (`ReadLobby`, `AcceptChallenge`,
`SyncAsks`, `CancelHandoff`, `Poll`, `SubmitMove`, `ConfirmResign`): the server acts at that moment
and its answer, a snapshot, joins `answers`, from where it arrives
at any later time (`LobbyArrives`, `AcceptArrives`, `SyncArrives`,
`CancelArrives`, `PollArrives`, `MoveArrives`) or is lost. A move and a resignation
may be under way at once, as the screen's flags `busy` and `resigning` are
independent. `Noticed` is the
effect that opens a duel the lobby reports. The page's own timers are choices.

### GameLaunch

`games` is the collection, indexed by idempotency key because the id is a hash
of user and key. A POST of `posts` looks for the game (`Replay`, `Prepare`) and
inserts it (`CreateOnce`); a setting with several `Draws` is a game asked
for with a random colour, which every attempt draws anew. `client.launch` is the
start in progress, `client.retry` the one entry of
`createRetryOperationIdCache`, whose age is the choice `old`. `StartGame` is
`begin` to the first POST, `PostAgain` the automatic retry, `StartFails` the
error (or the timeout, after which the POST may still be running), `Started`
and `TooLate` the two sides of `isCurrent`, `LaunchAborted` the effect of a
change of view. The hook's state machine mirrors whether there is a launch and
guards nothing more; it is left out.

### GameSession

`doc` is the game: its turns (a player's move with the engine's reply), its
ledger with the number of the operation each entry belongs to, and a write
counter that only the properties see. A POST is `ReplayAnswer`, `Refuse` or
`Load` (the read, after which the engine thinks), then `Commit` or `Miss` (the
swap on the move list) and, after a miss, `Recheck` (the second look at the
ledger). `tab` is the page: the game, the board, the operation in
progress with its key and attempts, the retry slot, the save state, a
reconciliation (`rc`, `stale` once a mutation began after it was asked for, the
"generation" of `gameAuthorityGeneration.js`), a restoration, the backoff timer.
`Elsewhere` is the same account on another device.

### ProfileSync

`prof` is the document of each account; a PATCH is `PatchConflict` or
`PatchRead`, then `PatchWrite` or `PatchLost`, as often as the store's loop
allows. `dev` is the page together with the local storage it shares with other
tabs: who is logged in (`user`) and for whom the page was loaded (`bound`), the
local copy, the journal (`dirty`), what the server sent last (`synced`), the
queue of saves and the one that runs (`job`). Values remember who wrote them.
`LoginElsewhere` is a login in another tab, of another account or of the same one again: a
job of the session before finds itself superseded (`IdentityStillCurrent` compares
the token too), imports nothing and, if it was the pull at start, still lets the
application open (`Superseded`).

## 3. What is claimed

Duel (`PvpMatch`):

* `RevisionPinsDocument`: a snapshot whose revision is still the document's IS
  the document. Every swap rests on this; that of a move has no other guard.
* `TerminalIsFinal`: a cancelled or finished duel never changes again.
* `StartedByBothInTime`: only a duel both confirmed before the deadline starts,
  and at a moment within the countdown's bound.
* `HistoryIsAGame`: moves alternate, none is made in the countdown or before
  the one it answers, and the stored turn is that of the stored position.
* `HistoryReplays`: replaying the stored moves is legal and leads to the stored
  position, no move but the last ends the game, and a duel is over on the board
  exactly when its last move ended it, with that move's result.
* `ClocksAccountForTime`: the two clocks together have lost exactly the time
  from the start to the current turn: none lost, none charged twice.
* `TimeoutIsDeserved`: who loses on time was to move and had none left.
* `EventuallyOver`: a duel that is polled ends.
* `ImplementsDuel`: the handlers implement `Duel`, with the mapping
  `status`, `result`, `plies <- Len(doc.history)`, `ready <- {c : doc.ready[c]}`.

Forfeits (`PvpForfeit`): `GraceIsServed`, `NoInstantWin`. Ratings (`PvpRating`): `AtMostOnce`,
`RatedByTheResult`, `PointsFollowTheResult` (a settlement moves a rating from what
it is now, in the direction of the result and by `EloK` at most, whatever the
snapshots say), `EventuallySettled`. Challenges (`PvpChallenge`):
`OnePendingPerPair`, `DuelsAreAgreed`, `ResolvedIsFinal`, `DuelsArePermanent`,
`RetriedIsCompleted` (an acceptance repeated for ever ends in a duel, wherever the ones before
stopped; nothing is said of who repeats it), `OneDuelAtATime`, and `ImplementsAgreement`: the saga implements
`Agreement`. There `stage` is read off two documents at once (`Stage`): a match that is live or over
decides, a staged one does not count, and a challenge without a visible match is
what its status says; `pair` is the challenge's two players. So staging, canonical match,
swap, cleanup and activation, with any retries, crashes and other requests between
them, appear as "agree" (the swap) and "begin", "finish", or nothing; a match
cancelled while it is staged is an agreement that is over before it began. Each property is
stated in words above its definition.

PvP page (`PvpPlayer`): `ScreenNeverGoesBack`, `LobbyNeverReopens`. Both except
steps in which the code intends, or cannot avoid, the contrary, by name: a
screen that was left and opened again may restart from an older snapshot; the
player may open a duel from the menu.

Starting a game (`GameLaunch`): `ShownGameIsStored`, `RetriesMakeOneGame`,
`StartsNeverConflict`.

Playing it (`GameSession`): `NoMoveTwice` (in the game as it stands, up to the reach
of the ledger; nothing of turns taken back), `RetryNeverMovesTwice` (no turn is added by an
operation that the stored ledger names: disagreement 5),
`NoLostTurn` (although the swap compares move lists, which recur after an undo),
`RefusalIsHonest`, `KeepsConfirmed` (the answer of a restoration excepted:
section 5).

Profiles (`ProfileSync`): `NoEditForgotten`, `NoEditOverwritten`,
`OwnValuesOnly`, `NoBlindWrite`, `RevisionPinsValue` (the revision of a key stands
for one value of it, in whatever copy of the profile), `OnlyEditedKeysAreWritten`.

Every property of a passing run has a mutant in the module it is about (the
operators named `X_...` before `X`): a plausible slip in that code (a forgotten
`$inc`, a status guard in place of the revision, a swapped rating) that breaks it.

## 4. Runs and bounds

Two workers are enough for every pairwise race of requests, and a worker
handles any number of requests one after another. Distinct states in brackets.

| Run | Shows | Bounds |
|---|---|---|
| `match_play` (2.1M) | moves, resignations, flags, disconnect checks inside moves; refinement | clocks of 2, time to 3 so that both flag and answer occur, 2 plies, mate possible at the second; presence window 2 and no grace, so that a forfeit can fall among the moves |
| `match_resident` (780k) | a duel against a synthetic rival from the handoff on: ready, cancel, read and move with failing and retried writes around the deadline; the rival confirmed and played for by whichever request finds it due | Black resident, deadline 1, clock 1, time to 3, two rounds of every retry loop, two store tries |
| `match_live` (529k) | `EventuallyOver`, with readers and resignations | clock 1, time to 3, no symmetry |
| `forfeit` (698k) | `GraceIsServed` | window 1, grace 3, time to 6: away, back, away again fits |
| `forfeit_no_instant_win` | disagreement 1 | the smallest grace that shows it |
| `completion` (49k) | what a crash leaves half done. A rated duel next to an unrated one, both settled by 2 requests: safety, what a result is worth, and every settlement completed. A challenge accepted by 2 requests: whoever accepts again gets the match (`RetriedIsCompleted`) | ratings absent (default) and at the floor, all results; 2 players, 1 challenge, one crash anywhere in the saga, expiry in mid-saga, no symmetry |
| `rating_at_most_once` | disagreement 2 | two rated duels of one player |
| `challenge` (1.6M) | everything that can race for challenges; refinement | the action constraint `Races` keeps two kinds of step. `Mutual`: two players, 2 challenges, creating and leaving, no failure, nothing more once one is declined (a second challenge after a cancelled, expired or accepted one is in). `Accept`: one challenge of the owner's among 3 players, one of them synthetic, accepted twice, cancelled, declined, expired or left, with one crash. A behaviour may pass from one kind to the other. Time 0 and 1 with a TTL of 0, so that challenges expire |
| `challenge_one_duel` | disagreement 3 | 3 players, 2 challenges |
| `browser` (1.6M) | the four parts of the browser client, one per behaviour | see below |
| `profile_overwrites` | disagreement 4 | two devices of one account (`MCTwoDevices`): two edits, two saves, two PATCHes, no reload and no login, so that the trace is the one told below |
| `retry_moves_twice` | disagreement 5 | two operations (the move, and another device's undo), two POSTs, no interruption (`MCRetried`) |

The parts of `browser`:

* `GameSession`: three operations and two POSTs without interruption, two of
  each with one (offline, reload), or two operations, one POST and two
  interruptions (`MCBudgets`); a ledger of 2, two attempts per call, one
  automatic reconnection; a game of up to three turns whose first has two moves,
  so that undo and another move, undo and the same move (the recurring move
  list) and the end of the game all occur.
* `GameLaunch`: two starts of two POSTs each, of a random colour or White: the
  smallest at which two attempts race for one insert, a late attempt of the
  first start meets the second, and an abandoned game's deletion meets its
  successor. (Three starts of one POST each were checked as well.)
* `ProfileSync`: two keys; three edits, two saves and four PATCHes with another
  device, or fewer with a reload and a login, of another account or the same (`MCLimits`).
* `PvpPlayer`: two duels, so that answers of the first reach the second;
  revisions to 4 and five requests.

The handoff properties are checked in `match_resident`, where a synthetic
rival confirms by its own request as well as through the human's: every write
of the handoff occurs there. With two humans they follow from the theorems, which
make no assumption on who is synthetic.

Every loop limit (4 rounds of `ReadyMatch`, 3 of the other loops, 3 store tries)
is a constant and is 2 or 1 in the runs: a second round exercises the way back,
and a third differs from it in nothing but the counter. `MaxTime`, `MaxPly`,
`MaxCrashes`, `Ids`, `Budgets`, `Limits`, `MaxStarts`, `MaxAttempts`, `MaxDuels`,
`MaxRevision` and `MaxAnswers` are bounds of the model. `Browser.cfg`, `ProfileOverwrites.cfg` and
`RetryMovesTwice.cfg` turn deadlock checking off, because a behaviour may have used up its
budget with nothing left in flight; elsewhere a request can always arrive.

### Fairness

* `PvpMatch!FairSpec`: time passes and the store answers (`WF` on `Tick` and on
  the steps of a request; `Abort` is left out: the store is up), and a player
  with the duel open keeps reading it (`SF` on `Poll`). `PvpGameScreen` polls
  while mounted, the response asks for `pollAfterMs` 1250, and the client
  makes a full read at least every 15 seconds (`docs/operations/pvp.md:243`).
  Strong fairness says that other requests do not keep a poll out for ever: the
  server has no bound on workers, the model does. The server's limit of 60
  reads a minute is above the polling rate.
* `PvpRating!FairSpec`: a finished duel is read again, and of updates tried
  again and again some reach the store.
* `PvpChallenge!Fairness`: a request that has begun goes on (`WF` on its steps, of
  which `Abort` is none). Nothing is assumed of clients: `RetriedIsCompleted` has
  the repeated acceptance as its hypothesis, because the client makes none (section 5).
* The browser's modules state no fairness: everything claimed of them is
  safety. Whether a page ever finishes depends on a network that nothing
  promises.

## 5. Where code and documentation disagree

1. **A return can be rewarded at once** (`forfeit_no_instant_win`). Whether the
   observer was away too is read from its `seen_at`
   (`match_read_store.go:42`), which a pulse or a ready refreshes. A player
   who returns after a long absence and pulses before reading keeps the
   rival's old grace mark, and wins. `test_pvp_api.py:647-662` says that claim
   must restart.
2. **A duel can be settled twice** (`rating_at_most_once`). The account
   remembers one match; a win and a loss can restore the rating the first duel
   recorded, and a re-read of that duel counts it again. `docs/operations/pvp.md:214`:
   "exactly once per match".
3. **A player can get two duels** (`challenge_one_duel`). The availability check
   and the commitment are several operations apart, and two acceptances pass it
   together. `test_pvp_api.py:976` expects the second to be refused.
4. **A page can upload values it did not change** (`profile_overwrites`). Every
   answer of the server replaces `synced` (`profileBackup.js:36-40`), but a push
   does not import what it brought. The next push, with an empty journal, takes
   the difference for local changes and sends its older values with current
   revisions. The header (`profileBackup.js:5-7`) says that only keys the
   snapshot really changed are sent.

5. **A retried move can be played twice** (`retry_moves_twice`). The swap compares
   only the list of moves (`gamestore/store.go:277`) and writes the ledger its
   attempt read at the beginning. The first attempt of a move reads the game and waits for
   the engine, longer than its connection lives (`context.WithoutCancel`,
   `gamesapi/writes.go:227`); the retry plays the move; an undo (in the trace, from another
   device) brings the list back to what it was; the first attempt plays the move
   again. `api.js:61-63`: "reintentar no puede mover dos veces";
   `transientRetry.js:5-7` says the same.

Met while modelling, and in the models, but not counted as disagreements because
no document or test says otherwise, or only a neighbouring case:

* A present player can forfeit: `FinishDisconnect` is guarded by revision and
  status, presence changes neither, and a return between the decision and the
  write is ignored. `GraceIsServed` says exactly how far it goes.
* An accepted challenge whose match is still staged, because the process stopped in
  between, stays so. Only an acceptance completes it, and both views of the client
  keep pending challenges only (`usePvpRosterPresence.js:57-58`,
  `PvPLobbyModal.jsx:109-110`); the acceptance of a synthetic rival, made by the server
  inside the challenger's request, is never repeated either. The documents promise
  less than a recovery: `pvp_store.py:536` and `:624-625` ("crash-recoverable", "lets
  the next retry resume"), `pvp.md:248` ("idempotent accepted retries"), which
  `RetriedIsCompleted` confirms.
* A duel whose rating snapshot predates the settlement of the duel before is
  never settled (`pulse/rating_store.go:53`): `EventuallySettled` is checked for one
  rated duel and fails with two.
* `PvpPlayer`: a handoff that finds its duel finished has no way out
  (`usePvpAppFlow.js:160`); a cancellation that succeeds late closes whatever is
  shown (`:223-239`); the late answer of a move overwrites the one duel
  remembered as over (`:209-216`).
* `GameSession`: a restoration's late answer is shown without looking at what
  was confirmed since (`useActiveSessionRestore.js:152-162`), so it can take a
  move back from the screen; a reconciled game does not refresh the
  board (`GameScreen.jsx:166-199` follows the game's id only); an announced
  reconciliation that is discarded as too short leaves "saving" on screen.
* `GameLaunch`: the DELETE of an abandoned start can reach the game of the next
  one, which has the same id when the settings are the same
  (`useGameStartFlow.js:86-89`).

Read, not modelled: after a reload on a result screen the series is cleared
although `series.js:79-80` says that it survives a refresh, because
`recordSeriesGame` has emptied `currentGameId` and `useActiveSessionRestore.js:172-178`
compares it with the restored game.

## 6. Proofs

TLC's instances are small; the theorems hold for every value of the constants
that the named assumptions (`ConstantsAssumption`, `RulesAssumption`,
`ChallengeAssumption`) allow: any number of workers, players and challenges, any
length of game, any clock, any rules in which sides alternate.

**`PvpMatchProofs`.** First types (`TypeCorrect`), action by action. Then the
heart of the design, `RevisionPinsDocument`. It is not inductive: a worker's
snapshot must be known to have been READ, and what each label of the program
says about it must be kept. The invariant is `Inv == Local /\ Pinned`, where
`Local` says, per request and label, what the handler has established (`Prepared`: a
confirmation is within the deadline, the snapshot of a flag is flagged, that of
a move `Playable`: legal there, in turn, with time left; `Timely`: nothing held
is from the future; `Flow`: which kinds of request reach which label), and
`Pinned` is the property with the fact that revision 0 is the new match. `Sound` and `StepOK`
put into one statement what each action does to both. From it follow
`SnapshotsArePinned` and, with `NextIsAtomic`, `TerminalStates`.

`NextIsAtomic` is the reduction: under `Inv` every step of any handler is, as
far as the document is concerned, nothing or one of four atomic steps computed
from the CURRENT document (`AtomicStep`: `Handoff`, `Flag`, `Concede`,
`PlayMove`). Because a passed swap means snapshot = document, every stale read
has disappeared from what remains to be shown.

**`PvpDuelProofs`** works on those atomic steps alone. `Game` strengthens the
four document invariants with `Undecided` (a duel in progress has no result, no
end reason) and `TurnStart` (the current turn began with the last move, or with
the duel). It gives `StartsTogether`, `HistoryCorrect`,
`ClocksCorrect`, `TimeoutsCorrect`, and `Refinement`: each atomic step is a step
of `Duel` or stutters.

`PositionsReplay` is a theorem of its own: `HistoryReplays` says that a path of
positions through the history exists, and each move extends the path
(`ReplayMove`), so that no recursion over the history is needed.

`ForfeitsServeTheGrace` is about `PvpForfeit`. `ForfeitInv` adds to `GraceIsServed`
that a mark is never older than the last sign of life of its player (`Marks`)
and what each request about to forfeit somebody has seen (`Due`): a mark a whole
grace period old, with its player unseen since, or a return in this very
round trip. It rests on the part of `Inv` that says which requests reach which
label, and on the clock standing still while a request is answered.

**`PvpChallengeProofs`.** `Inv` adds to types and the two invariants `Equipped`
(a request has what its label needs: two different players, or a challenge) and `Committed` (who is about to activate a match has
seen its challenge accepted). `StepOK` says what a step may do to what is shared:
resolve or create challenges (`Resolves`, `Creates`), advance a match only as the
saga allows (`Advances`), move requests (`Requests`); one lemma per group of
actions shows it and `SharedIsEnough` concludes. Theorems: `ChallengeTypes`,
`OnePending`, `AgreedDuels`, `FinalResolution`, `PermanentDuels`. `Agreements` is
the refinement: what a step does to the documents
(`DocumentsImplement`: several challenges withdrawn at once, one offered, one
accepted, one match moved along) is one step of `Agreement` or a
stutter, and no step does two of these. `AgreedDuels` and `OnePending` are what it needs: a
visible match has an accepted challenge, and an offer finds no other of its pair.

**`PvpRatingProofs`.** The invariant is types; that a finished row has its
result and never changes; that a settlement works on such a row; and `Settled`:
an account's rating is what the duel it settled last gives. The last part is
inductive because the guard of the update compares with the snapshot the new
value is computed from, so that an interrupted settlement leaves each account
right on its own. `PointsAreFair` needs of the Elo table only that an expectation is between 0 and
`EloK`, and on which side of the half it lies; the floor and the ceiling only shorten a
step. `AtMostOnce` is false (disagreement 2), and `OnlyAReturnCountsTwice` says how far: a
player may have any number of duels, settled in any order, by any number of requests
that stop anywhere, and none is counted twice unless results bring back a rating that one of
them was agreed with. `NoWayBack` states that over the finished duels alone: they can
be ranked so that each comes before those agreed with the rating that it gave. A
win and a loss cannot, nor two losses at the floor, nor two draws between equals. The
proof is `Walked`: each settlement goes up every such ranking (`AppliedWalks`), because the
rating that lets it through is the one the duel settled last gave (`Settled`), so that
the games counted are no more than the duels up to the last (`Reached`).

**`PvpPlayerProofs`.** Types over the duels made so far; `Tidy` (the duel over
last is the one remembered; the menu shows no board; the synchronisation is that
of the handoff shown); `Addressed` (an answer the
synchronisation still waits for is about its duel). `BoardNeverGoesBack` and
`EndedDuelsStayClosed` follow action by action.

**`GameLaunchProofs`.** `Agreed` says what makes the retry cache safe: all uses
of a key, in requests, games, the launch and the cache, ask for the same thing,
and no key is above the counter. `Given` says that a game the page holds is the
stored one unless its deletion was asked; it needs `Named` and `Numbered` (an
answer is for the launch that waits). `OneKey` is why retries make one game.

**`GameSessionProofs`.** `IInv` has, over the types: `Kept`, of the document and
of every version of it that a request holds (the ledger still knows each turn
among the last `MaxLedger` operations, and no operation has two turns within
that reach); `Sound`, what a handler that has read the game was allowed to do
with it; `Numbered` (keys and requests in the order they are made); and
`PageInv` (what the page knows is never ahead of the document, and a
reconciliation that still counts was asked for after the last operation).
`MoveIsPlayedOnce` does not need the swap to tell versions apart: what a handler
writes comes from its own snapshot, ledger included, so `Kept` survives even
when the moves alone return to an earlier value. It is about the turns that the game
has: after an undo, disagreement 5 is compatible with it.

**`ProfileSyncProofs`.** Documents and snapshots hold values of their own
account, all of them stored; a PATCH that was read is `Informed` (its base is no newer
than the document, and the same if the write revision is); the
PATCH a save waits for `Serves` its journal, so that what a success clears was
sent. `Pinned` follows a profile on its way, from the document to the page, to the save and
back: `RevisionsPinValues` holds because the store gives a key a new revision
with every new value, in one write. For imports, `Pulling` adds that the page under a pull is as it was when
the pull began.

**Model-checked only.** Liveness (`EventuallyOver`, `EventuallySettled`,
`RetriedIsCompleted`): fairness and ENABLED are out of the prover's reach.
The theorems state the safety properties and the refinements, every one that a passing
run checks; only for `AtMostOnce` is the theorem another statement (above). The disagreements are counterexamples and need no proof.

## 7. Abstractions, and what is not modelled

* Payloads, messages, ids, SAN and FEN strings, HTTP codes and rate windows: no
  property is about them. A move is a model value and a position a name.
* `PvpForfeit` considers prompt requests only (no time passes while one is in
  progress), so that disagreement 1 does not depend on slow ones.
* Settlement is not in `PvpMatch` (the row it uses is final), nor is the
  roster cleanup at activation (`StartLeave` of `PvpChallenge`, `Leave` of
  `PvpRating`). Cancelled matches have the same role as finished ones in
  `PvpChallenge` ("over").
* `PvpChallenge` does not follow a match's `ready_deadline`.
* `PvpPlayer` has one duel live at a time (disagreement 3 is the server's), and
  a pulse is the full read it may trigger. Challenges sent and chat are left out.
* `GameLaunch` has the casual start only. The next game of a series and the start of a
  run (`nextSeriesGame`, `launchRun` of `useGameStartFlow.js`) go through the same launch
  and key cache, and also delete the game before without waiting: those deletions are
  left out.
* `GameLaunch` has one page. A reload in mid-start (which forgets the retry key,
  and leaves a game nobody shows) and a restoration that answers during a start
  are left out: the buttons that start a game are mostly disabled while one loads.
* `GameSession`: a turn is the player's move with the reply; the clock appears
  only as its fall; hints, analysis, training modes and commentary are left out.
* `ProfileSync`: the reset of all progress, file import, the repair of a corrupt
  journal, the push at logout and the replacing PUT are left out; other tabs
  appear through the login they share.
* What a finished game adds to rating, rivalry, history, career, series and
  tournament. Inside one tab it is sequential; across tabs it is last writer
  wins over local storage.
* Tactical combat and roguelike modes, training, screens, 3D scenes, audio,
  texts and insights: by far most of the JavaScript, without state shared by
  several actors. This is why the share of the repository's lines that the
  models stand for is small.
* The legacy Python backend may run in place of single Go routes; mixed
  operation is not modelled. Its tests are read as the statement of intent.
* Which move a resident or the engine picks, when several are legal, is any of
  them.
* Everything listed `not_modelled` in `PROJECT.json`, with the reason there.

## 8. Plan

Done, in order of importance: the PvP service (`Duel`, `PvpMatch`,
`PvpForfeit`, `PvpRating`, `PvpChallenge`), engine games (`GameSession`,
`GameLaunch`), profiles (`ProfileSync`), the PvP page (`PvpPlayer`), with the
theorems above.

Next, modelling:

1. Results: a finished game recorded once in rating, rivalry, history and
   career, across reloads, an exit that forfeits and two tabs; the series and the
   tournament that span several games.
2. `GameLaunch` with `GameSession`: reloads and restorations around a start.
3. `PvpChallenge` with `PvpMatch`: the deadline of a re-used staged match; the
   answer a creator gets for an expired challenge.
4. The lobby's rate windows against the page's polling.

Next, proofs:

An abstract specification of the profile (a map of registers, merged by key)
and the refinement of it by `ProfileSync`.
