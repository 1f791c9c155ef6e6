----------------------------- MODULE GameSession -----------------------------
(***************************************************************************)
(* One game against the engine: its document and the move and undo         *)
(* handlers that write it by compare-and-swap, and one page of the browser *)
(* that plays it (its mutations, their retries, the reconciliation after   *)
(* an interruption and the restoration after a reload).  Other devices of  *)
(* the same account write the same document.                               *)
(*                                                                         *)
(* A turn is the player's move together with the engine's reply; an undo   *)
(* takes one turn back.  Positions are histories of turns.                 *)
(***************************************************************************)
EXTENDS Integers, Sequences, FiniteSets

CONSTANTS
  Moves,           \* the player's moves, as (from, to, promotion)
  LegalMoves(_),   \* those legal after so many turns; none: the game is over
  MaxLedger,       \* gameops.MaxOperationLedger
  MaxTries,        \* attempts of one call, TRANSIENT_RETRY_DELAYS_MS + 1
  RetryLimit,      \* RECONNECT_AUTO_RETRY_LIMIT
  Budgets          \* bounds, one of which a behaviour starts with: operations
                   \* begun by the page or elsewhere (keys), POSTs sent by the
                   \* page (reqs), times it goes offline or is reloaded (breaks)

ASSUME LedgerAssumption == MaxLedger \in Nat \ {0}

VARIABLES
  doc,     \* the games document: turns, ledger, writes in its line and in all
  reqs,    \* POSTs of the page that the server has not finished
  tab,     \* the page
  used,    \* operations, POSTs and interruptions so far
  budget   \* how many of each there may be

gameVars == <<doc, reqs, tab, used, budget>>

-----------------------------------------------------------------------------
(* The server: gamesapi/writes.go over gamestore and gameops.              *)

MovesOf(hist) == [i \in DOMAIN hist |-> hist[i].move]

\* What every successful answer carries: the whole game.  ver is not sent; it
\* tells two writes of the document apart in the properties.
Snapshot(d) == [moves |-> MovesOf(d.hist), ver |-> d.ver]

Replays(led, key) == \E e \in led : e.key = key

Allowed(hist, what) ==
  IF what = "undo" THEN hist # <<>> ELSE what \in LegalMoves(Len(hist))

Remember_Short(led, key, n) ==
  {e \in led : e.key # key /\ e.n > n - MaxLedger + 1} \cup {[key |-> key, n |-> n]}

\* The ledger keeps the newest MaxLedger operations; n numbers this one.
Remember(led, key, n) ==
  {e \in led : e.key # key /\ e.n > n - MaxLedger} \cup {[key |-> key, n |-> n]}

\* The document a handler replaces the stored one with, made from what it read.
Written(base, key, what) ==
  [hist |-> IF what = "undo" THEN SubSeq(base.hist, 1, Len(base.hist) - 1)
            ELSE Append(base.hist, [move |-> what, key |-> key, n |-> base.n + 1]),
   led  |-> Remember(base.led, key, base.n + 1),
   n    |-> base.n + 1,
   ver  |-> doc.ver + 1]

\* The answer reaches the page only while it still waits for this attempt.
Reply(r, kind, game) ==
  /\ reqs' = reqs \ {r}
  /\ tab' = IF tab.op.key # 0 /\ tab.op.req = r.id
              THEN [tab EXCEPT !.op.ans = [kind |-> kind, game |-> game]]
              ELSE tab
  /\ UNCHANGED used

ReplayAnswer(r) ==
  /\ r.st = "sent" /\ Replays(doc.led, r.key)
  /\ Reply(r, "ok", Snapshot(doc))
  /\ UNCHANGED doc

Refuse(r) ==
  /\ r.st = "sent" /\ ~Replays(doc.led, r.key) /\ ~Allowed(doc.hist, r.what)
  /\ Reply(r, "refused", Snapshot(doc))
  /\ UNCHANGED doc

\* The handler has read the game and asks the engine for its reply.
Load(r) ==
  /\ r.st = "sent" /\ ~Replays(doc.led, r.key) /\ Allowed(doc.hist, r.what)
  /\ reqs' = (reqs \ {r}) \cup {[r EXCEPT !.st = "read", !.base = doc]}
  /\ UNCHANGED <<doc, tab, used>>

SameMoves_Unchecked(r) == TRUE

\* UpdateIfMoves: the write lands when the moves are those that were read.
SameMoves(r) == MovesOf(doc.hist) = MovesOf(r.base.hist)

Commit(r) ==
  /\ r.st = "read" /\ SameMoves(r)
  /\ doc' = Written(r.base, r.key, r.what)
  /\ Reply(r, "ok", Snapshot(doc'))

Miss(r) ==
  /\ r.st = "read" /\ ~SameMoves(r)
  /\ reqs' = (reqs \ {r}) \cup {[r EXCEPT !.st = "missed"]}
  /\ UNCHANGED <<doc, tab, used>>

Recheck_Blind(r) ==
  /\ r.st = "missed"
  /\ Reply(r, "refused", Snapshot(doc))
  /\ UNCHANGED doc

\* After a lost swap the ledger tells an earlier attempt of this operation
\* from somebody else's write.
Recheck(r) ==
  /\ r.st = "missed"
  /\ Reply(r, IF Replays(doc.led, r.key) THEN "ok" ELSE "refused", Snapshot(doc))
  /\ UNCHANGED doc

\* Another device plays or takes back a turn.
Elsewhere(what) ==
  /\ used.keys < budget.keys
  /\ Allowed(doc.hist, what)
  /\ doc' = Written(doc, used.keys + 1, what)
  /\ used' = [used EXCEPT !.keys = @ + 1]
  /\ UNCHANGED <<reqs, tab>>

-----------------------------------------------------------------------------
(* The page.                                                               *)

NoOp == [key |-> 0]
NoAnswer == [kind |-> "none"]
NoRetry == [key |-> 0]
NoFetch == [st |-> "idle"]
Fetch == [st |-> "asked", stale |-> FALSE, off |-> FALSE]

\* attemptReconnect up to its await, behind shouldAttemptReconnect.
Attempt(t, announce) ==
  IF t.rc.st = "idle" /\ t.op = NoOp /\ t.save # "saving" /\ (t.needed \/ t.save = "error")
    THEN [t EXCEPT !.rc = Fetch, !.save = IF announce THEN "saving" ELSE @]
    ELSE t

\* The effect of useGameReconnect runs after a render that changed the save
\* state or the game's id.
Rendered(t) ==
  IF (t.save # tab.save \/ t.ready # tab.ready) /\ t.online
    THEN Attempt(t, FALSE) ELSE t

\* The fingerprint a retry is recognised by: an undo names the history's
\* length, a move does not.
Fingerprint(what) ==
  [what |-> what, at |-> IF what = "undo" THEN Len(tab.game.moves) ELSE 0]

\* operationId: the slot's key within its window, else a new one.
KeyFor(what) ==
  (IF tab.retry # NoRetry /\ tab.retry.fp = Fingerprint(what) THEN {tab.retry.key} ELSE {})
  \cup (IF used.keys < budget.keys THEN {used.keys + 1} ELSE {})

Send(key, what) ==
  /\ used.reqs < budget.reqs
  /\ reqs' = reqs \cup {[id |-> used.reqs + 1, key |-> key, what |-> what, st |-> "sent", base |-> NoOp]}
  /\ used' = [used EXCEPT !.reqs = @ + 1, !.keys = IF key > @ THEN key ELSE @]
  /\ UNCHANGED doc

Begin(what) ==
  /\ tab.ready /\ ~tab.over /\ tab.op = NoOp
  /\ \E key \in KeyFor(what) :
       /\ Send(key, what)
       /\ tab' = [tab EXCEPT
            !.op = [key |-> key, what |-> what, req |-> used.reqs + 1, tries |-> 1, ans |-> NoAnswer],
            !.retry = [key |-> key, fp |-> Fingerprint(what)],
            !.save = "saving",
            !.rc = IF @ = NoFetch THEN @ ELSE [@ EXCEPT !.stale = TRUE]]

\* sendMove: legality is judged on the board, turn and end on the game.
PlayMove(m) ==
  /\ m \in LegalMoves(Len(tab.board))
  /\ LegalMoves(Len(tab.game.moves)) # {}
  /\ Begin(m)

HandleUndo ==
  /\ tab.game.moves # <<>>
  /\ Begin("undo")

\* The confirmed game is shown and persisted.
Confirmed ==
  /\ tab.op # NoOp /\ tab.op.ans.kind = "ok"
  /\ tab' = Rendered([tab EXCEPT
       !.op = NoOp, !.game = tab.op.ans.game, !.board = tab.op.ans.game.moves,
       !.acked = tab.op.ans.game.ver, !.save = "saved",
       !.retry = IF @.key = tab.op.key THEN NoRetry ELSE @])
  /\ UNCHANGED <<doc, reqs, used>>

Failed == Rendered([tab EXCEPT !.op = NoOp, !.save = "error"])

Rejected ==
  /\ tab.op # NoOp /\ tab.op.ans.kind = "refused"
  /\ tab' = Failed
  /\ UNCHANGED <<doc, reqs, used>>

\* withTransientRetry: the same key again.
Resend ==
  /\ tab.op # NoOp /\ tab.op.tries < MaxTries
  /\ Send(tab.op.key, tab.op.what)
  /\ tab' = [tab EXCEPT !.op.req = used.reqs + 1, !.op.tries = @ + 1, !.op.ans = NoAnswer]

\* A timeout, or the last attempt failed.  The request may still be running.
GiveUp ==
  /\ tab.op # NoOp
  /\ tab' = Failed
  /\ UNCHANGED <<doc, reqs, used>>

\* The clock runs out on the page: its mutation is abandoned.
FlagFalls ==
  /\ tab.ready /\ ~tab.over
  /\ tab' = [tab EXCEPT !.over = TRUE, !.op = NoOp]
  /\ UNCHANGED <<doc, reqs, used>>

GoOffline ==
  /\ tab.online /\ used.breaks < budget.breaks
  /\ used' = [used EXCEPT !.breaks = @ + 1]
  /\ tab' = [tab EXCEPT !.online = FALSE, !.timer = FALSE, !.needed = TRUE,
               !.rc = IF @ = NoFetch THEN @ ELSE [@ EXCEPT !.off = TRUE]]
  /\ UNCHANGED <<doc, reqs>>

GoOnline ==
  /\ ~tab.online
  /\ tab' = Attempt([tab EXCEPT !.online = TRUE, !.timer = FALSE, !.tries = 0], TRUE)
  /\ UNCHANGED <<doc, reqs, used>>

TimerFires ==
  /\ tab.timer
  /\ tab' = Attempt([tab EXCEPT !.timer = FALSE], FALSE)
  /\ UNCHANGED <<doc, reqs, used>>

\* GET /games/{id}, for a reconciliation and for a restoration.
ReadForReconnect ==
  /\ tab.rc.st = "asked"
  /\ tab' = [tab EXCEPT !.rc = [st |-> "got", stale |-> @.stale, off |-> @.off, game |-> Snapshot(doc)]]
  /\ UNCHANGED <<doc, reqs, used>>

ReadForRestore ==
  /\ tab.restore.st = "asked"
  /\ tab' = [tab EXCEPT !.restore = [st |-> "got", game |-> Snapshot(doc)]]
  /\ UNCHANGED <<doc, reqs, used>>

AuthorityLost_MutationOnly == tab.op # NoOp

\* reconnectAuthorityStillCurrent and hasActiveGameMutation.
AuthorityLost == tab.op # NoOp \/ tab.rc.stale

\* reconnectSnapshotIsFreshEnough.
TooShort == tab.ready /\ Len(tab.rc.game.moves) < Len(tab.game.moves)

ReconnectDiscarded ==
  /\ tab.rc.st = "got" /\ (AuthorityLost \/ TooShort)
  /\ tab' = [tab EXCEPT !.rc = NoFetch, !.needed = TRUE]
  /\ UNCHANGED <<doc, reqs, used>>

\* The screen takes the position of a game it mounts with; while mounted, its
\* board follows the game's id only.
Show(t, game) ==
  [t EXCEPT !.game = game, !.board = IF t.ready THEN @ ELSE game.moves,
            !.ready = TRUE, !.save = "saved"]

ReconnectApplied ==
  /\ tab.rc.st = "got" /\ ~AuthorityLost /\ ~TooShort
  /\ tab' = Rendered([Show(tab, tab.rc.game) EXCEPT
       !.rc = NoFetch, !.needed = tab.rc.off \/ ~tab.online, !.timer = FALSE, !.tries = 0])
  /\ UNCHANGED <<doc, reqs, used>>

ReconnectFailed ==
  /\ tab.rc # NoFetch
  /\ tab' = Rendered([tab EXCEPT !.rc = NoFetch, !.needed = TRUE, !.save = "error",
       !.timer = tab.tries < RetryLimit,
       !.tries = IF @ < RetryLimit THEN @ + 1 ELSE @])
  /\ UNCHANGED <<doc, reqs, used>>

\* F5 or a deploy: the page starts again from the stored session.
Reload ==
  /\ used.breaks < budget.breaks
  /\ used' = [used EXCEPT !.breaks = @ + 1]
  /\ tab' = [tab EXCEPT !.ready = FALSE, !.op = NoOp, !.retry = NoRetry, !.rc = NoFetch,
               !.restore = [st |-> "asked"], !.save = "saving", !.needed = ~tab.online,
               !.timer = FALSE, !.tries = 0]
  /\ UNCHANGED <<doc, reqs>>

RestoreApplied ==
  /\ tab.restore.st = "got"
  /\ tab' = Rendered([Show(tab, tab.restore.game) EXCEPT !.restore = NoFetch])
  /\ UNCHANGED <<doc, reqs, used>>

RestoreFailed ==
  /\ tab.restore # NoFetch
  /\ tab' = Rendered([tab EXCEPT !.restore = NoFetch, !.save = "error"])
  /\ UNCHANGED <<doc, reqs, used>>

\* The recovery screen's button.
RetryRestore ==
  /\ ~tab.ready /\ tab.restore = NoFetch
  /\ tab' = [tab EXCEPT !.restore = [st |-> "asked"], !.save = "saving"]
  /\ UNCHANGED <<doc, reqs, used>>

-----------------------------------------------------------------------------
GameInit ==
  /\ doc = [hist |-> <<>>, led |-> {}, n |-> 0, ver |-> 0]
  /\ reqs = {}
  /\ tab = [game |-> Snapshot(doc), board |-> <<>>, ready |-> TRUE, over |-> FALSE,
            op |-> NoOp, retry |-> NoRetry, save |-> "saved", rc |-> NoFetch,
            restore |-> NoFetch, needed |-> FALSE, online |-> TRUE, timer |-> FALSE, tries |-> 0,
            acked |-> 0]
  /\ used = [keys |-> 0, reqs |-> 0, breaks |-> 0]
  /\ budget \in Budgets

Server == \E r \in reqs :
  ReplayAnswer(r) \/ Refuse(r) \/ Load(r) \/ Commit(r) \/ Miss(r) \/ Recheck(r)

Mutation == (\E m \in Moves : PlayMove(m)) \/ HandleUndo
Outcome == Confirmed \/ Rejected \/ Resend \/ GiveUp
Connection == GoOffline \/ GoOnline \/ TimerFires
Reconciliation == ReadForReconnect \/ ReconnectDiscarded \/ ReconnectApplied \/ ReconnectFailed
Restoration == Reload \/ ReadForRestore \/ RestoreApplied \/ RestoreFailed \/ RetryRestore

GameNext ==
  /\ \/ Server
     \/ \E what \in Moves \cup {"undo"} : Elsewhere(what)
     \/ Mutation \/ Outcome \/ FlagFalls
     \/ Connection \/ Reconciliation \/ Restoration
  /\ UNCHANGED budget

GameSpec == GameInit /\ [][GameNext]_gameVars
-----------------------------------------------------------------------------
\* In the game as it stands, one operation has at most one turn, however often
\* it is sent, until MaxLedger later operations have evicted it from the ledger
\* (gameops.Replay, Remember).  It says nothing of turns taken back since.
NoMoveTwice ==
  \A i, j \in DOMAIN doc.hist :
    i < j /\ doc.hist[i].key = doc.hist[j].key => doc.hist[j].n - doc.hist[i].n > MaxLedger

\* A turn is added only by an operation that the stored ledger does not name:
\* "reintentar no puede mover dos veces" (api.js, playMove).  The code does not
\* keep it: the swap compares the moves alone, and an undo brings them back.
RetryNeverMovesTwice ==
  [][Len(doc'.hist) > Len(doc.hist) =>
       ~Replays(doc.led, doc'.hist[Len(doc'.hist)].key)]_gameVars

\* No write drops or rewrites another client's turn: the game goes on by one
\* turn or takes the last one back (UpdateIfMoves).
NoLostTurn ==
  [][LET old == MovesOf(doc.hist)
         new == MovesOf(doc'.hist)
     IN \/ new = old
        \/ \E m \in LegalMoves(Len(old)) : new = Append(old, m)
        \/ old # <<>> /\ new = SubSeq(old, 1, Len(old) - 1)]_gameVars

AnsweredNo ==
  tab.op # NoOp /\ tab'.op # NoOp /\ tab.op.ans = NoAnswer /\ tab'.op.ans.kind = "refused"

\* A page is told that its operation was refused only if no attempt of it has
\* been applied, among the last MaxLedger operations (the second look at the
\* ledger in commit).
RefusalIsHonest ==
  [][AnsweredNo =>
       \A i \in DOMAIN doc.hist :
         doc.hist[i].key = tab.op.key => doc.n - doc.hist[i].n >= MaxLedger]_gameVars

\* Once the page has shown a confirmed move or undo, no answer of a
\* reconciliation that was asked for earlier takes it back (the authority of
\* gameAuthorityGeneration.js and the length check of useGameReconnect.js).
KeepsConfirmed ==
  [][tab.game.ver >= tab.acked /\ ~RestoreApplied => tab'.game.ver >= tab'.acked]_gameVars
=============================================================================
