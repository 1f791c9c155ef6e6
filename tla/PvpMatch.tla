------------------------------ MODULE PvpMatch ------------------------------
(***************************************************************************)
(* One PvP duel: the match document in Mongo and the HTTP handlers that    *)
(* work on it concurrently (backend-go/internal/pulse, matchmove,          *)
(* matchtimeout, matchdisconnect, matchresign).                            *)
(*                                                                         *)
(* A handler is a sequence of Mongo operations.  Each operation is atomic  *)
(* and each is one action here; between two of them anything may happen.   *)
(* Updates to the duel itself are compare-and-swap on doc.revision.        *)
(* Presence (seen_at and the disconnect grace) lives in the same document  *)
(* but is written without a revision guard and without a revision bump,    *)
(* so it is kept apart, in seen and grace.                                 *)
(*                                                                         *)
(* The document is created by the acceptance saga at time 0 (see           *)
(* PvpChallenge); its acceptance_state is no longer "staged".              *)
(***************************************************************************)
EXTENDS Integers, Sequences

CONSTANTS
  Workers,             \* concurrent HTTP requests the server is handling
  Kinds,               \* request kinds the clients send
  Positions, StartingFEN, Moves,
  Turn,                \* chessrules.Turn: the side to move in a position
  ApplyUCI,            \* chessrules.ApplyUCI: what a move does in a position
  Virtual,             \* colours played by a synthetic rival
  Resident,            \* those of them whose moves the server plays itself
  InitialClock, ReadyTimeout, HandoffDelay, ReconnectingWindow, GracePeriod,
  ReadyRounds, Rounds, \* rounds of ReadyMatch, and of the other CAS loops
  StoreTries,          \* calls of a failing ReadyMatch or MarkVirtualReady
  MaxTime,             \* bound on the server clock
  MaxPly               \* bound on the moves of the duel

Color == {"w", "b"}
Other(c) == IF c = "w" THEN "b" ELSE "w"
Humans == Color \ Virtual
AllKinds == {"ready", "cancel", "read", "pulse", "move", "resign"}
Statuses == {"starting", "active", "cancelled", "finished"}
Results == {"none", "1-0", "0-1", "1/2-1/2"}

\* Illegal, or the status and result after the move, and the next position.
Applied == [legal : {FALSE}]
     \cup [legal : {TRUE}, fen : Positions, status : {"active"}, result : {"none"}]
     \cup [legal : {TRUE}, fen : Positions, status : {"finished"}, result : Results \ {"none"}]

ASSUME ConstantsAssumption ==
  /\ Kinds \subseteq AllKinds
  /\ Virtual \subseteq Color /\ Virtual # Color
  /\ Resident \subseteq Virtual
  /\ {InitialClock, ReadyTimeout, HandoffDelay, ReadyRounds, Rounds, StoreTries}
       \subseteq Nat \ {0}
  /\ {ReconnectingWindow, GracePeriod, MaxTime, MaxPly} \subseteq Nat

ASSUME RulesAssumption ==
  /\ StartingFEN \in Positions
  /\ Turn \in [Positions -> Color] /\ Turn[StartingFEN] = "w"
  /\ ApplyUCI \in [Positions -> [Moves -> Applied]]
  /\ \A p \in Positions, m \in Moves :
       ApplyUCI[p][m].legal => Turn[ApplyUCI[p][m].fen] = Other(Turn[p])
  /\ "none" \notin Moves

VARIABLES
  doc,                 \* the pvp_matches document, presence fields excepted
  seen, grace,         \* white/black_seen_at, ..._disconnect_grace_started_at
  now,                 \* the server's clock
  pc, req,             \* per request: next operation, and what was asked
  row,                 \* ... the document as last read (or returned by a write)
  at,                  \* ... the instant the handler works with
  live, graceAt,       \* ... observerWasLive and graceAt of matchdisconnect
  attempt, inner,      \* ... outer loop and inner (timeout or retry) loop
  ret                  \* ... where FinishIfExpired returns to

presence == <<seen, grace>>
locals == <<live, graceAt, attempt, inner, ret>>
vars == <<doc, presence, now, pc, req, row, at, locals>>

NoTime == -1           \* time.Time{}.IsZero()
-----------------------------------------------------------------------------
(* The document and the pure functions on it.                              *)

\* newMatchDraft: what the acceptance saga inserts.
NewMatch ==
  [status |-> "starting", revision |-> 0, ready |-> [c \in Color |-> FALSE],
   startAt |-> NoTime, turnStartedAt |-> NoTime, fen |-> StartingFEN, turn |-> "w",
   history |-> <<>>, clock |-> [c \in Color |-> InitialClock],
   result |-> "none", endReason |-> "none"]

ReadyDeadline == ReadyTimeout    \* the document was created at time 0

WinFor(c) == IF c = "w" THEN "1-0" ELSE "0-1"

\* Mutant: the clocks are not floored at zero.
Clamp_Unfloored(ms) == ms

Clamp(ms) == IF ms < 0 THEN 0 ELSE ms

\* The clocks at instant t: the side to move pays for the time since its turn
\* started, the other side is frozen.  (The move, timeout, disconnect and
\* resign packages each have a copy of this function.)
ClockSnapshot(d, t) ==
  LET running == d.status = "active" /\ d.turnStartedAt # NoTime /\ t >= d.turnStartedAt
  IN [c \in Color |-> Clamp(IF running /\ c = d.turn THEN d.clock[c] - (t - d.turnStartedAt)
                                                     ELSE d.clock[c])]

RecentlyPresent(seenAt, t) == seenAt # NoTime /\ t - seenAt <= ReconnectingWindow

\* The terminal $set shared by resignation, timeout and disconnect.
Finished(d, clocks, result, reason) ==
  [d EXCEPT !.status = "finished", !.result = result, !.endReason = reason,
            !.clock = clocks, !.turnStartedAt = NoTime, !.revision = @ + 1]

\* Mutant: the $inc of the revision is forgotten.
Cancelled_NoInc(d, reason) ==
  [d EXCEPT !.status = "cancelled", !.endReason = reason, !.turnStartedAt = NoTime]

Cancelled(d, reason) ==
  [d EXCEPT !.status = "cancelled", !.result = "none", !.endReason = reason,
            !.turnStartedAt = NoTime, !.revision = @ + 1]

\* Mutant: a move is accepted during the countdown.
MayMove_NoCountdown(d, c, t) == d.status = "active" /\ Turn[d.fen] = c

\* matchmove.Prepare, in the order of its checks.
MayMove(d, c, t) ==
  /\ d.status = "active"
  /\ Turn[d.fen] = c
  /\ d.startAt # NoTime => t >= d.startAt

ClockExpired(d, c, t) == ClockSnapshot(d, t)[c] <= 0

Legal(d, m) == ApplyUCI[d.fen][m].legal

\* Mutant: the next turn starts when the last one did.
Moved_StaleTurnStart(d, snapshot, c, m, t) ==
  LET applied == ApplyUCI[snapshot.fen][m]
      over    == applied.status = "finished"
  IN [d EXCEPT !.fen = applied.fen, !.turn = Turn[applied.fen],
               !.status = applied.status, !.result = applied.result,
               !.history = Append(snapshot.history, [by |-> c, uci |-> m, at |-> t]),
               !.clock = ClockSnapshot(snapshot, t),
               !.turnStartedAt = IF over THEN NoTime ELSE snapshot.turnStartedAt,
               !.revision = @ + 1]

\* moveUpdateDocument: everything is written from the snapshot the move was
\* prepared on, only the revision is incremented in place.
Moved(d, snapshot, c, m, t) ==
  LET applied == ApplyUCI[snapshot.fen][m]
      over    == applied.status = "finished"
  IN [d EXCEPT !.fen = applied.fen, !.turn = Turn[applied.fen],
               !.status = applied.status, !.result = applied.result,
               !.history = Append(snapshot.history, [by |-> c, uci |-> m, at |-> t]),
               !.endReason = IF over THEN "none" ELSE snapshot.endReason,
               !.clock = ClockSnapshot(snapshot, t),
               !.turnStartedAt = IF over THEN NoTime ELSE t,
               !.revision = @ + 1]

-----------------------------------------------------------------------------
(* Steps of a request.                                                     *)

NoReq == [kind |-> "none", who |-> "w", uci |-> "none"]

Init ==
  /\ doc = NewMatch
  /\ seen = [c \in Color |-> NoTime]
  /\ grace = [c \in Color |-> NoTime]
  /\ now = 0
  /\ pc = [w \in Workers |-> "idle"]
  /\ req = [w \in Workers |-> NoReq]
  /\ row = [w \in Workers |-> NewMatch]
  /\ at = [w \in Workers |-> 0]
  /\ live = [w \in Workers |-> FALSE]
  /\ graceAt = [w \in Workers |-> NoTime]
  /\ attempt = [w \in Workers |-> 0]
  /\ inner = [w \in Workers |-> 0]
  /\ ret = [w \in Workers |-> "idle"]

me(w) == req[w].who
rival(w) == Other(req[w].who)

Goto(w, label) == pc' = [pc EXCEPT ![w] = label]
Load(w) == row' = [row EXCEPT ![w] = doc]
Stamp(w) == at' = [at EXCEPT ![w] = now]

\* The response is written; the request's local variables are gone.
Return(w) ==
  /\ Goto(w, "idle")
  /\ req' = [req EXCEPT ![w] = NoReq]
  /\ row' = [row EXCEPT ![w] = NewMatch]
  /\ at' = [at EXCEPT ![w] = 0]
  /\ live' = [live EXCEPT ![w] = FALSE]
  /\ graceAt' = [graceAt EXCEPT ![w] = NoTime]
  /\ attempt' = [attempt EXCEPT ![w] = 0]
  /\ inner' = [inner EXCEPT ![w] = 0]
  /\ ret' = [ret EXCEPT ![w] = "idle"]

\* The compare-and-swap of every guarded update: the revision read earlier is
\* still the document's.
SameRevision(w) == row[w].revision = doc.revision

Entry(kind) ==
  CASE kind = "ready"  -> "ready_touch"
    [] kind = "cancel" -> "cancel_read"
    [] kind = "read"   -> "touch_read"
    [] kind = "pulse"  -> "touch"
    [] kind = "move"   -> "move_read"
    [] kind = "resign" -> "resign_read"

\* A request arrives and the handler takes its `now`.
Begin(w, kind, c, m) ==
  /\ pc[w] = "idle"
  /\ req' = [req EXCEPT ![w] = [kind |-> kind, who |-> c, uci |-> m]]
  /\ Goto(w, Entry(kind))
  /\ Stamp(w)
  /\ UNCHANGED <<doc, presence, now, row, locals>>

Start(w) ==
  \/ \E kind \in Kinds \ {"move"}, c \in Humans : Begin(w, kind, c, "none")
  \* serveChallengeCreate has the synthetic rival it invited confirm.
  \/ "ready" \in Kinds /\ \E c \in Virtual : Begin(w, "ready", c, "none")
  \/ /\ "move" \in Kinds
     /\ Len(doc.history) < MaxPly
     /\ \E c \in Humans, m \in Moves : Begin(w, "move", c, m)

Tick ==
  /\ now < MaxTime
  /\ now' = now + 1
  /\ UNCHANGED <<doc, presence, pc, req, row, at, locals>>

\* Mutant: presence does not clear the grace of an earlier absence.
SetSeen_KeepsGrace(c, t) == seen' = [seen EXCEPT ![c] = t] /\ UNCHANGED grace

\* $set seen_at, $unset the grace of the same player; the revision stays.
SetSeen(c, t) ==
  /\ seen' = [seen EXCEPT ![c] = t]
  /\ grace' = [grace EXCEPT ![c] = NoTime]

\* Go on at label with nothing in hand but the request, the attempt and,
\* until Apply has used it, observerWasLive.
Resume(w, label) ==
  /\ Goto(w, label)
  /\ row' = [row EXCEPT ![w] = NewMatch]
  /\ at' = [at EXCEPT ![w] = 0]
  /\ live' = [live EXCEPT ![w] = @ /\ label \in {"reread", "grace_read"}]
  /\ graceAt' = [graceAt EXCEPT ![w] = NoTime]
  /\ inner' = [inner EXCEPT ![w] = 0]
  /\ ret' = [ret EXCEPT ![w] = "idle"]
  /\ UNCHANGED req

\* A retry loop: the next round, or the conflict response.
Again(w, limit, label) ==
  IF attempt[w] + 1 < limit
    THEN Resume(w, label) /\ attempt' = [attempt EXCEPT ![w] = @ + 1]
    ELSE Return(w)

-----------------------------------------------------------------------------
(* POST /matches/{id}/ready: ReadyMatch, at most 4 rounds with one `now`.  *)

\* Mutant: the deadline of the handoff is not looked at.
ReadyStep_NoDeadline(d, c, t) ==
  IF d.status # "starting" THEN "idle"
  ELSE IF Other(c) \in Virtual /\ ~d.ready[Other(c)] THEN "ready_virtual"
  ELSE IF d.ready[c] /\ ~d.ready[Other(c)] THEN "idle"
  ELSE "ready_commit"

\* What ReadyMatch does next with document d, for player c at instant t.
ReadyStep(d, c, t) ==
  IF d.status # "starting" THEN "idle"
  ELSE IF Other(c) \in Virtual /\ ~d.ready[Other(c)] THEN "ready_virtual"
  ELSE IF t >= ReadyDeadline THEN "ready_timeout"
  ELSE IF d.ready[c] /\ ~d.ready[Other(c)] THEN "idle"
  ELSE "ready_commit"

\* Continue with the document d that the last write returned.
ReadyContinue(w, d) ==
  LET label == ReadyStep(d, me(w), at[w])
  IN IF label = "idle" THEN Return(w)
     ELSE /\ Goto(w, label)
          /\ row' = [row EXCEPT ![w] = d]
          /\ UNCHANGED <<req, at, locals>>

ReadyTouch(w) ==
  /\ pc[w] = "ready_touch"
  /\ SetSeen(me(w), at[w])
  /\ ReadyContinue(w, doc)
  /\ UNCHANGED <<doc, now>>

\* The caller is ready; with both ready the duel becomes active and White's
\* clock is due to start after the countdown.
ReadyUpdate(d, snapshot, c, t) ==
  LET marked == [d EXCEPT !.ready[c] = TRUE, !.revision = @ + 1]
  IN IF snapshot.ready[Other(c)]
       THEN [marked EXCEPT !.status = "active", !.startAt = t + HandoffDelay,
                           !.turnStartedAt = t + HandoffDelay]
       ELSE marked

\* The guarded write that a ReadyMatch round ends with.
ReadyWrite(w) ==
  /\ SameRevision(w) /\ doc.status = "starting"
  /\ \/ /\ pc[w] = "ready_virtual"
        /\ doc' = [doc EXCEPT !.ready[rival(w)] = TRUE, !.revision = @ + 1]
        /\ SetSeen(rival(w), at[w])
     \/ /\ pc[w] = "ready_timeout"
        /\ doc' = Cancelled(doc, "handoff_timeout")
        /\ UNCHANGED presence
     \/ /\ pc[w] = "ready_commit"
        /\ doc' = ReadyUpdate(doc, row[w], me(w), at[w])
        /\ UNCHANGED presence

ReadyCommit(w) ==
  /\ ReadyWrite(w)
  /\ IF pc[w] = "ready_virtual" THEN ReadyContinue(w, doc') ELSE Return(w)
  /\ UNCHANGED now

ReadyMiss(w) ==
  /\ pc[w] \in {"ready_virtual", "ready_timeout", "ready_commit"}
  /\ ~(SameRevision(w) /\ doc.status = "starting")
  /\ IF attempt[w] + 1 < ReadyRounds
       THEN /\ Goto(w, "ready_touch")
            /\ row' = [row EXCEPT ![w] = NewMatch]
            /\ attempt' = [attempt EXCEPT ![w] = @ + 1]
            /\ UNCHANGED <<req, at, live, graceAt, inner, ret>>
       ELSE Return(w)
  /\ UNCHANGED <<doc, presence, now>>

\* serveMatchReady calls ReadyMatch again, with the same `now`, when the
\* store failed; the failed write may have reached Mongo or not.
ReadyRetry(w) ==
  /\ req[w].kind = "ready" /\ me(w) \in Humans
  /\ inner[w] + 1 < StoreTries
  /\ ReadyWrite(w) \/ UNCHANGED <<doc, presence>>
  /\ Goto(w, "ready_touch")
  /\ inner' = [inner EXCEPT ![w] = @ + 1]
  /\ attempt' = [attempt EXCEPT ![w] = 0]
  /\ row' = [row EXCEPT ![w] = NewMatch]
  /\ UNCHANGED <<now, req, at, live, graceAt, ret>>

-----------------------------------------------------------------------------
(* POST /matches/{id}/handoff/cancel: CancelStartingMatch.                 *)

CancelRead(w) ==
  /\ pc[w] = "cancel_read"
  /\ IF doc.status = "starting"
       THEN Goto(w, "cancel_commit") /\ Load(w) /\ UNCHANGED <<req, at, locals>>
       ELSE Return(w)
  /\ UNCHANGED <<doc, presence, now>>

\* Mutant: the cancellation is an unguarded update.
CancelCommit_Unguarded(w) ==
  /\ pc[w] = "cancel_commit"
  /\ doc' = Cancelled(doc, "handoff_cancelled")
  /\ Return(w)
  /\ UNCHANGED <<presence, now>>

CancelCommit(w) ==
  /\ pc[w] = "cancel_commit"
  /\ doc' = IF SameRevision(w) /\ doc.status = "starting"
              THEN Cancelled(doc, "handoff_cancelled") ELSE doc
  /\ Return(w)
  /\ UNCHANGED <<presence, now>>

-----------------------------------------------------------------------------
(* ReadMatchAndTouchPresence, for the full read, the move and (its write   *)
(* alone) the pulse.                                                       *)

TouchRead(w) ==
  /\ pc[w] = "touch_read"
  /\ live' = [live EXCEPT ![w] = RecentlyPresent(seen[me(w)], at[w])]
  /\ Goto(w, "touch")
  /\ UNCHANGED <<doc, presence, now, req, row, at, graceAt, attempt, inner, ret>>

\* Where a full read goes with the document it has.
ReadStep(d, t) ==
  IF d.status = "active" THEN "timeout_read"
  ELSE IF d.status = "starting" /\ t >= ReadyDeadline THEN "handoff_timeout"
  ELSE "idle"

\* Go on to label with document d; `inner` counts the retries of
\* MarkVirtualReady and then the rounds of FinishIfExpired.
Continue(w, d, label) ==
  IF label = "idle" THEN Return(w)
  ELSE /\ Goto(w, label)
       /\ row' = [row EXCEPT ![w] = IF label = "timeout_read" THEN NewMatch ELSE d]
       /\ at' = [at EXCEPT ![w] = IF label = "timeout_read" THEN 0 ELSE @]
       /\ inner' = [inner EXCEPT ![w] = IF label = "virtual_commit" THEN @ ELSE 0]
       /\ ret' = [ret EXCEPT ![w] = "reread"]
       /\ UNCHANGED <<req, live, graceAt, attempt>>

Touch(w) ==
  /\ pc[w] = "touch"
  /\ SetSeen(me(w), at[w])
  /\ Continue(w, doc,
       CASE req[w].kind = "move" -> "timeout_read"
         [] req[w].kind = "pulse" -> "idle"
         [] OTHER -> IF doc.status = "starting" /\ rival(w) \in Virtual
                       THEN "virtual_touch" ELSE ReadStep(doc, at[w]))
  /\ UNCHANGED <<doc, now>>

\* MarkVirtualReady: the synthetic rival's presence, then its readiness.
VirtualTouch(w) ==
  /\ pc[w] = "virtual_touch"
  /\ SetSeen(rival(w), at[w])
  /\ Continue(w, doc, IF doc.status = "starting" /\ ~doc.ready[rival(w)]
                        THEN "virtual_commit" ELSE ReadStep(doc, at[w]))
  /\ UNCHANGED <<doc, now>>

\* Mutant: the synthetic rival's readiness is an unguarded write-back.
VirtualWrite_WriteBack(w) ==
  doc' = [row[w] EXCEPT !.ready[rival(w)] = TRUE, !.revision = @ + 1]

VirtualWrite(w) ==
  doc' = IF SameRevision(w) /\ doc.status = "starting"
           THEN [doc EXCEPT !.ready[rival(w)] = TRUE, !.revision = @ + 1] ELSE doc

\* A missed swap is followed by a plain re-read: either way the read goes on
\* with the document as it then is.
VirtualCommit(w) ==
  /\ pc[w] = "virtual_commit"
  /\ VirtualWrite(w)
  /\ Continue(w, doc', ReadStep(doc', at[w]))
  /\ UNCHANGED <<presence, now>>

\* The read calls MarkVirtualReady again when the store failed.
VirtualRetry(w) ==
  /\ pc[w] \in {"virtual_touch", "virtual_commit"}
  /\ inner[w] + 1 < StoreTries
  /\ UNCHANGED doc \/ (pc[w] = "virtual_commit" /\ VirtualWrite(w))
  /\ Goto(w, "virtual_touch")
  /\ inner' = [inner EXCEPT ![w] = @ + 1]
  /\ UNCHANGED <<presence, now, req, row, at, live, graceAt, attempt, ret>>

\* FinishReadHandoffTimeout; on a miss the read goes on with a re-read.
HandoffTimeout(w) ==
  /\ pc[w] = "handoff_timeout"
  /\ IF SameRevision(w) /\ doc.status = "starting" /\ ReadyDeadline <= at[w]
       THEN doc' = Cancelled(doc, "handoff_timeout") /\ Return(w)
       ELSE /\ UNCHANGED doc
            /\ Continue(w, doc, IF doc.status = "active" THEN "timeout_read" ELSE "idle")
  /\ UNCHANGED <<presence, now>>

-----------------------------------------------------------------------------
(* matchtimeout.FinishIfExpired, at most 3 rounds; called by reads, moves  *)
(* and resident replies, which ignore its outcome and re-read.             *)

FromTimeout(w) == IF ret[w] = "idle" THEN Return(w)
                  ELSE Resume(w, ret[w]) /\ UNCHANGED attempt

\* Mutant: a clock at exactly zero still runs.
Flagged_BelowZero(d, t) == ClockSnapshot(d, t)[d.turn] < 0

\* The side to move has no time left at the instant t.
Flagged(d, t) == ClockSnapshot(d, t)[d.turn] <= 0

TimeoutRead(w) ==
  /\ pc[w] = "timeout_read"
  /\ IF doc.status = "active" /\ Flagged(doc, now)
       THEN /\ Goto(w, "timeout_commit")
            /\ Load(w)
            /\ Stamp(w)
            /\ UNCHANGED <<req, locals>>
       ELSE FromTimeout(w)
  /\ UNCHANGED <<doc, presence, now>>

\* Mutant: the flag is guarded by the status alone.
TimeoutCommit_StatusOnly(w) ==
  /\ pc[w] = "timeout_commit"
  /\ doc' = IF doc.status = "active"
              THEN Finished(doc, ClockSnapshot(row[w], at[w]),
                            WinFor(Other(row[w].turn)), "timeout")
              ELSE doc
  /\ FromTimeout(w)
  /\ UNCHANGED <<presence, now>>

TimeoutCommit(w) ==
  /\ pc[w] = "timeout_commit"
  /\ IF SameRevision(w) /\ doc.status = "active"
       THEN /\ doc' = Finished(doc, ClockSnapshot(row[w], at[w]),
                               WinFor(Other(row[w].turn)), "timeout")
            /\ FromTimeout(w)
       ELSE /\ UNCHANGED doc
            /\ IF inner[w] + 1 < Rounds
                 THEN /\ Goto(w, "timeout_read")
                      /\ row' = [row EXCEPT ![w] = NewMatch]
                      /\ at' = [at EXCEPT ![w] = 0]
                      /\ inner' = [inner EXCEPT ![w] = @ + 1]
                      /\ UNCHANGED <<req, live, graceAt, attempt, ret>>
                 ELSE FromTimeout(w)
  /\ UNCHANGED <<presence, now>>

\* The re-read that follows; a duel that is over needs nothing more.
Reread(w) ==
  /\ pc[w] = "reread"
  /\ IF doc.status = "active"
       THEN Resume(w, "grace_read") /\ UNCHANGED attempt
       ELSE Return(w)
  /\ UNCHANGED <<doc, presence, now>>

-----------------------------------------------------------------------------
(* matchdisconnect.Apply: a rival unseen for longer than the reconnecting  *)
(* window gets a grace period, and then forfeits.                          *)

\* Forfeit, on document d, when the grace that began at g is over at t.
GraceStep(w, d, g, t) ==
  IF g = NoTime \/ g + GracePeriod > t
    THEN Resume(w, "reconciled") /\ UNCHANGED attempt
    ELSE /\ Goto(w, "grace_commit")
         /\ row' = [row EXCEPT ![w] = d]
         /\ at' = [at EXCEPT ![w] = t]
         /\ UNCHANGED <<req, locals>>

GraceRead(w) ==
  /\ pc[w] = "grace_read"
  /\ LET g == grace[rival(w)]
     IN IF doc.status # "active" \/ rival(w) \in Virtual \/ RecentlyPresent(seen[rival(w)], now)
          THEN Resume(w, "reconciled") /\ UNCHANGED attempt
        ELSE IF ~live[w] \/ g = NoTime
          THEN /\ Goto(w, "grace_begin")
               /\ Load(w)
               /\ Stamp(w)
               /\ graceAt' = [graceAt EXCEPT ![w] = g]
               /\ UNCHANGED <<req, live, attempt, inner, ret>>
        ELSE GraceStep(w, doc, g, now)
  /\ UNCHANGED <<doc, presence, now>>

\* BeginGrace: $set for an observer who was away too, else $min.  When the
\* duel ended meanwhile Apply goes on with what it had read.
GraceBegin(w) ==
  /\ pc[w] = "grace_begin"
  /\ IF doc.status = "active"
       THEN LET g == grace[rival(w)]
                begun == IF ~live[w] \/ g = NoTime \/ at[w] < g THEN at[w] ELSE g
            IN /\ grace' = [grace EXCEPT ![rival(w)] = begun]
               /\ GraceStep(w, doc, begun, at[w])
       ELSE /\ UNCHANGED grace
            /\ GraceStep(w, row[w], graceAt[w], at[w])
  /\ UNCHANGED <<doc, seen, now>>

\* FinishDisconnect: guarded by revision and status, not by presence.
GraceCommit(w) ==
  /\ pc[w] = "grace_commit"
  /\ doc' = IF SameRevision(w) /\ doc.status = "active"
              THEN Finished(doc, ClockSnapshot(row[w], at[w]), WinFor(me(w)), "disconnect")
              ELSE doc
  /\ Resume(w, "reconciled") /\ UNCHANGED attempt
  /\ UNCHANGED <<presence, now>>

-----------------------------------------------------------------------------
(* POST /matches/{id}/moves, at most 3 rounds; and the resident's reply.   *)

MoveRead(w) ==
  /\ pc[w] = "move_read"
  /\ IF doc.status = "active"
       THEN Goto(w, "touch_read") /\ Stamp(w) /\ UNCHANGED <<req, row, locals>>
       ELSE Return(w)
  /\ UNCHANGED <<doc, presence, now>>

\* Enter playResidentReply with document d, or answer the request.
ResidentTurn(d) == d.status = "active" /\ d.turn \in Resident

ToResident(w, d) ==
  IF ResidentTurn(d)
    THEN /\ Goto(w, "resident")
         /\ row' = [row EXCEPT ![w] = d]
         /\ at' = [at EXCEPT ![w] = 0]
         /\ attempt' = [attempt EXCEPT ![w] = 0]
         /\ UNCHANGED <<req, live, graceAt, inner, ret>>
    ELSE Return(w)

\* Call FinishIfExpired again, for a clock that ran out since the last call.
Expire(w, label) ==
  /\ Goto(w, "timeout_read")
  /\ row' = [row EXCEPT ![w] = NewMatch]
  /\ inner' = [inner EXCEPT ![w] = 0]
  /\ ret' = [ret EXCEPT ![w] = label]
  /\ UNCHANGED <<req, at, live, graceAt, attempt>>

\* The re-read after Apply.  A move is prepared on it; a read that finds a
\* resident to move has it reply.
Reconciled(w) ==
  /\ pc[w] = "reconciled"
  /\ IF req[w].kind = "read" THEN ToResident(w, doc)
     ELSE IF ~MayMove(doc, me(w), now) THEN Return(w)
     ELSE IF ClockExpired(doc, me(w), now) THEN Expire(w, "move_expired")
     ELSE IF ~Legal(doc, req[w].uci) THEN Return(w)
     ELSE /\ Goto(w, "move_commit")
          /\ Load(w)
          /\ Stamp(w)
          /\ UNCHANGED <<req, locals>>
  /\ UNCHANGED <<doc, presence, now>>

MoveExpired(w) ==
  /\ pc[w] = "move_expired"
  /\ IF doc.status = "finished" THEN Return(w) ELSE Again(w, Rounds, "move_read")
  /\ UNCHANGED <<doc, presence, now>>

\* Mutant: the last writer wins.
MoveCommit_LastWriterWins(w) ==
  /\ pc[w] = "move_commit"
  /\ doc' = Moved(doc, row[w], me(w), req[w].uci, at[w])
  /\ ToResident(w, doc')
  /\ UNCHANGED <<presence, now>>

\* MoveStore.Commit: guarded by the revision alone.
MoveCommit(w) ==
  /\ pc[w] = "move_commit"
  /\ IF SameRevision(w)
       THEN /\ doc' = Moved(doc, row[w], me(w), req[w].uci, at[w])
            /\ ToResident(w, doc')
       ELSE /\ UNCHANGED doc
            /\ Again(w, Rounds, "move_read")
  /\ UNCHANGED <<presence, now>>

\* playResidentReply: the chooser picks a move on the document in hand.
ResidentPrepare(w) ==
  /\ pc[w] = "resident"
  /\ LET d == row[w] IN
     IF ~MayMove(d, d.turn, now) THEN Return(w)
     ELSE IF ClockExpired(d, d.turn, now) THEN Expire(w, "idle")
     ELSE \E m \in Moves :
            /\ Legal(d, m)
            /\ req' = [req EXCEPT ![w].uci = m]
            /\ Goto(w, "resident_commit")
            /\ Stamp(w)
            /\ UNCHANGED <<row, locals>>
  /\ UNCHANGED <<doc, presence, now>>

\* Mutant: the reply is guarded by the status, not by the revision.
ResidentCommit_StatusOnly(w) ==
  /\ pc[w] = "resident_commit"
  /\ doc' = IF doc.status = "active"
              THEN Moved(doc, [row[w] EXCEPT !.history = doc.history],
                         row[w].turn, req[w].uci, at[w])
              ELSE doc
  /\ Return(w)
  /\ UNCHANGED <<presence, now>>

\* Committed, or re-read for the next of at most 3 rounds.
ResidentCommit(w) ==
  /\ pc[w] = "resident_commit"
  /\ IF SameRevision(w)
       THEN /\ doc' = Moved(doc, row[w], row[w].turn, req[w].uci, at[w])
            /\ Return(w)
       ELSE /\ UNCHANGED doc
            /\ IF attempt[w] + 1 < Rounds /\ ResidentTurn(doc)
                 THEN /\ Goto(w, "resident")
                      /\ Load(w)
                      /\ at' = [at EXCEPT ![w] = 0]
                      /\ attempt' = [attempt EXCEPT ![w] = @ + 1]
                      /\ UNCHANGED <<req, live, graceAt, inner, ret>>
                 ELSE Return(w)
  /\ UNCHANGED <<presence, now>>

-----------------------------------------------------------------------------
(* POST /matches/{id}/resign: at most 3 rounds.                            *)

ResignRead(w) ==
  /\ pc[w] = "resign_read"
  /\ IF doc.status = "active"
       THEN Goto(w, "resign_commit") /\ Load(w) /\ Stamp(w) /\ UNCHANGED <<req, locals>>
       ELSE Return(w)
  /\ UNCHANGED <<doc, presence, now>>

ResignCommit(w) ==
  /\ pc[w] = "resign_commit"
  /\ IF SameRevision(w) /\ doc.status = "active"
       THEN /\ doc' = Finished(doc, ClockSnapshot(row[w], at[w]), WinFor(rival(w)), "resignation")
            /\ Return(w)
       ELSE Again(w, Rounds, "resign_read") /\ UNCHANGED doc
  /\ UNCHANGED <<presence, now>>

\* Any store operation may fail or the process may die: the handler answers
\* 503 or not at all, and keeps what it has written.
Abort(w) ==
  /\ pc[w] # "idle"
  /\ Return(w)
  /\ UNCHANGED <<doc, presence, now>>

-----------------------------------------------------------------------------
Step(w) ==
  \/ ReadyTouch(w) \/ ReadyCommit(w) \/ ReadyMiss(w) \/ ReadyRetry(w)
  \/ CancelRead(w) \/ CancelCommit(w)
  \/ TouchRead(w) \/ Touch(w) \/ VirtualTouch(w) \/ VirtualCommit(w) \/ VirtualRetry(w)
  \/ HandoffTimeout(w) \/ TimeoutRead(w) \/ TimeoutCommit(w) \/ Reread(w)
  \/ GraceRead(w) \/ GraceBegin(w) \/ GraceCommit(w) \/ Reconciled(w)
  \/ MoveRead(w) \/ MoveExpired(w) \/ MoveCommit(w)
  \/ ResidentPrepare(w) \/ ResidentCommit(w)
  \/ ResignRead(w) \/ ResignCommit(w)

Next == Tick \/ \E w \in Workers : Start(w) \/ Step(w) \/ Abort(w)

Spec == Init /\ [][Next]_vars

\* For liveness: the store answers, and a player whose client has the duel
\* open polls it (PvpGameScreen polls every pollAfterMs while mounted).
Poll(w) == \E c \in Humans : Begin(w, "read", c, "none")

Progress == Tick \/ \E w \in Workers : Start(w) \/ Step(w)

FairSpec ==
  /\ Init /\ [][Progress]_vars
  /\ WF_vars(Tick)
  /\ \A w \in Workers : WF_vars(Step(w)) /\ SF_vars(Poll(w))

-----------------------------------------------------------------------------
(* Properties.                                                             *)

Labels ==
  {"idle", "ready_touch", "ready_virtual", "ready_timeout", "ready_commit",
   "cancel_read", "cancel_commit", "touch_read", "touch", "virtual_touch",
   "virtual_commit", "handoff_timeout", "timeout_read", "timeout_commit",
   "reread", "grace_read", "grace_begin", "grace_commit", "reconciled",
   "move_read", "move_expired", "move_commit", "resident", "resident_commit",
   "resign_read", "resign_commit"}

Ply == [by : Color, uci : Moves, at : Nat]

Document ==
  [status : Statuses, revision : Nat, ready : [Color -> BOOLEAN],
   startAt : Nat \cup {NoTime}, turnStartedAt : Nat \cup {NoTime},
   fen : Positions, turn : Color, history : Seq(Ply), clock : [Color -> Nat],
   result : Results,
   endReason : {"none", "handoff_timeout", "handoff_cancelled", "timeout",
                "disconnect", "resignation"}]

\* Every variable holds a value of its kind, the stored document included.
TypeOK ==
  /\ doc \in Document
  /\ seen \in [Color -> Nat \cup {NoTime}]
  /\ grace \in [Color -> Nat \cup {NoTime}]
  /\ now \in Nat
  /\ pc \in [Workers -> Labels]
  /\ req \in [Workers -> [kind : AllKinds \cup {"none"}, who : Color, uci : Moves \cup {"none"}]]
  /\ row \in [Workers -> Document]
  /\ at \in [Workers -> Nat]
  /\ live \in [Workers -> BOOLEAN]
  /\ graceAt \in [Workers -> Nat \cup {NoTime}]
  /\ attempt \in [Workers -> Nat]
  /\ inner \in [Workers -> Nat]
  /\ ret \in [Workers -> {"idle", "reread", "move_expired"}]

\* A snapshot that still carries the document's revision IS the document:
\* every write of the duel bumps the revision, so a compare-and-swap on the
\* revision alone (moveCommitFilter has no status guard) never resurrects or
\* overwrites anything.
RevisionPinsDocument ==
  \A w \in Workers : /\ row[w].revision <= doc.revision
                     /\ row[w].revision = doc.revision => row[w] = doc

\* A cancelled or finished duel never changes again, whatever handlers were
\* in flight when it ended.
TerminalIsFinal == [][doc.status \in {"cancelled", "finished"} => doc' = doc]_vars

\* Play begins only after both sides were ready, and the handoff is bounded:
\* it was confirmed before the server deadline.
StartedByBothInTime ==
  doc.status \in {"active", "finished"} =>
    /\ \A c \in Color : doc.ready[c]
    /\ doc.startAt \in HandoffDelay .. (ReadyDeadline + HandoffDelay - 1)

\* The history is a real game: White and Black alternate, nobody moved during
\* the countdown or before the move it answers, and the stored side to move is
\* the one of the stored position.
HistoryIsAGame ==
  /\ doc.turn = Turn[doc.fen]
  /\ \A i \in DOMAIN doc.history :
       /\ doc.history[i].by = (IF i % 2 = 1 THEN "w" ELSE "b")
       /\ doc.history[i].at >= doc.startAt
       /\ i > 1 => doc.history[i].at >= doc.history[i - 1].at
  /\ doc.turn = (IF Len(doc.history) % 2 = 0 THEN "w" ELSE "b")

\* The board is never out of step with the score: replaying the stored moves
\* from the initial position is legal at every move, none but the last one
\* ends the game, and it leads to the stored position.  A duel is finished
\* with no other reason exactly when its last move ended it, with its result.
HistoryReplays ==
  LET plies == Len(doc.history)
      onBoard == doc.status = "finished" /\ doc.endReason = "none"
  IN \E path \in [0 .. plies -> Positions] :
       /\ path[0] = StartingFEN /\ path[plies] = doc.fen
       /\ plies = 0 => ~onBoard
       /\ \A i \in 1 .. plies :
            LET applied == ApplyUCI[path[i - 1]][doc.history[i].uci]
            IN /\ applied.legal /\ applied.fen = path[i]
               /\ applied.status = IF i = plies /\ onBoard THEN "finished" ELSE "active"
               /\ i = plies /\ onBoard => applied.result = doc.result

\* No time is lost and none is charged twice: what the two clocks have spent
\* is exactly the time from the start of the duel to the start of the current
\* turn, and an active duel has time left on both.
ClocksAccountForTime ==
  doc.status = "active" =>
    /\ (InitialClock - doc.clock["w"]) + (InitialClock - doc.clock["b"])
         = doc.turnStartedAt - doc.startAt
    /\ \A c \in Color : doc.clock[c] > 0

\* Only a side that was to move and had no time left loses on time, and its
\* rival, who had some left, wins.
TimeoutIsDeserved ==
  doc.endReason = "timeout" =>
    /\ doc.clock[doc.turn] = 0 /\ doc.clock[Other(doc.turn)] > 0
    /\ doc.result = WinFor(Other(doc.turn))

\* A duel somebody is watching comes to an end: the handoff deadline or a
\* flag ends it if the players do not.
EventuallyOver == <>(doc.status \in {"cancelled", "finished"})

\* What the duel promises its players, whatever the interleaving: see Duel.
DuelView == INSTANCE Duel WITH
  status <- doc.status, result <- doc.result, plies <- Len(doc.history),
  ready <- {c \in Color : doc.ready[c]}

\* The handlers, with all their reads and swaps, implement the atomic duel.
ImplementsDuel == DuelView!Spec

=============================================================================
