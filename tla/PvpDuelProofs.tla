---------------------------- MODULE PvpDuelProofs ----------------------------
(***************************************************************************)
(* What the duel promises its players, proved from PvpMatchProofs: once    *)
(* every step of the handlers is known to be an atomic step, requests,     *)
(* snapshots and retries no longer matter and only the document is left.   *)
(***************************************************************************)
EXTENDS PvpMatchProofs, PvpForfeit

\* A duel not yet over has no verdict; one that never started, no moves.
Undecided ==
  /\ doc.status \in {"starting", "active"} => doc.result = "none" /\ doc.endReason = "none"
  /\ doc.status = "starting" =>
       /\ doc.history = <<>> /\ doc.turn = "w" /\ doc.fen = StartingFEN
       /\ \A c \in Color : doc.clock[c] = InitialClock
  /\ doc.status = "cancelled" => doc.history = <<>> /\ doc.endReason # "timeout"

\* The current turn began with the last move, or with the duel.
TurnStart ==
  doc.status = "active" =>
    doc.turnStartedAt = IF doc.history = <<>> THEN doc.startAt
                        ELSE doc.history[Len(doc.history)].at

Game ==
  /\ Undecided /\ TurnStart
  /\ StartedByBothInTime /\ HistoryIsAGame
  /\ ClocksAccountForTime /\ TimeoutIsDeserved

-----------------------------------------------------------------------------
(* What each atomic step does to the fields of the document.               *)

LEMMA DocFields ==
  ASSUME doc \in Document
  PROVE  /\ doc.revision \in Nat /\ doc.ready \in [Color -> BOOLEAN]
         /\ doc.startAt \in Nat \cup {NoTime} /\ doc.turnStartedAt \in Nat \cup {NoTime}
         /\ doc.fen \in Positions /\ doc.turn \in Color /\ doc.history \in Seq(Ply)
         /\ doc.clock \in [Color -> Nat] /\ doc.status \in Statuses
BY DEF Document

LEMMA MarkFields ==
  ASSUME doc \in Document, NEW c \in Color,
         doc' = [doc EXCEPT !.ready[c] = TRUE, !.revision = @ + 1]
  PROVE  /\ doc'.ready = [doc.ready EXCEPT ![c] = TRUE]
         /\ doc'.status = doc.status /\ doc'.startAt = doc.startAt
         /\ doc'.turnStartedAt = doc.turnStartedAt /\ doc'.fen = doc.fen
         /\ doc'.turn = doc.turn /\ doc'.history = doc.history /\ doc'.clock = doc.clock
         /\ doc'.result = doc.result /\ doc'.endReason = doc.endReason
BY DEF Document

LEMMA ActivateFields ==
  ASSUME doc \in Document, NEW c \in Color, NEW t \in Nat, doc.ready[Other(c)],
         doc' = ReadyUpdate(doc, doc, c, t)
  PROVE  /\ doc'.ready = [doc.ready EXCEPT ![c] = TRUE]
         /\ doc'.status = "active" /\ doc'.startAt = t + HandoffDelay
         /\ doc'.turnStartedAt = t + HandoffDelay /\ doc'.fen = doc.fen
         /\ doc'.turn = doc.turn /\ doc'.history = doc.history /\ doc'.clock = doc.clock
         /\ doc'.result = doc.result /\ doc'.endReason = doc.endReason
BY DEF Document, ReadyUpdate

LEMMA CancelFields ==
  ASSUME doc \in Document, NEW reason, doc' = Cancelled(doc, reason)
  PROVE  /\ doc'.status = "cancelled" /\ doc'.endReason = reason
         /\ doc'.result = "none" /\ doc'.ready = doc.ready
         /\ doc'.fen = doc.fen /\ doc'.turn = doc.turn /\ doc'.history = doc.history
BY DEF Document, Cancelled

LEMMA FinishFields ==
  ASSUME doc \in Document, NEW clocks, NEW r, NEW reason,
         doc' = Finished(doc, clocks, r, reason)
  PROVE  /\ doc'.status = "finished" /\ doc'.endReason = reason /\ doc'.result = r
         /\ doc'.clock = clocks /\ doc'.ready = doc.ready /\ doc'.startAt = doc.startAt
         /\ doc'.fen = doc.fen /\ doc'.turn = doc.turn /\ doc'.history = doc.history
BY DEF Document, Finished

LEMMA MoveFields ==
  ASSUME doc \in Document, NEW c \in Color, NEW m \in Moves, NEW t \in Nat, Legal(doc, m),
         doc' = Moved(doc, doc, c, m, t), doc.endReason = "none"
  PROVE  /\ doc'.status \in {"active", "finished"} /\ doc'.endReason = "none"
         /\ doc'.status = "active" => doc'.result = "none" /\ doc'.turnStartedAt = t
         /\ doc'.status = "finished" => doc'.result \in Results \ {"none"}
         /\ doc'.clock = ClockSnapshot(doc, t)
         /\ doc'.ready = doc.ready /\ doc'.startAt = doc.startAt
         /\ doc'.turn = Turn[doc'.fen] /\ doc'.turn = Other(Turn[doc.fen])
         /\ doc'.history = Append(doc.history, [by |-> c, uci |-> m, at |-> t])
<1> DEFINE a == ApplyUCI[doc.fen][m]
<1>1. /\ a.fen \in Positions /\ Turn[a.fen] = Other(Turn[doc.fen])
      /\ a.status \in {"active", "finished"} /\ a.result \in Results
      /\ a.status = "active" => a.result = "none"
      /\ a.status = "finished" => a.result # "none"
  BY LegalType
<1>2. /\ doc'.fen = a.fen /\ doc'.turn = Turn[a.fen] /\ doc'.status = a.status
      /\ doc'.result = a.result /\ doc'.clock = ClockSnapshot(doc, t)
      /\ doc'.history = Append(doc.history, [by |-> c, uci |-> m, at |-> t])
      /\ doc'.ready = doc.ready /\ doc'.startAt = doc.startAt
      /\ doc'.endReason = IF a.status = "finished" THEN "none" ELSE doc.endReason
      /\ doc'.turnStartedAt = IF a.status = "finished" THEN NoTime ELSE t
  BY DEF Document, Moved
<1> HIDE DEF a
<1> QED BY <1>1, <1>2

-----------------------------------------------------------------------------
(* Atomic steps preserve the promises.                                     *)

LEMMA HandoffGame ==
  ASSUME doc \in Document, now \in Nat, Game, Handoff
  PROVE  Game'
<1> USE DocFields
<1>0. doc.status = "starting" /\ HandoffDelay \in Nat /\ InitialClock \in Nat \ {0}
      /\ ReadyDeadline \in Nat
  BY ConstantsAssumption DEF Handoff, ReadyDeadline
<1>1. /\ doc.history = <<>> /\ doc.turn = "w" /\ doc.fen = StartingFEN
      /\ doc.result = "none" /\ doc.endReason = "none"
      /\ \A c \in Color : doc.clock[c] = InitialClock
  BY <1>0 DEF Game, Undecided
<1>2. Turn[StartingFEN] = "w" /\ Len(<<>>) = 0 /\ DOMAIN <<>> = {}
  BY RulesAssumption
<1>3. ASSUME NEW c \in Color, doc' = [doc EXCEPT !.ready[c] = TRUE, !.revision = @ + 1]
      PROVE  Game'
  <2>1. /\ doc'.status = "starting" /\ doc'.fen = doc.fen /\ doc'.turn = doc.turn
        /\ doc'.history = doc.history /\ doc'.clock = doc.clock
        /\ doc'.result = doc.result /\ doc'.endReason = doc.endReason
    BY <1>0, <1>3, MarkFields
  <2>2. HistoryIsAGame'
    BY <1>1, <1>2, <2>1 DEF HistoryIsAGame
  <2> QED BY <1>1, <2>1, <2>2 DEF Game, Undecided, TurnStart, StartedByBothInTime,
                                   ClocksAccountForTime, TimeoutIsDeserved
<1>4. ASSUME NEW c \in Color, NEW t \in 0 .. now, t < ReadyDeadline,
             doc' = ReadyUpdate(doc, doc, c, t), doc.ready[Other(c)]
      PROVE  Game'
  <2>0. t \in Nat
    OBVIOUS
  <2>1. /\ doc'.ready = [doc.ready EXCEPT ![c] = TRUE]
        /\ doc'.status = "active" /\ doc'.startAt = t + HandoffDelay
        /\ doc'.turnStartedAt = t + HandoffDelay /\ doc'.fen = doc.fen
        /\ doc'.turn = doc.turn /\ doc'.history = doc.history /\ doc'.clock = doc.clock
        /\ doc'.result = doc.result /\ doc'.endReason = doc.endReason
    BY <1>4, <2>0, ActivateFields
  <2>2. Undecided' /\ TurnStart' /\ TimeoutIsDeserved'
    BY <1>1, <2>1 DEF Undecided, TurnStart, TimeoutIsDeserved
  <2>3. StartedByBothInTime'
    <3>1. \A x \in Color : doc'.ready[x]
      BY <1>4, <2>1 DEF Color, Other
    <3>2. doc'.startAt \in HandoffDelay .. (ReadyDeadline + HandoffDelay - 1)
      BY <1>0, <1>4, <2>0, <2>1
    <3> QED BY <3>1, <3>2 DEF StartedByBothInTime, ReadyDeadline
  <2>4. HistoryIsAGame'
    BY <1>1, <1>2, <2>1 DEF HistoryIsAGame
  <2>5. ClocksAccountForTime'
    BY <1>0, <1>1, <2>0, <2>1 DEF ClocksAccountForTime, Color
  <2> QED BY <2>2, <2>3, <2>4, <2>5 DEF Game
<1>5. ASSUME NEW c \in Color, NEW t \in 0 .. now,
             doc' = ReadyUpdate(doc, doc, c, t), ~doc.ready[Other(c)]
      PROVE  Game'
  BY <1>3, <1>5 DEF ReadyUpdate
<1>6. ASSUME NEW reason \in {"handoff_timeout", "handoff_cancelled"}, doc' = Cancelled(doc, reason)
      PROVE  Game'
  BY <1>1, <1>2, <1>6, CancelFields
     DEF Game, Undecided, TurnStart, StartedByBothInTime, HistoryIsAGame,
         ClocksAccountForTime, TimeoutIsDeserved
<1> QED BY <1>3, <1>4, <1>5, <1>6 DEF Handoff

LEMMA SnapshotValue ==
  ASSUME doc \in Document, NEW t \in Nat, doc.status = "active", doc.turnStartedAt \in Nat
  PROVE  /\ ClockSnapshot(doc, t)[Other(doc.turn)] = doc.clock[Other(doc.turn)]
         /\ t >= doc.turnStartedAt =>
              ClockSnapshot(doc, t)[doc.turn] = Clamp(doc.clock[doc.turn] - (t - doc.turnStartedAt))
<1>1. doc.turn \in Color /\ Other(doc.turn) \in Color /\ Other(doc.turn) # doc.turn
      /\ doc.clock \in [Color -> Nat]
  BY DocFields DEF Other, Color
<1>2. doc.turnStartedAt # NoTime
  BY DEF NoTime
<1> QED BY <1>1, <1>2 DEF ClockSnapshot, Clamp

LEMMA FlagGame ==
  ASSUME doc \in Document, now \in Nat, Game, Flag
  PROVE  Game'
<1> USE DocFields
<1>1. PICK t \in 0 .. now :
        /\ Flagged(doc, t)
        /\ doc' = Finished(doc, ClockSnapshot(doc, t), WinFor(Other(doc.turn)), "timeout")
  BY DEF Flag
<1>2. doc.status = "active" /\ t \in Nat
  BY DEF Flag
<1>3. /\ doc'.status = "finished" /\ doc'.endReason = "timeout"
      /\ doc'.result = WinFor(Other(doc.turn))
      /\ doc'.clock = ClockSnapshot(doc, t) /\ doc'.ready = doc.ready /\ doc'.startAt = doc.startAt
      /\ doc'.fen = doc.fen /\ doc'.turn = doc.turn /\ doc'.history = doc.history
  BY <1>1, FinishFields
<1>4. doc.turnStartedAt \in Nat
  <2>1. doc.startAt \in Nat
    BY <1>2, ConstantsAssumption DEF Game, StartedByBothInTime, ReadyDeadline
  <2>2. CASE doc.history = <<>>
    BY <1>2, <2>1, <2>2 DEF Game, TurnStart
  <2>3. CASE doc.history # <<>>
    <3>1. Len(doc.history) \in DOMAIN doc.history
      BY <2>3
    <3>2. doc.history[Len(doc.history)] \in Ply
      BY <3>1
    <3> QED BY <1>2, <2>3, <3>2 DEF Game, TurnStart, Ply
  <2> QED BY <2>2, <2>3
<1>5. TimeoutIsDeserved'
  <2>1. doc'.clock[doc.turn] = 0
    <3>1. doc'.clock \in [Color -> Nat]
      BY <1>2, <1>3, SnapshotType
    <3> QED BY <1>1, <1>3, <3>1 DEF Flagged
  <2>2. doc'.clock[Other(doc.turn)] > 0
    BY <1>2, <1>3, <1>4, SnapshotValue, WinForType DEF Game, ClocksAccountForTime
  <2> QED BY <1>3, <2>1, <2>2 DEF TimeoutIsDeserved
<1>6. Undecided' /\ TurnStart' /\ ClocksAccountForTime'
  BY <1>3 DEF Undecided, TurnStart, ClocksAccountForTime
<1>7. StartedByBothInTime'
  BY <1>2, <1>3 DEF Game, StartedByBothInTime, ReadyDeadline
<1>8. HistoryIsAGame'
  BY <1>3 DEF Game, HistoryIsAGame
<1> QED BY <1>5, <1>6, <1>7, <1>8 DEF Game

LEMMA ConcedeGame ==
  ASSUME doc \in Document, now \in Nat, Game, Concede
  PROVE  Game'
<1>1. PICK t \in 0 .. now, c \in Color, reason \in {"disconnect", "resignation"} :
        doc' = Finished(doc, ClockSnapshot(doc, t), WinFor(c), reason)
  BY DEF Concede
<1>2. doc.status = "active"
  BY DEF Concede
<1>3. /\ doc'.status = "finished" /\ doc'.endReason = reason
      /\ doc'.ready = doc.ready /\ doc'.startAt = doc.startAt
      /\ doc'.fen = doc.fen /\ doc'.turn = doc.turn /\ doc'.history = doc.history
  BY <1>1, FinishFields
<1>4. Undecided' /\ TurnStart' /\ ClocksAccountForTime' /\ TimeoutIsDeserved'
  BY <1>3 DEF Undecided, TurnStart, ClocksAccountForTime, TimeoutIsDeserved
<1>5. StartedByBothInTime'
  BY <1>2, <1>3 DEF Game, StartedByBothInTime, ReadyDeadline
<1>6. HistoryIsAGame'
  BY <1>3 DEF Game, HistoryIsAGame
<1> QED BY <1>4, <1>5, <1>6 DEF Game

LEMMA Parity ==
  \A n \in Nat : /\ n % 2 = 0 => (n + 1) % 2 = 1
                 /\ n % 2 # 0 => (n + 1) % 2 = 0
OBVIOUS

\* One clock pays for the turn from s to t.
LEMMA Payment ==
  ASSUME NEW i \in Nat, NEW x \in Nat, NEW y \in Nat, NEW s \in Nat, NEW t \in Nat,
         NEW start \in Nat, (i - x) + (i - y) = s - start
  PROVE  /\ (i - (x - (t - s))) + (i - y) = t - start
         /\ (i - y) + (i - (x - (t - s))) = t - start
OBVIOUS

LEMMA PlayGame ==
  ASSUME doc \in Document, now \in Nat, Game, PlayMove
  PROVE  Game'
<1> USE DocFields
<1>1. PICK t \in 0 .. now, c \in Color, m \in Moves :
        Playable(doc, c, m, t) /\ doc' = Moved(doc, doc, c, m, t)
  BY DEF PlayMove
<1>2. /\ doc.status = "active" /\ Turn[doc.fen] = c /\ t \in Nat
      /\ doc.startAt # NoTime => t >= doc.startAt
      /\ ~ClockExpired(doc, c, t) /\ Legal(doc, m) /\ Past(doc, t)
  BY <1>1 DEF Playable, MayMove
<1>3. /\ doc.turn = c /\ doc.endReason = "none"
      /\ doc.startAt \in HandoffDelay .. (ReadyDeadline + HandoffDelay - 1)
      /\ \A x \in Color : doc.ready[x]
  BY <1>2 DEF Game, HistoryIsAGame, Undecided, StartedByBothInTime, ReadyDeadline
<1>4. doc.startAt \in Nat /\ t >= doc.startAt
  <2>1. HandoffDelay \in Nat /\ ReadyDeadline \in Nat
    BY ConstantsAssumption DEF ReadyDeadline
  <2>2. doc.startAt \in Nat
    BY <1>3, <2>1
  <2>3. doc.startAt # NoTime
    BY <2>2 DEF NoTime
  <2> QED BY <1>2, <2>2, <2>3
<1> DEFINE h == doc.history
           e == [by |-> c, uci |-> m, at |-> t]
<1>5. h \in Seq(Ply) /\ e \in Ply /\ e.by = c /\ e.at = t
  BY <1>2 DEF Ply
<1>6. /\ doc'.status \in {"active", "finished"} /\ doc'.endReason = "none"
      /\ doc'.status = "active" => doc'.result = "none" /\ doc'.turnStartedAt = t
      /\ doc'.clock = ClockSnapshot(doc, t)
      /\ doc'.ready = doc.ready /\ doc'.startAt = doc.startAt
      /\ doc'.turn = Turn[doc'.fen] /\ doc'.turn = Other(c)
      /\ doc'.history = Append(h, e)
  BY <1>1, <1>2, <1>3, MoveFields
<1>7. doc.turnStartedAt \in Nat /\ t >= doc.turnStartedAt
  <2>1. CASE h = <<>>
    BY <1>2, <1>4, <2>1 DEF Game, TurnStart
  <2>2. CASE h # <<>>
    <3>1. Len(h) \in DOMAIN h
      BY <1>5, <2>2
    <3>2. h[Len(h)] \in Ply /\ h[Len(h)].at <= t
      BY <1>2, <1>5, <3>1 DEF Past
    <3> QED BY <1>2, <2>2, <3>2 DEF Game, TurnStart, Ply
  <2> QED BY <2>1, <2>2
<1> HIDE DEF h, e
<1>8. /\ Len(h) \in Nat /\ DOMAIN h = 1 .. Len(h)
      /\ Len(doc'.history) = Len(h) + 1 /\ DOMAIN doc'.history = 1 .. (Len(h) + 1)
      /\ \A i \in 1 .. Len(h) : doc'.history[i] = h[i]
      /\ doc'.history[Len(h) + 1] = e
  BY <1>5, <1>6, AppendAt
<1>9. Undecided' /\ TimeoutIsDeserved'
  BY <1>6 DEF Undecided, TimeoutIsDeserved
<1>10. TurnStart'
  <2>1. doc'.history # <<>>
    BY <1>8
  <2> QED BY <1>5, <1>6, <1>8, <2>1 DEF TurnStart
<1>11. StartedByBothInTime'
  BY <1>3, <1>6 DEF StartedByBothInTime, ReadyDeadline
<1>12. HistoryIsAGame'
  <2>1. c = IF Len(h) % 2 = 0 THEN "w" ELSE "b"
    BY <1>3 DEF Game, HistoryIsAGame, h
  <2>2. /\ Len(h) % 2 = 0 => (Len(h) + 1) % 2 = 1
        /\ Len(h) % 2 # 0 => (Len(h) + 1) % 2 = 0
    BY <1>8, Parity
  <2>3. doc'.turn = IF Len(doc'.history) % 2 = 0 THEN "w" ELSE "b"
    BY <1>6, <1>8, <2>1, <2>2 DEF Other
  <2>4. ASSUME NEW i \in 1 .. Len(h)
        PROVE  /\ h[i].by = (IF i % 2 = 1 THEN "w" ELSE "b")
               /\ h[i].at >= doc.startAt
               /\ i > 1 => h[i].at >= h[i - 1].at
    BY <1>8 DEF Game, HistoryIsAGame, h
  <2>5. e.by = (IF (Len(h) + 1) % 2 = 1 THEN "w" ELSE "b")
    BY <1>5, <2>1, <2>2
  <2>6. \A i \in 1 .. Len(h) : h[i].at <= t
    BY <1>2, <1>8 DEF Past, h
  <2>7. ASSUME NEW i \in 1 .. (Len(h) + 1)
        PROVE  /\ doc'.history[i].by = (IF i % 2 = 1 THEN "w" ELSE "b")
               /\ doc'.history[i].at >= doc'.startAt
               /\ i > 1 => doc'.history[i].at >= doc'.history[i - 1].at
    <3>1. CASE i \in 1 .. Len(h)
      <4>1. i > 1 => i - 1 \in 1 .. Len(h)
        BY <1>8, <3>1
      <4> QED BY <1>6, <1>8, <2>4, <3>1, <4>1
    <3>2. CASE i = Len(h) + 1
      <4>1. i > 1 => i - 1 = Len(h) /\ Len(h) \in 1 .. Len(h)
        BY <1>8, <3>2
      <4>2. i > 1 => t >= h[Len(h)].at
        <5>1. i > 1 => h[Len(h)] \in Ply /\ h[Len(h)].at <= t
          BY <1>5, <1>8, <2>6, <4>1
        <5> QED BY <1>2, <5>1 DEF Ply
      <4> QED BY <1>4, <1>5, <1>6, <1>8, <2>5, <3>2, <4>1, <4>2
    <3> QED BY <1>8, <3>1, <3>2
  <2> QED BY <1>6, <1>8, <2>3, <2>7 DEF HistoryIsAGame
<1>13. ClocksAccountForTime'
  <2> SUFFICES ASSUME doc'.status = "active" PROVE ClocksAccountForTime'
    BY DEF ClocksAccountForTime
  <2>1. /\ doc'.clock[Other(c)] = doc.clock[Other(c)]
        /\ doc'.clock[c] = Clamp(doc.clock[c] - (t - doc.turnStartedAt))
    BY <1>2, <1>3, <1>6, <1>7, SnapshotValue
  <2>2. doc'.clock \in [Color -> Nat] /\ ~(doc'.clock[c] <= 0)
    BY <1>2, <1>6, SnapshotType DEF ClockExpired
  <2>3. doc'.clock[c] > 0 /\ doc'.clock[c] = doc.clock[c] - (t - doc.turnStartedAt)
    BY <1>2, <1>7, <2>1, <2>2 DEF Clamp
  <2>4. /\ (InitialClock - doc.clock["w"]) + (InitialClock - doc.clock["b"])
             = doc.turnStartedAt - doc.startAt
        /\ doc.clock["w"] > 0 /\ doc.clock["b"] > 0
    BY <1>2 DEF Game, ClocksAccountForTime, Color
  <2>5. InitialClock \in Nat /\ doc.clock["w"] \in Nat /\ doc.clock["b"] \in Nat
    BY ConstantsAssumption DEF Color
  <2>6. /\ (InitialClock - doc'.clock["w"]) + (InitialClock - doc'.clock["b"]) = t - doc.startAt
        /\ doc'.clock["w"] > 0 /\ doc'.clock["b"] > 0
    <3> DEFINE x == doc.clock["w"]
               y == doc.clock["b"]
               s == doc.turnStartedAt
               start == doc.startAt
    <3>0. /\ x \in Nat /\ y \in Nat /\ s \in Nat /\ start \in Nat /\ t \in Nat
          /\ (InitialClock - x) + (InitialClock - y) = s - start
      BY <1>2, <1>4, <1>7, <2>4, <2>5
    <3>1. CASE c = "w"
      <4>1. doc'.clock["w"] = x - (t - s) /\ doc'.clock["b"] = y
        BY <2>1, <2>3, <3>1 DEF Other
      <4>2. doc'.clock["w"] > 0 /\ doc'.clock["b"] > 0
        BY <2>3, <2>4, <3>1, <4>1
      <4> HIDE DEF x, y, s, start
      <4>3. (InitialClock - (x - (t - s))) + (InitialClock - y) = t - start
        BY <2>5, <3>0, Payment
      <4> QED BY <4>1, <4>2, <4>3 DEF start
    <3>2. CASE c = "b"
      <4>1. doc'.clock["w"] = x /\ doc'.clock["b"] = y - (t - s)
        BY <2>1, <2>3, <3>2 DEF Other
      <4>2. doc'.clock["w"] > 0 /\ doc'.clock["b"] > 0
        BY <2>3, <2>4, <3>2, <4>1
      <4> HIDE DEF x, y, s, start
      <4>3. (InitialClock - y) + (InitialClock - x) = s - start
        BY <2>5, <3>0
      <4>4. (InitialClock - x) + (InitialClock - (y - (t - s))) = t - start
        BY <2>5, <3>0, <4>3, Payment
      <4> QED BY <4>1, <4>2, <4>4 DEF start
    <3> QED BY <3>1, <3>2 DEF Color
  <2>7. doc'.turnStartedAt = t /\ doc'.startAt = doc.startAt
    BY <1>6
  <2> QED BY <2>6, <2>7 DEF ClocksAccountForTime, Color
<1> QED BY <1>9, <1>10, <1>11, <1>12, <1>13 DEF Game

LEMMA InitGame == Init => Game
<1> SUFFICES ASSUME Init PROVE Game
  OBVIOUS
<1>1. doc = NewMatch
  BY DEF Init
<1>2. /\ doc.status = "starting" /\ doc.result = "none" /\ doc.endReason = "none"
      /\ doc.history = <<>> /\ doc.turn = "w" /\ doc.fen = StartingFEN
      /\ \A c \in Color : doc.clock[c] = InitialClock
  BY <1>1 DEF NewMatch
<1>3. HistoryIsAGame
  BY <1>2, RulesAssumption DEF HistoryIsAGame
<1> QED BY <1>2, <1>3 DEF Game, Undecided, TurnStart, StartedByBothInTime,
                          ClocksAccountForTime, TimeoutIsDeserved

LEMMA NextGame ==
  ASSUME Inv, Game, [Next]_vars
  PROVE  Game'
<1>1. doc \in Document /\ now \in Nat /\ AtomicStep
  BY NextIsAtomic DEF Inv, Local, TypeOK
<1>2. CASE doc' = doc
  BY <1>2 DEF Game, Undecided, TurnStart, StartedByBothInTime, HistoryIsAGame,
              ClocksAccountForTime, TimeoutIsDeserved, ReadyDeadline
<1> QED BY <1>1, <1>2, HandoffGame, FlagGame, ConcedeGame, PlayGame DEF AtomicStep

LEMMA GameInvariant == Spec => []Game
<1>1. Inv /\ Game /\ [Next]_vars => Game'
  BY NextGame
<1> QED BY InitGame, InvInductive, <1>1, PTL DEF Spec

-----------------------------------------------------------------------------
(* The theorems about the duel.                                            *)

\* Nobody plays, wins or loses a duel that both sides did not confirm before
\* the handoff deadline.
THEOREM StartsTogether == Spec => []StartedByBothInTime
<1>1. Game => StartedByBothInTime
  BY DEF Game
<1> QED BY GameInvariant, <1>1, PTL

\* However requests interleave, are retried or abandoned, the stored history
\* is a game of alternating moves in the order of time.
THEOREM HistoryCorrect == Spec => []HistoryIsAGame
<1>1. Game => HistoryIsAGame
  BY DEF Game
<1> QED BY GameInvariant, <1>1, PTL

\* The clocks of a running duel add up to the time played, to the millisecond.
THEOREM ClocksCorrect == Spec => []ClocksAccountForTime
<1>1. Game => ClocksAccountForTime
  BY DEF Game
<1> QED BY GameInvariant, <1>1, PTL

\* A loss on time is only ever recorded against the side whose time ran out.
THEOREM TimeoutsCorrect == Spec => []TimeoutIsDeserved
<1>1. Game => TimeoutIsDeserved
  BY DEF Game
<1> QED BY GameInvariant, <1>1, PTL

-----------------------------------------------------------------------------
(* The stored position is the one the stored moves lead to.                *)

OnBoard == doc.status = "finished" /\ doc.endReason = "none"

\* The path is one of positions through the moves of the document.
Replay(path) ==
  /\ path[0] = StartingFEN /\ path[Len(doc.history)] = doc.fen
  /\ Len(doc.history) = 0 => ~OnBoard
  /\ \A i \in 1 .. Len(doc.history) :
       LET applied == ApplyUCI[path[i - 1]][doc.history[i].uci]
       IN /\ applied.legal /\ applied.fen = path[i]
          /\ applied.status = IF i = Len(doc.history) /\ OnBoard THEN "finished" ELSE "active"
          /\ i = Len(doc.history) /\ OnBoard => applied.result = doc.result

LEMMA ReplayMeaning ==
  HistoryReplays <=> \E path \in [0 .. Len(doc.history) -> Positions] : Replay(path)
BY DEF HistoryReplays, Replay, OnBoard

\* A step that is not a move and does not touch a duel won on the board.
LEMMA ReplayKept ==
  ASSUME HistoryReplays, doc'.history = doc.history, doc'.fen = doc.fen,
         (~OnBoard /\ ~OnBoard') \/ doc' = doc
  PROVE  HistoryReplays'
<1>1. PICK path \in [0 .. Len(doc.history) -> Positions] : Replay(path)
  BY ReplayMeaning
<1>2. Replay(path)'
  BY <1>1 DEF Replay, OnBoard
<1> QED BY <1>2 DEF HistoryReplays, Replay, OnBoard

LEMMA ReplayMove ==
  ASSUME doc \in Document, now \in Nat, Game, HistoryReplays, PlayMove
  PROVE  HistoryReplays'
<1>1. PICK t \in 0 .. now, c \in Color, m \in Moves :
        Playable(doc, c, m, t) /\ doc' = Moved(doc, doc, c, m, t)
  BY DEF PlayMove
<1>2. doc.status = "active" /\ Legal(doc, m) /\ t \in Nat /\ doc.endReason = "none"
  BY <1>1 DEF Playable, MayMove, Game, Undecided
<1> DEFINE h == doc.history
           n == Len(h)
           e == [by |-> c, uci |-> m, at |-> t]
           a == ApplyUCI[doc.fen][m]
<1>3. h \in Seq(Ply) /\ e \in Ply /\ e.uci = m
  BY <1>2, DocFields DEF Ply
<1>4. /\ a.legal /\ a.fen \in Positions
      /\ a.status \in {"active", "finished"}
  BY <1>2, LegalType DEF Legal
<1>5. /\ doc'.history = Append(h, e) /\ doc'.fen = a.fen /\ doc'.status = a.status
      /\ doc'.result = a.result /\ doc'.endReason = "none"
  BY <1>1, <1>2 DEF Moved, Document
<1>6. PICK path \in [0 .. n -> Positions] : Replay(path)
  BY ReplayMeaning
<1> HIDE DEF h, e, a
<1>7. /\ n \in Nat /\ Len(doc'.history) = n + 1
      /\ \A i \in 1 .. n : doc'.history[i] = h[i]
      /\ doc'.history[n + 1] = e
  BY <1>3, <1>5, AppendAt
<1> HIDE DEF n
<1> DEFINE longer == [i \in 0 .. (n + 1) |-> IF i = n + 1 THEN doc'.fen ELSE path[i]]
<1>8. longer \in [0 .. Len(doc'.history) -> Positions]
  BY <1>4, <1>5, <1>6, <1>7
<1>9. /\ longer[n + 1] = doc'.fen /\ \A i \in 0 .. n : longer[i] = path[i]
  BY <1>7
<1> HIDE DEF longer
<1>10. /\ path[0] = StartingFEN /\ path[n] = doc.fen
       /\ \A i \in 1 .. n :
            LET applied == ApplyUCI[path[i - 1]][h[i].uci]
            IN applied.legal /\ applied.fen = path[i] /\ applied.status = "active"
  BY <1>2, <1>6 DEF Replay, OnBoard, n, h
<1>11. ASSUME NEW i \in 1 .. Len(doc'.history)
       PROVE  LET applied == ApplyUCI[longer[i - 1]][doc'.history[i].uci]
              IN /\ applied.legal /\ applied.fen = longer[i]
                 /\ applied.status = IF i = Len(doc'.history) /\ OnBoard' THEN "finished" ELSE "active"
                 /\ i = Len(doc'.history) /\ OnBoard' => applied.result = doc'.result
  <2>1. CASE i = n + 1
    <3>1. longer[i - 1] = doc.fen /\ doc'.history[i].uci = m
      BY <1>3, <1>7, <1>9, <1>10, <2>1
    <3> QED BY <1>4, <1>5, <1>7, <1>9, <2>1, <3>1 DEF OnBoard, a
  <2>2. CASE i \in 1 .. n
    <3>1. longer[i - 1] = path[i - 1] /\ longer[i] = path[i] /\ doc'.history[i] = h[i]
      BY <1>7, <1>9, <2>2
    <3>2. i # Len(doc'.history)
      BY <1>7, <2>2
    <3>3. LET applied == ApplyUCI[path[i - 1]][h[i].uci]
          IN applied.legal /\ applied.fen = path[i] /\ applied.status = "active"
      BY <1>10, <2>2
    <3> HIDE DEF OnBoard
    <3> QED BY <3>1, <3>2, <3>3
  <2> QED BY <1>7, <2>1, <2>2
<1>12. longer[0] = StartingFEN
  BY <1>7, <1>9, <1>10
<1>13. longer[Len(doc'.history)] = doc'.fen /\ Len(doc'.history) # 0
  BY <1>7, <1>9
<1> QED BY <1>8, <1>11, <1>12, <1>13 DEF HistoryReplays, OnBoard

LEMMA ReplayStep ==
  ASSUME doc \in Document, now \in Nat, Game, HistoryReplays, AtomicStep
  PROVE  HistoryReplays'
<1>1. CASE doc' = doc
  BY <1>1, ReplayKept
<1>2. CASE Handoff
  <2>1. doc.status = "starting" /\ HandoffDelay \in Nat
    BY <1>2, ConstantsAssumption DEF Handoff
  <2>2. doc'.history = doc.history /\ doc'.fen = doc.fen
    BY <1>2 DEF Handoff, ReadyUpdate, Cancelled, Document
  <2>3. doc'.status # "finished"
    BY <1>2, <2>1 DEF Handoff, ReadyUpdate, Cancelled, Document
  <2> QED BY <2>1, <2>2, <2>3, ReplayKept DEF OnBoard
<1>3. CASE Flag \/ Concede
  <2>1. doc.status = "active"
    BY <1>3 DEF Flag, Concede
  <2>2. /\ doc'.endReason \in {"timeout", "disconnect", "resignation"}
        /\ doc'.fen = doc.fen /\ doc'.history = doc.history
    BY <1>3, FinishFields DEF Flag, Concede
  <2> QED BY <2>1, <2>2, ReplayKept DEF OnBoard
<1> QED BY <1>1, <1>2, <1>3, ReplayMove DEF AtomicStep

\* Position, score and result are written together and from one snapshot: the
\* position a player is shown is the one the stored moves lead to, and a duel
\* is won on the board only by the move that won it.
THEOREM PositionsReplay == Spec => []HistoryReplays
<1>1. Init => HistoryReplays
  <2> SUFFICES ASSUME Init PROVE HistoryReplays
    OBVIOUS
  <2>1. /\ doc.history = <<>> /\ doc.fen = StartingFEN /\ ~OnBoard
    BY DEF Init, NewMatch, OnBoard
  <2>2. Len(doc.history) = 0 /\ StartingFEN \in Positions
    BY <2>1, RulesAssumption
  <2>3. [i \in 0 .. 0 |-> StartingFEN] \in [0 .. Len(doc.history) -> Positions]
    BY <2>2
  <2>4. Replay([i \in 0 .. 0 |-> StartingFEN])
    BY <2>1, <2>2 DEF Replay
  <2> QED BY <2>3, <2>4, ReplayMeaning
<1>2. Inv /\ Game /\ HistoryReplays /\ [Next]_vars => HistoryReplays'
  <2> SUFFICES ASSUME Inv, Game, HistoryReplays, [Next]_vars PROVE HistoryReplays'
    OBVIOUS
  <2>1. doc \in Document /\ now \in Nat /\ AtomicStep
    BY NextIsAtomic DEF Inv, Local, TypeOK
  <2> QED BY <2>1, ReplayStep
<1> QED BY InvInductive, GameInvariant, <1>1, <1>2, PTL DEF Spec

-----------------------------------------------------------------------------
(* The refinement.                                                         *)

\* The abstract view of the document.
ReadySides == {c \in Color : doc.ready[c]}

LEMMA HandoffRefines ==
  ASSUME doc \in Document, Game, Handoff
  PROVE  [DuelView!Next]_(DuelView!duel)
<1> USE DocFields
<1>0. doc.status = "starting"
  BY DEF Handoff
<1>1. ASSUME NEW c \in Color, doc' = [doc EXCEPT !.ready[c] = TRUE, !.revision = @ + 1]
      PROVE  DuelView!Confirm(c)
  <2>1. /\ doc'.ready = [doc.ready EXCEPT ![c] = TRUE] /\ doc'.status = doc.status
        /\ doc'.history = doc.history /\ doc'.result = doc.result
    BY <1>1, MarkFields
  <2>2. ReadySides' = ReadySides \cup {c}
    BY <2>1 DEF ReadySides
  <2> QED BY <1>0, <2>1, <2>2 DEF DuelView!Confirm, ReadySides
<1>2. ASSUME NEW c \in Color, NEW t \in Nat, doc' = ReadyUpdate(doc, doc, c, t), doc.ready[Other(c)]
      PROVE  DuelView!Activate
  <2>1. /\ doc'.ready = [doc.ready EXCEPT ![c] = TRUE] /\ doc'.status = "active"
        /\ doc'.history = doc.history /\ doc'.result = doc.result
    BY <1>2, ActivateFields
  <2>2. ReadySides' = {"w", "b"} /\ {"w", "b"} \ {c} \subseteq ReadySides
    BY <1>2, <2>1 DEF ReadySides, Color, Other
  <2> QED BY <1>0, <2>1, <2>2 DEF DuelView!Activate, DuelView!Sides, ReadySides, Color
<1>3. ASSUME NEW reason, doc' = Cancelled(doc, reason)
      PROVE  DuelView!Cancel
  <2>1. /\ doc'.status = "cancelled" /\ doc'.result = "none" /\ doc'.ready = doc.ready
        /\ doc'.history = doc.history /\ doc.result = "none"
    BY <1>0, <1>3, CancelFields DEF Game, Undecided
  <2> QED BY <1>0, <2>1 DEF DuelView!Cancel
<1>4. ASSUME NEW c \in Color, NEW t, doc' = ReadyUpdate(doc, doc, c, t), ~doc.ready[Other(c)]
      PROVE  DuelView!Confirm(c)
  BY <1>1, <1>4 DEF ReadyUpdate
<1> QED BY <1>1, <1>2, <1>3, <1>4 DEF Handoff, DuelView!Next, DuelView!Sides, Color

LEMMA PlayRefines ==
  ASSUME doc \in Document, now \in Nat, Game, PlayMove
  PROVE  DuelView!Play
<1>1. PICK t \in 0 .. now, c \in Color, m \in Moves :
        Playable(doc, c, m, t) /\ doc' = Moved(doc, doc, c, m, t)
  BY DEF PlayMove
<1>2. doc.status = "active" /\ Legal(doc, m) /\ t \in Nat
  BY <1>1 DEF Playable, MayMove
<1>3. doc.endReason = "none" /\ doc.result = "none"
  BY <1>2 DEF Game, Undecided
<1>4. /\ doc'.status \in {"active", "finished"}
      /\ doc'.status = "active" => doc'.result = "none"
      /\ doc'.status = "finished" => doc'.result \in Results \ {"none"}
      /\ doc'.ready = doc.ready
      /\ doc'.history = Append(doc.history, [by |-> c, uci |-> m, at |-> t])
  BY <1>1, <1>2, <1>3, MoveFields
<1>5. Len(doc'.history) = Len(doc.history) + 1
  <2>1. doc.history \in Seq(Ply) /\ [by |-> c, uci |-> m, at |-> t] \in Ply
    BY <1>2, DocFields DEF Ply
  <2> QED BY <1>4, <2>1, AppendAt
<1> QED BY <1>2, <1>3, <1>4, <1>5 DEF DuelView!Play, DuelView!Decided, Results

LEMMA DecideRefines ==
  ASSUME doc \in Document, now \in Nat, Flag \/ Concede
  PROVE  DuelView!Decide
<1>1. ASSUME NEW clocks, NEW c \in Color, NEW reason, doc.status = "active",
             doc' = Finished(doc, clocks, WinFor(c), reason)
      PROVE  DuelView!Decide
  <2>1. /\ doc'.status = "finished" /\ doc'.result = WinFor(c) /\ doc'.ready = doc.ready
        /\ doc'.history = doc.history
    BY <1>1, FinishFields
  <2> QED BY <1>1, <2>1 DEF DuelView!Decide, WinFor
<1>2. CASE Flag
  <2>1. PICK t \in 0 .. now :
          doc' = Finished(doc, ClockSnapshot(doc, t), WinFor(Other(doc.turn)), "timeout")
    BY <1>2 DEF Flag
  <2>2. doc.status = "active" /\ Other(doc.turn) \in Color
    BY <1>2, DocFields, WinForType DEF Flag
  <2> QED BY <1>1, <2>1, <2>2
<1>3. CASE Concede
  BY <1>1, <1>3 DEF Concede
<1> QED BY <1>2, <1>3

\* The handlers implement the atomic duel: whatever a player can observe of
\* the lifecycle could have been produced without any concurrency.
THEOREM Refinement == Spec => ImplementsDuel
<1>1. Init => DuelView!Init
  <2> SUFFICES ASSUME Init PROVE DuelView!Init
    OBVIOUS
  <2>1. doc = NewMatch
    BY DEF Init
  <2>2. /\ doc.status = "starting" /\ doc.result = "none" /\ doc.history = <<>>
        /\ doc.ready = [c \in Color |-> FALSE]
    BY <2>1 DEF NewMatch
  <2>3. {c \in Color : doc.ready[c]} = {} /\ Len(doc.history) = 0
    BY <2>2
  <2> QED BY <2>2, <2>3 DEF DuelView!Init
<1>2. Inv /\ Game /\ [Next]_vars => [DuelView!Next]_(DuelView!duel)
  <2> SUFFICES ASSUME Inv, Game, [Next]_vars PROVE [DuelView!Next]_(DuelView!duel)
    OBVIOUS
  <2>1. doc \in Document /\ now \in Nat /\ AtomicStep
    BY NextIsAtomic DEF Inv, Local, TypeOK
  <2>2. CASE doc' = doc
    BY <2>2 DEF DuelView!duel
  <2>3. CASE Flag \/ Concede
    BY <2>1, <2>3, DecideRefines DEF DuelView!Next
  <2>4. CASE PlayMove
    BY <2>1, <2>4, PlayRefines DEF DuelView!Next
  <2> QED BY <2>1, <2>2, <2>3, <2>4, HandoffRefines DEF AtomicStep
<1> QED BY InvInductive, GameInvariant, <1>1, <1>2, PTL DEF Spec, ImplementsDuel, DuelView!Spec

-----------------------------------------------------------------------------
(* A forfeit by disconnect: what the grace marks and the instants of the   *)
(* requests in flight say about when the loser was last seen.              *)

\* The operations that work with an instant the handler took itself.
Stamped ==
  {"ready_touch", "ready_virtual", "ready_timeout", "ready_commit", "touch_read", "touch",
   "virtual_touch", "virtual_commit", "handoff_timeout", "grace_begin", "grace_commit"}

\* A prompt request works with the current instant.  One about to forfeit the
\* rival saw the grace served, unless the rival has just come back.
Due(w) ==
  /\ pc[w] \in Stamped => at[w] = now
  /\ pc[w] \in {"grace_begin", "grace_commit"} => doc.status # "starting"
  /\ pc[w] = "grace_commit" /\ doc.status = "active" =>
       seen[rival(w)] = now \/ now - seen[rival(w)] >= GracePeriod

\* A grace mark is never older than the last sign of life of its player.
Marks == \A c \in Color : seen[c] <= now /\ (grace[c] # NoTime => grace[c] >= seen[c])

ForfeitInv == Marks /\ (\A w \in Workers : Due(w)) /\ GraceIsServed

LEMMA LeaveDue ==
  ASSUME LocalTypes, NEW w \in Workers, NEW label, Goto(w, label), label \notin Stamped
  PROVE  Due(w)'
<1>1. pc'[w] = label
  BY DEF LocalTypes, Goto
<1> QED BY <1>1 DEF Due, Stamped

LEMMA ReturnDue ==
  ASSUME LocalTypes, NEW w \in Workers, Return(w)
  PROVE  Due(w)'
BY LeaveDue DEF Return, Stamped

LEMMA AgainDue ==
  ASSUME LocalTypes, NEW w \in Workers, NEW limit, NEW label, label \notin Stamped,
         Again(w, limit, label)
  PROVE  Due(w)'
BY LeaveDue, ReturnDue DEF Again, Resume

LEMMA FromTimeoutDue ==
  ASSUME LocalTypes, NEW w \in Workers, FromTimeout(w)
  PROVE  Due(w)'
<1>1. ret[w] \notin Stamped
  BY DEF LocalTypes, Stamped
<1> QED BY <1>1, LeaveDue, ReturnDue DEF FromTimeout, Resume

\* A request that goes on with the instant it has, to any of these
\* operations but the two of the grace.
LEMMA KeepDue ==
  ASSUME LocalTypes, NEW w \in Workers, NEW label, Goto(w, label), at'[w] = now, now' = now,
         label \notin {"grace_begin", "grace_commit"}
  PROVE  Due(w)'
<1>1. pc'[w] = label
  BY DEF LocalTypes, Goto
<1> QED BY <1>1 DEF Due

LEMMA ContinueDue ==
  ASSUME LocalTypes, NEW w \in Workers, NEW d, NEW label, Continue(w, d, label),
         at[w] = now, now' = now, label \notin {"grace_begin", "grace_commit"}
  PROVE  Due(w)'
<1>1. CASE label = "idle"
  BY <1>1, ReturnDue DEF Continue
<1>2. CASE label = "timeout_read"
  BY <1>2, LeaveDue DEF Continue, Stamped
<1>3. CASE label \notin {"idle", "timeout_read"}
  <2>1. at'[w] = at[w] /\ Goto(w, label)
    BY <1>3 DEF Continue, LocalTypes
  <2> QED BY <2>1, KeepDue
<1> QED BY <1>1, <1>2, <1>3

LEMMA ReadyContinueDue ==
  ASSUME LocalTypes, NEW w \in Workers, NEW d, ReadyContinue(w, d), at[w] = now, now' = now
  PROVE  Due(w)'
<1>1. CASE Return(w)
  BY <1>1, ReturnDue
<1>2. CASE Goto(w, ReadyStep(d, me(w), at[w])) /\ UNCHANGED <<req, at, locals>>
  <2>1. ReadyStep(d, me(w), at[w]) \notin {"grace_begin", "grace_commit"}
    BY DEF ReadyStep
  <2> QED BY <1>2, <2>1, KeepDue
<1> QED BY <1>1, <1>2 DEF ReadyContinue

LEMMA ToResidentDue ==
  ASSUME LocalTypes, NEW w \in Workers, NEW d, ToResident(w, d)
  PROVE  Due(w)'
BY LeaveDue, ReturnDue DEF ToResident, Stamped

LEMMA GraceStepDue ==
  ASSUME LocalTypes, NEW w \in Workers, NEW d, NEW g \in Nat \cup {NoTime}, NEW t,
         GraceStep(w, d, g, t), t = now, now \in Nat, UNCHANGED <<doc, seen, now>>,
         doc.status # "starting", seen[rival(w)] \in Nat \cup {NoTime},
         doc.status = "active" => seen[rival(w)] <= g
  PROVE  Due(w)'
<1>1. CASE Resume(w, "reconciled")
  BY <1>1, LeaveDue DEF Resume, Stamped
<1>2. CASE ~(g = NoTime \/ g + GracePeriod > t) /\ Goto(w, "grace_commit")
           /\ at' = [at EXCEPT ![w] = t] /\ UNCHANGED <<req, locals>>
  <2>1. pc'[w] = "grace_commit" /\ at'[w] = now
    BY <1>2 DEF LocalTypes, Goto
  <2>2. rival(w)' = rival(w)
    BY <1>2 DEF rival
  <2>3. doc.status = "active" => now - seen[rival(w)] >= GracePeriod
    BY <1>2, ConstantsAssumption DEF NoTime
  <2> QED BY <2>1, <2>2, <2>3 DEF Due
<1> QED BY <1>1, <1>2 DEF GraceStep

\* What a step of request w may do to the presence of the players: someone is
\* seen now and loses the grace mark, or the rival of w is marked.
Seen(w) ==
  \/ UNCHANGED presence
  \/ \E c \in Color : SetSeen(c, now)
  \/ /\ UNCHANGED seen
     /\ \E t \in Nat : t >= seen[rival(w)] /\ grace' = [grace EXCEPT ![rival(w)] = t]

LEMMA SeenMarks ==
  ASSUME Inv, NEW w \in Workers, Marks, Seen(w), UNCHANGED now
  PROVE  Marks' /\ \A c \in Color : seen'[c] \in {seen[c], now}
<1>0. /\ seen \in [Color -> Nat \cup {NoTime}] /\ grace \in [Color -> Nat \cup {NoTime}]
      /\ now \in Nat /\ rival(w) \in Color
  BY TypeParts, WorkerTypes DEF Inv, Local, SharedTypes
<1>1. CASE UNCHANGED presence
  BY <1>1 DEF Marks, presence
<1>2. ASSUME NEW c \in Color, SetSeen(c, now)
      PROVE  Marks' /\ \A x \in Color : seen'[x] \in {seen[x], now}
  BY <1>0, <1>2 DEF SetSeen, Marks, NoTime
<1>3. ASSUME UNCHANGED seen, NEW t \in Nat, t >= seen[rival(w)],
             grace' = [grace EXCEPT ![rival(w)] = t]
      PROVE  Marks' /\ \A x \in Color : seen'[x] \in {seen[x], now}
  BY <1>0, <1>3 DEF Marks
<1> QED BY <1>1, <1>2, <1>3 DEF Seen

\* Each operation keeps what its request knows, and says what it writes about
\* presence.
Prompted(w) == Due(w)' /\ Seen(w)

LEMMA ReadyDue ==
  ASSUME Inv, NEW w \in Workers, Due(w),
         ReadyTouch(w) \/ ReadyCommit(w) \/ ReadyMiss(w) \/ ReadyRetry(w)
  PROVE  Prompted(w)
<1>0. /\ LocalTypes /\ me(w) \in Color /\ rival(w) \in Color /\ now' = now
      /\ pc[w] \in {"ready_touch", "ready_virtual", "ready_timeout", "ready_commit"} => at[w] = now
  BY TypeParts, WorkerTypes
     DEF Inv, Local, ReadyTouch, ReadyCommit, ReadyMiss, ReadyRetry, Due, Stamped
<1>1. CASE ReadyTouch(w)
  BY <1>0, <1>1, ReadyContinueDue DEF ReadyTouch, Prompted, Seen
<1>2. ASSUME ReadyWrite(w) PROVE Seen(w)
  BY <1>0, <1>2 DEF ReadyWrite, Seen
<1>3. CASE ReadyCommit(w)
  <2>1. Seen(w)
    BY <1>2, <1>3 DEF ReadyCommit
  <2>2. CASE pc[w] = "ready_virtual"
    BY <1>0, <1>3, <2>1, <2>2, ReadyContinueDue DEF ReadyCommit, Prompted
  <2>3. CASE pc[w] # "ready_virtual"
    BY <1>0, <1>3, <2>1, <2>3, ReturnDue DEF ReadyCommit, Prompted
  <2> QED BY <2>2, <2>3
<1>4. CASE ReadyMiss(w)
  <2>1. Seen(w)
    BY <1>4 DEF ReadyMiss, Seen
  <2>2. CASE Return(w)
    BY <1>0, <2>1, <2>2, ReturnDue DEF Prompted
  <2>3. CASE Goto(w, "ready_touch") /\ UNCHANGED at
    BY <1>0, <1>4, <2>1, <2>3, KeepDue DEF ReadyMiss, Prompted
  <2> QED BY <1>4, <2>2, <2>3 DEF ReadyMiss
<1>5. CASE ReadyRetry(w)
  <2>1. Seen(w)
    BY <1>2, <1>5 DEF ReadyRetry, Seen
  <2>2. at[w] = now
    BY <1>0, <1>5 DEF ReadyRetry, Inv, Local, LocalOK, Flow
  <2> QED BY <1>0, <1>5, <2>1, <2>2, KeepDue DEF ReadyRetry, Prompted
<1> QED BY <1>1, <1>3, <1>4, <1>5

LEMMA EnterDue ==
  ASSUME Inv, NEW w \in Workers, Start(w)
  PROVE  Prompted(w)
<1>0. LocalTypes
  BY TypeParts DEF Inv, Local
<1>1. PICK kind \in AllKinds : \E c, m : Begin(w, kind, c, m)
  BY ConstantsAssumption DEF Start, AllKinds
<1>2. Goto(w, Entry(kind)) /\ at'[w] = now /\ UNCHANGED <<presence, now>>
  BY <1>0, <1>1 DEF Begin, Stamp, LocalTypes
<1>3. Entry(kind) \notin {"grace_begin", "grace_commit"}
  BY DEF Entry, AllKinds
<1> QED BY <1>0, <1>2, <1>3, KeepDue DEF Prompted, Seen

\* The operations of reads, pulses and moves up to the handoff's deadline.
LEMMA TouchDue ==
  ASSUME Inv, NEW w \in Workers, Due(w),
         TouchRead(w) \/ Touch(w) \/ VirtualTouch(w) \/ VirtualCommit(w) \/ VirtualRetry(w)
           \/ HandoffTimeout(w)
  PROVE  Prompted(w)
<1>0. /\ LocalTypes /\ me(w) \in Color /\ rival(w) \in Color /\ now' = now
      /\ at[w] = now /\ doc \in Document
  BY TypeParts, WorkerTypes
     DEF Inv, Local, SharedTypes, TouchRead, Touch, VirtualTouch, VirtualCommit, VirtualRetry,
         HandoffTimeout, Due, Stamped
<1>1. \A d, t : ReadStep(d, t) \notin {"grace_begin", "grace_commit"}
  BY DEF ReadStep
<1>2. CASE TouchRead(w)
  BY <1>0, <1>2, KeepDue DEF TouchRead, Prompted, Seen
<1>3. CASE Touch(w)
  <2> DEFINE label == CASE req[w].kind = "move" -> "timeout_read"
                        [] req[w].kind = "pulse" -> "idle"
                        [] OTHER -> IF doc.status = "starting" /\ rival(w) \in Virtual
                                      THEN "virtual_touch" ELSE ReadStep(doc, at[w])
  <2>1. SetSeen(me(w), at[w]) /\ Continue(w, doc, label)
    BY <1>3 DEF Touch
  <2>2. label \notin {"grace_begin", "grace_commit"}
    BY <1>1
  <2> HIDE DEF label
  <2> QED BY <1>0, <2>1, <2>2, ContinueDue DEF Prompted, Seen
<1>4. CASE VirtualTouch(w)
  <2> DEFINE label == IF doc.status = "starting" /\ ~doc.ready[rival(w)]
                        THEN "virtual_commit" ELSE ReadStep(doc, at[w])
  <2>1. SetSeen(rival(w), at[w]) /\ Continue(w, doc, label)
    BY <1>4 DEF VirtualTouch
  <2>2. label \notin {"grace_begin", "grace_commit"}
    BY <1>1
  <2> HIDE DEF label
  <2> QED BY <1>0, <2>1, <2>2, ContinueDue DEF Prompted, Seen
<1>5. CASE VirtualCommit(w)
  BY <1>0, <1>1, <1>5, ContinueDue DEF VirtualCommit, Prompted, Seen
<1>6. CASE VirtualRetry(w)
  BY <1>0, <1>6, KeepDue DEF VirtualRetry, Prompted, Seen
<1>7. CASE HandoffTimeout(w)
  <2>1. CASE Return(w)
    BY <1>0, <1>7, <2>1, ReturnDue DEF HandoffTimeout, Prompted, Seen
  <2>2. CASE Continue(w, doc, IF doc.status = "active" THEN "timeout_read" ELSE "idle")
    BY <1>0, <1>7, <2>2, ContinueDue DEF HandoffTimeout, Prompted, Seen
  <2> QED BY <1>7, <2>1, <2>2 DEF HandoffTimeout
<1> QED BY <1>2, <1>3, <1>4, <1>5, <1>6, <1>7

\* The operations after which the instant is taken anew or not used again.
LEMMA OtherDue ==
  ASSUME Inv, NEW w \in Workers, Due(w),
         \/ CancelRead(w) \/ CancelCommit(w) \/ TimeoutRead(w) \/ TimeoutCommit(w) \/ Reread(w)
         \/ Reconciled(w) \/ MoveRead(w) \/ MoveExpired(w) \/ MoveCommit(w)
         \/ ResidentPrepare(w) \/ ResidentCommit(w) \/ ResignRead(w) \/ ResignCommit(w)
         \/ Abort(w)
  PROVE  Prompted(w)
<1>0. LocalTypes
  BY TypeParts DEF Inv, Local
<1>1. Seen(w)
  BY DEF CancelRead, CancelCommit, TimeoutRead, TimeoutCommit, Reread, Reconciled, MoveRead,
         MoveExpired, MoveCommit, ResidentPrepare, ResidentCommit, ResignRead, ResignCommit,
         Abort, Seen
<1>2. CASE CancelRead(w) \/ CancelCommit(w) \/ ResignRead(w) \/ ResignCommit(w) \/ Abort(w)
  BY <1>0, <1>1, <1>2, LeaveDue, ReturnDue, AgainDue
     DEF CancelRead, CancelCommit, ResignRead, ResignCommit, Abort, Prompted, Stamped
<1>3. CASE TimeoutRead(w) \/ TimeoutCommit(w)
  BY <1>0, <1>1, <1>3, LeaveDue, FromTimeoutDue DEF TimeoutRead, TimeoutCommit, Prompted, Stamped
<1>4. CASE Reread(w)
  BY <1>0, <1>1, <1>4, LeaveDue, ReturnDue DEF Reread, Resume, Prompted, Stamped
<1>5. CASE Reconciled(w)
  BY <1>0, <1>1, <1>5, LeaveDue, ReturnDue, ToResidentDue
     DEF Reconciled, Expire, Prompted, Stamped
<1>6. CASE MoveRead(w)
  <2>1. CASE Return(w)
    BY <1>0, <1>1, <2>1, ReturnDue DEF Prompted
  <2>2. CASE Goto(w, "touch_read") /\ Stamp(w)
    <3>1. at'[w] = now /\ now' = now
      BY <1>0, <1>6, <2>2 DEF MoveRead, Stamp, LocalTypes
    <3> QED BY <1>0, <1>1, <2>2, <3>1, KeepDue DEF Prompted
  <2> QED BY <1>6, <2>1, <2>2 DEF MoveRead
<1>7. CASE MoveExpired(w) \/ MoveCommit(w)
  BY <1>0, <1>1, <1>7, ReturnDue, AgainDue, ToResidentDue
     DEF MoveExpired, MoveCommit, Prompted, Stamped
<1>8. CASE ResidentPrepare(w) \/ ResidentCommit(w)
  BY <1>0, <1>1, <1>8, LeaveDue, ReturnDue
     DEF ResidentPrepare, ResidentCommit, Expire, Prompted, Stamped
<1> QED BY <1>2, <1>3, <1>4, <1>5, <1>6, <1>7, <1>8

LEMMA GraceDue ==
  ASSUME Inv, NEW w \in Workers, Due(w), Marks,
         GraceRead(w) \/ GraceBegin(w) \/ GraceCommit(w)
  PROVE  Prompted(w)
<1>0. /\ LocalTypes /\ rival(w) \in Color /\ now \in Nat /\ now' = now
      /\ seen[rival(w)] \in Nat \cup {NoTime} /\ grace[rival(w)] \in Nat \cup {NoTime}
      /\ graceAt[w] \in Nat \cup {NoTime} /\ at[w] \in Nat
  BY TypeParts, WorkerTypes
     DEF Inv, Local, SharedTypes, LocalTypes, GraceRead, GraceBegin, GraceCommit
<1>1. seen[rival(w)] <= now
      /\ (grace[rival(w)] # NoTime => grace[rival(w)] >= seen[rival(w)])
  BY <1>0 DEF Marks
<1>2. CASE GraceRead(w)
  <2>1. Seen(w) /\ UNCHANGED <<doc, seen, now>>
    BY <1>2 DEF GraceRead, Seen, presence
  <2>2. CASE Resume(w, "reconciled")
    BY <1>0, <2>1, <2>2, LeaveDue DEF Resume, Stamped, Prompted
  <2>3. CASE doc.status = "active" /\ Goto(w, "grace_begin") /\ Stamp(w)
    <3>1. pc'[w] = "grace_begin" /\ at'[w] = now
      BY <1>0, <2>3 DEF LocalTypes, Goto, Stamp
    <3> QED BY <1>0, <2>1, <2>3, <3>1 DEF Due, Prompted
  <2>4. CASE doc.status = "active" /\ grace[rival(w)] # NoTime
             /\ GraceStep(w, doc, grace[rival(w)], now)
    <3>1. doc.status # "starting"
      BY <2>4
    <3>2. Due(w)'
      BY <1>0, <1>1, <2>1, <2>4, <3>1, GraceStepDue
    <3> QED BY <2>1, <3>2 DEF Prompted
  <2> QED BY <1>2, <2>2, <2>3, <2>4 DEF GraceRead
<1>3. CASE GraceBegin(w)
  <2>1. at[w] = now /\ doc.status # "starting" /\ UNCHANGED <<doc, seen, now>>
    BY <1>3 DEF GraceBegin, Due, Stamped
  <2>2. CASE doc.status = "active"
    <3> DEFINE g == grace[rival(w)]
               begun == IF ~live[w] \/ g = NoTime \/ at[w] < g THEN at[w] ELSE g
    <3>1. grace' = [grace EXCEPT ![rival(w)] = begun] /\ GraceStep(w, doc, begun, at[w])
      BY <1>3, <2>2 DEF GraceBegin
    <3>2. begun \in Nat /\ begun >= seen[rival(w)]
      BY <1>0, <1>1, <2>1 DEF NoTime
    <3> HIDE DEF begun
    <3>3. Seen(w)
      BY <2>1, <3>1, <3>2 DEF Seen
    <3>4. seen[rival(w)] <= begun
      BY <1>0, <3>2 DEF NoTime
    <3>5. Due(w)'
      BY <1>0, <2>1, <2>2, <3>1, <3>2, <3>4, GraceStepDue
    <3> QED BY <3>3, <3>5 DEF Prompted
  <2>3. CASE doc.status # "active"
    <3>1. UNCHANGED grace /\ GraceStep(w, row[w], graceAt[w], at[w])
      BY <1>3, <2>3 DEF GraceBegin
    <3>2. Seen(w)
      BY <2>1, <3>1 DEF Seen, presence
    <3>3. Due(w)'
      BY <1>0, <2>1, <2>3, <3>1, GraceStepDue
    <3> QED BY <3>2, <3>3 DEF Prompted
  <2> QED BY <2>2, <2>3
<1>4. CASE GraceCommit(w)
  BY <1>0, <1>4, LeaveDue DEF GraceCommit, Resume, Seen, Stamped, Prompted
<1> QED BY <1>2, <1>3, <1>4

LEMMA StepDue ==
  ASSUME Inv, NEW w \in Workers, Due(w), Marks, Start(w) \/ Step(w) \/ Abort(w)
  PROVE  Prompted(w)
BY EnterDue, ReadyDue, TouchDue, OtherDue, GraceDue DEF Step

\* Only the commit of a forfeit records one.
LEMMA OnlyForfeits ==
  ASSUME Inv, NEW w \in Workers, Start(w) \/ Step(w) \/ Abort(w),
         doc.endReason # "disconnect", doc'.endReason = "disconnect"
  PROVE  /\ pc[w] = "grace_commit" /\ doc.status = "active"
         /\ doc'.result = WinFor(me(w)) /\ UNCHANGED presence
<1>0. doc \in Document
  BY DEF Inv, Local, TypeOK
<1>1. SameRevision(w) => row[w] = doc
  BY DEF Inv, Pinned, RevisionPinsDocument, SameRevision
<1>2. \A reason : Cancelled(doc, reason).endReason = reason
  BY <1>0 DEF Cancelled, Document
<1>3. \A clocks, r, reason : /\ Finished(doc, clocks, r, reason).endReason = reason
                             /\ Finished(doc, clocks, r, reason).result = r
  BY <1>0 DEF Finished, Document
<1>4. \A c, m, t : Moved(doc, doc, c, m, t).endReason \in {"none", doc.endReason}
  BY <1>0 DEF Moved, Document
<1>5. \A c : [doc EXCEPT !.ready[c] = TRUE, !.revision = @ + 1].endReason = doc.endReason
  BY <1>0 DEF Document
<1>6. ASSUME NEW s, NEW c, NEW t PROVE ReadyUpdate(doc, s, c, t).endReason = doc.endReason
  <2> DEFINE marked == [doc EXCEPT !.ready[c] = TRUE, !.revision = @ + 1]
  <2>1. [marked EXCEPT !.status = "active", !.startAt = t + HandoffDelay,
                       !.turnStartedAt = t + HandoffDelay].endReason = marked.endReason
    BY <1>0 DEF Document
  <2>2. ReadyUpdate(doc, s, c, t) \in {marked,
          [marked EXCEPT !.status = "active", !.startAt = t + HandoffDelay,
                         !.turnStartedAt = t + HandoffDelay]}
    BY DEF ReadyUpdate
  <2> HIDE DEF marked
  <2>3. marked.endReason = doc.endReason
    BY <1>5 DEF marked
  <2> QED BY <2>1, <2>2, <2>3
<1>7. ~ReadyWrite(w)
  <2>1. doc' # [doc EXCEPT !.ready[rival(w)] = TRUE, !.revision = @ + 1]
    BY <1>5
  <2>2. doc' # Cancelled(doc, "handoff_timeout") /\ doc' # ReadyUpdate(doc, row[w], me(w), at[w])
    BY <1>2, <1>6
  <2> QED BY <2>1, <2>2 DEF ReadyWrite
<1>8. ~VirtualWrite(w)
  BY <1>5 DEF VirtualWrite
<1>9. ~(ReadyCommit(w) \/ ReadyRetry(w) \/ VirtualCommit(w) \/ VirtualRetry(w))
  BY <1>7, <1>8 DEF ReadyCommit, ReadyRetry, VirtualCommit, VirtualRetry
<1>10. ~(CancelCommit(w) \/ HandoffTimeout(w) \/ TimeoutCommit(w) \/ ResignCommit(w))
  BY <1>2, <1>3 DEF CancelCommit, HandoffTimeout, TimeoutCommit, ResignCommit
<1>11. ~(MoveCommit(w) \/ ResidentCommit(w))
  BY <1>1, <1>4 DEF MoveCommit, ResidentCommit
<1>12. ~(Start(w) \/ Abort(w) \/ ReadyTouch(w) \/ ReadyMiss(w) \/ CancelRead(w) \/ TouchRead(w)
         \/ Touch(w) \/ VirtualTouch(w) \/ TimeoutRead(w) \/ Reread(w) \/ GraceRead(w)
         \/ GraceBegin(w) \/ Reconciled(w) \/ MoveRead(w) \/ MoveExpired(w)
         \/ ResidentPrepare(w) \/ ResignRead(w))
  BY DEF Start, Begin, Abort, ReadyTouch, ReadyMiss, CancelRead, TouchRead, Touch, VirtualTouch,
         TimeoutRead, Reread, GraceRead, GraceBegin, Reconciled, MoveRead, MoveExpired,
         ResidentPrepare, ResignRead
<1>13. GraceCommit(w)
  BY <1>9, <1>10, <1>11, <1>12 DEF Step
<1> QED BY <1>3, <1>13 DEF GraceCommit

LEMMA ForfeitStep ==
  ASSUME Inv, ForfeitInv, NEW w \in Workers, Start(w) \/ Step(w) \/ Abort(w), VerdictUpdate
  PROVE  ForfeitInv'
<1>0. /\ SharedTypes /\ LocalTypes /\ doc \in Document /\ now \in Nat
      /\ \A v \in Workers : rival(v) \in Color
      /\ ReconnectingWindow \in Nat
  BY TypeParts, WorkerTypes, ConstantsAssumption DEF Inv, Local, SharedTypes
<1>1. StepOK(w) /\ AtomicStep /\ now' = now
  BY EveryStepOK, EveryStepIsAtomic DEF Inv
<1>2. Due(w)' /\ Seen(w)
  BY StepDue DEF ForfeitInv, Prompted
<1>3. Marks' /\ \A c \in Color : seen'[c] \in {seen[c], now}
  BY <1>1, <1>2, SeenMarks DEF ForfeitInv
<1>4. doc'.status = "starting" => doc.status = "starting"
  <2>1. CASE PlayMove
    <3>1. PICK t \in 0 .. now, c \in Color, m \in Moves :
            Legal(doc, m) /\ doc' = Moved(doc, doc, c, m, t)
      BY <2>1 DEF PlayMove, Playable
    <3>2. doc'.status = ApplyUCI[doc.fen][m].status
      BY <1>0, <3>1 DEF Moved, Document
    <3> QED BY <1>0, <3>1, <3>2, LegalType
  <2>2. CASE Flag \/ Concede
    BY <1>0, <2>2, FinishFields DEF Flag, Concede
  <2> QED BY <1>1, <2>1, <2>2 DEF AtomicStep, Handoff
<1>5. doc'.status = "active" => doc.status \in {"starting", "active"}
  BY <1>0, <1>1 DEF AtomicStep, Handoff, Flag, Concede, PlayMove, Playable, MayMove, Document,
                    Statuses
<1>6. ASSUME NEW v \in Workers PROVE Due(v)'
  <2>1. CASE v = w
    BY <1>2, <2>1
  <2>2. CASE v # w
    <3>1. pc'[v] = pc[v] /\ at'[v] = at[v] /\ rival(v)' = rival(v)
      BY <1>1, <2>2 DEF StepOK, Sound, Only, rival
    <3>2. Due(v)
      BY DEF ForfeitInv
    <3>3. pc'[v] \in {"grace_begin", "grace_commit"} => doc.status # "starting"
      BY <3>1, <3>2 DEF Due
    <3>4. pc'[v] = "grace_commit" /\ doc'.status = "active" =>
            seen'[rival(v)] = now \/ now - seen'[rival(v)] >= GracePeriod
      <4> SUFFICES ASSUME pc'[v] = "grace_commit", doc'.status = "active"
                   PROVE  seen'[rival(v)] = now \/ now - seen'[rival(v)] >= GracePeriod
        OBVIOUS
      <4>1. doc.status = "active"
        BY <1>5, <3>3
      <4>2. seen[rival(v)] = now \/ now - seen[rival(v)] >= GracePeriod
        BY <3>1, <3>2, <4>1 DEF Due
      <4> QED BY <1>0, <1>3, <4>2
    <3> QED BY <1>1, <1>4, <3>1, <3>2, <3>3, <3>4 DEF Due
  <2> QED BY <2>1, <2>2
<1>7. GraceIsServed'
  <2>1. CASE doc.endReason # "disconnect" /\ doc'.endReason = "disconnect"
    <3>1. /\ pc[w] = "grace_commit" /\ doc.status = "active"
          /\ doc'.result = WinFor(me(w)) /\ UNCHANGED presence
      BY <2>1, OnlyForfeits
    <3> DEFINE winner == IF doc'.result = WinFor("w") THEN "w" ELSE "b"
    <3>2. winner = me(w) /\ Other(winner) = rival(w)
      BY <1>0, <3>1, WorkerTypes DEF WinFor, Color, rival, me
    <3>3. /\ verdict'.absentFor = now - seen[rival(w)]
          /\ verdict'.loserPresent = RecentlyPresent(seen[rival(w)], now)
      BY <2>1, <3>2 DEF VerdictUpdate
    <3>4. seen[rival(w)] = now \/ now - seen[rival(w)] >= GracePeriod
      BY <3>1 DEF ForfeitInv, Due
    <3>5. RecentlyPresent(now, now)
      BY <1>0 DEF RecentlyPresent, NoTime
    <3> QED BY <3>3, <3>4, <3>5 DEF GraceIsServed
  <2>2. CASE ~(doc.endReason # "disconnect" /\ doc'.endReason = "disconnect")
    <3>1. verdict' = verdict
      BY <2>2 DEF VerdictUpdate
    <3> QED BY <2>2, <3>1 DEF ForfeitInv, GraceIsServed
  <2> QED BY <2>1, <2>2
<1> QED BY <1>3, <1>6, <1>7 DEF ForfeitInv

\* Time passes only while no request is being answered.
LEMMA ForfeitTick ==
  ASSUME Inv, ForfeitInv, Tick, Prompt, VerdictUpdate
  PROVE  ForfeitInv'
<1>1. now \in Nat /\ now' = now + 1 /\ seen \in [Color -> Nat \cup {NoTime}]
      /\ UNCHANGED <<doc, seen, grace, pc, req, at>>
  BY DEF Inv, Local, TypeOK, Tick, presence
<1>2. \A w \in Workers : pc[w] = "idle"
  BY <1>1 DEF Prompt
<1>3. \A w \in Workers : Due(w)'
  BY <1>1, <1>2 DEF Due, Stamped
<1>4. Marks'
  BY <1>1 DEF ForfeitInv, Marks, NoTime
<1>5. GraceIsServed'
  BY <1>1 DEF ForfeitInv, GraceIsServed, VerdictUpdate
<1> QED BY <1>3, <1>4, <1>5 DEF ForfeitInv

\* Apart from a return in the very round trip of the verdict, a duel is
\* forfeited by disconnect only after the loser has been unseen for a whole
\* grace period: no mark of an earlier absence and no request in flight cuts
\* it short.
THEOREM ForfeitsServeTheGrace == ForfeitSpec => []GraceIsServed
<1>1. ForfeitInit => ForfeitInv
  <2> SUFFICES ASSUME ForfeitInit PROVE ForfeitInv
    OBVIOUS
  <2>1. /\ doc.endReason = "none" /\ now = 0 /\ seen = [c \in Color |-> NoTime]
        /\ grace = [c \in Color |-> NoTime] /\ pc = [w \in Workers |-> "idle"]
    BY DEF ForfeitInit, Init, NewMatch
  <2> QED BY <2>1 DEF ForfeitInv, Marks, Due, Stamped, GraceIsServed, NoTime
<1>2. Inv /\ ForfeitInv /\ [ForfeitNext]_forfeitVars => ForfeitInv'
  <2> SUFFICES ASSUME Inv, ForfeitInv, [ForfeitNext]_forfeitVars PROVE ForfeitInv'
    OBVIOUS
  <2>1. CASE ForfeitNext
    BY <2>1, ForfeitStep, ForfeitTick DEF ForfeitNext, Next
  <2>2. CASE UNCHANGED forfeitVars
    BY <2>2 DEF forfeitVars, vars, presence, ForfeitInv, Marks, Due, rival, GraceIsServed
  <2> QED BY <2>1, <2>2
<1>3. ForfeitInit => Init
  BY DEF ForfeitInit
<1>4. [ForfeitNext]_forfeitVars => [Next]_vars
  BY DEF ForfeitNext, forfeitVars
<1>5. ForfeitInv => GraceIsServed
  BY DEF ForfeitInv
<1> QED BY InvInductive, <1>1, <1>2, <1>3, <1>4, <1>5, PTL DEF ForfeitSpec, Spec

=============================================================================
