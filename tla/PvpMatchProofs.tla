--------------------------- MODULE PvpMatchProofs ---------------------------
(***************************************************************************)
(* Proofs about PvpMatch, for every number of concurrent requests, every   *)
(* length of the game and every value of the timeouts.                     *)
(*                                                                         *)
(* The argument has four layers.  Each request only changes its own local  *)
(* state and what it holds when it is about to write was checked on the    *)
(* snapshot it carries (Local).  A snapshot with the document's revision   *)
(* is the document (Pinned).  So every write acts as if its reads and the  *)
(* write were one atomic step (AtomicStep).  The properties of the duel    *)
(* are then proved of atomic steps, which mention no request at all.       *)
(***************************************************************************)
EXTENDS PvpMatch, SequenceTheorems, TLAPS

EndReasons == {"none", "handoff_timeout", "handoff_cancelled", "timeout",
               "disconnect", "resignation"}

-----------------------------------------------------------------------------
(* What the pure functions return.                                         *)

LEMMA NewMatchType ==
  NewMatch \in Document /\ NewMatch.revision = 0
<1>1. InitialClock \in Nat
  BY ConstantsAssumption
<1>2. StartingFEN \in Positions
  BY RulesAssumption
<1>3. <<>> \in Seq(Ply)
  OBVIOUS
<1> QED BY <1>1, <1>2, <1>3 DEF NewMatch, Document, Statuses, Results, Color, NoTime

LEMMA SnapshotType ==
  ASSUME NEW d \in Document, NEW t \in Nat
  PROVE  ClockSnapshot(d, t) \in [Color -> Nat]
BY DEF ClockSnapshot, Clamp, Document, NoTime

LEMMA WinForType == \A c \in Color : WinFor(c) \in Results /\ Other(c) \in Color
BY DEF WinFor, Color, Results, Other

\* An update of several fields, one field at a time.
LEMMA FieldType ==
  ASSUME NEW d \in Document
  PROVE  /\ \A x \in Statuses : [d EXCEPT !.status = x] \in Document
         /\ \A x \in Results : [d EXCEPT !.result = x] \in Document
         /\ \A x \in EndReasons : [d EXCEPT !.endReason = x] \in Document
         /\ \A x \in [Color -> Nat] : [d EXCEPT !.clock = x] \in Document
         /\ \A x \in Nat \cup {NoTime} : [d EXCEPT !.turnStartedAt = x] \in Document
         /\ \A x \in Nat \cup {NoTime} : [d EXCEPT !.startAt = x] \in Document
         /\ \A x \in Positions : [d EXCEPT !.fen = x] \in Document
         /\ \A x \in Color : [d EXCEPT !.turn = x] \in Document
         /\ \A x \in Seq(Ply) : [d EXCEPT !.history = x] \in Document
         /\ \A c \in Color : [d EXCEPT !.ready[c] = TRUE] \in Document
         /\ [d EXCEPT !.revision = @ + 1] \in Document
         /\ d.revision \in Nat
<1>1. ASSUME NEW x \in Statuses PROVE [d EXCEPT !.status = x] \in Document
  BY DEF Document
<1>2. ASSUME NEW x \in Results PROVE [d EXCEPT !.result = x] \in Document
  BY DEF Document
<1>3. ASSUME NEW x \in EndReasons PROVE [d EXCEPT !.endReason = x] \in Document
  BY DEF Document, EndReasons
<1>4. ASSUME NEW x \in [Color -> Nat] PROVE [d EXCEPT !.clock = x] \in Document
  BY DEF Document
<1>5. ASSUME NEW x \in Nat \cup {NoTime} PROVE [d EXCEPT !.turnStartedAt = x] \in Document
  BY DEF Document
<1>6. ASSUME NEW x \in Nat \cup {NoTime} PROVE [d EXCEPT !.startAt = x] \in Document
  BY DEF Document
<1>7. ASSUME NEW x \in Positions PROVE [d EXCEPT !.fen = x] \in Document
  BY DEF Document
<1>8. ASSUME NEW x \in Color PROVE [d EXCEPT !.turn = x] \in Document
  BY DEF Document
<1>9. ASSUME NEW x \in Seq(Ply) PROVE [d EXCEPT !.history = x] \in Document
  BY DEF Document
<1>10. ASSUME NEW c \in Color PROVE [d EXCEPT !.ready[c] = TRUE] \in Document
  BY DEF Document
<1>11. d.revision \in Nat
  BY DEF Document
<1>12. ASSUME NEW n \in Nat PROVE [d EXCEPT !.revision = n] \in Document
  BY DEF Document
<1>13. [d EXCEPT !.revision = @ + 1] \in Document
  BY <1>11, <1>12
<1> QED BY <1>1, <1>2, <1>3, <1>4, <1>5, <1>6, <1>7, <1>8, <1>9, <1>10, <1>11, <1>13

LEMMA FinishedType ==
  ASSUME NEW d \in Document, NEW clocks \in [Color -> Nat], NEW r \in Results,
         NEW reason \in EndReasons
  PROVE  /\ Finished(d, clocks, r, reason) \in Document
         /\ Finished(d, clocks, r, reason).revision = d.revision + 1
<1> DEFINE d1 == [d EXCEPT !.status = "finished"]
           d2 == [d1 EXCEPT !.result = r]
           d3 == [d2 EXCEPT !.endReason = reason]
           d4 == [d3 EXCEPT !.clock = clocks]
           d5 == [d4 EXCEPT !.turnStartedAt = NoTime]
           d6 == [d5 EXCEPT !.revision = @ + 1]
<1> HIDE DEF d1, d2, d3, d4, d5, d6
<1>1. d1 \in Document
  BY FieldType DEF d1, Statuses
<1>2. d2 \in Document
  BY <1>1, FieldType DEF d2
<1>3. d3 \in Document
  BY <1>2, FieldType DEF d3
<1>4. d4 \in Document
  BY <1>3, FieldType DEF d4
<1>5. d5 \in Document
  BY <1>4, FieldType DEF d5
<1>6. d6 \in Document
  BY <1>5, FieldType DEF d6
<1>7. Finished(d, clocks, r, reason) = d6
  BY DEF Finished, d1, d2, d3, d4, d5, d6
<1>8. Finished(d, clocks, r, reason).revision = d.revision + 1
  BY DEF Finished, Document
<1> QED BY <1>6, <1>7, <1>8

LEMMA CancelledType ==
  ASSUME NEW d \in Document, NEW reason \in EndReasons
  PROVE  /\ Cancelled(d, reason) \in Document
         /\ Cancelled(d, reason).revision = d.revision + 1
<1> DEFINE d1 == [d EXCEPT !.status = "cancelled"]
           d2 == [d1 EXCEPT !.result = "none"]
           d3 == [d2 EXCEPT !.endReason = reason]
           d4 == [d3 EXCEPT !.turnStartedAt = NoTime]
           d5 == [d4 EXCEPT !.revision = @ + 1]
<1> HIDE DEF d1, d2, d3, d4, d5
<1>1. d1 \in Document
  BY FieldType DEF d1, Statuses
<1>2. d2 \in Document
  BY <1>1, FieldType DEF d2, Results
<1>3. d3 \in Document
  BY <1>2, FieldType DEF d3
<1>4. d4 \in Document
  BY <1>3, FieldType DEF d4
<1>5. d5 \in Document
  BY <1>4, FieldType DEF d5
<1>6. Cancelled(d, reason) = d5
  BY DEF Cancelled, d1, d2, d3, d4, d5
<1>7. Cancelled(d, reason).revision = d.revision + 1
  BY DEF Cancelled, Document
<1> QED BY <1>5, <1>6, <1>7

LEMMA MarkedType ==
  ASSUME NEW d \in Document, NEW c \in Color
  PROVE  /\ [d EXCEPT !.ready[c] = TRUE, !.revision = @ + 1] \in Document
         /\ [d EXCEPT !.ready[c] = TRUE, !.revision = @ + 1].revision = d.revision + 1
<1> DEFINE d1 == [d EXCEPT !.ready[c] = TRUE]
           d2 == [d1 EXCEPT !.revision = @ + 1]
<1> HIDE DEF d1, d2
<1>1. d1 \in Document
  BY FieldType DEF d1
<1>2. d2 \in Document
  BY <1>1, FieldType DEF d2
<1>3. [d EXCEPT !.ready[c] = TRUE, !.revision = @ + 1] = d2
  BY DEF d1, d2
<1>4. [d EXCEPT !.ready[c] = TRUE, !.revision = @ + 1].revision = d.revision + 1
  BY DEF Document
<1> QED BY <1>2, <1>3, <1>4

LEMMA ReadyUpdateType ==
  ASSUME NEW d \in Document, NEW s \in Document, NEW c \in Color, NEW t \in Nat
  PROVE  /\ ReadyUpdate(d, s, c, t) \in Document
         /\ ReadyUpdate(d, s, c, t).revision = d.revision + 1
<1> DEFINE d0 == [d EXCEPT !.ready[c] = TRUE, !.revision = @ + 1]
           d1 == [d0 EXCEPT !.status = "active"]
           d2 == [d1 EXCEPT !.startAt = t + HandoffDelay]
           d3 == [d2 EXCEPT !.turnStartedAt = t + HandoffDelay]
<1> HIDE DEF d0, d1, d2, d3
<1>1. d0 \in Document /\ d0.revision = d.revision + 1
  BY MarkedType DEF d0
<1>2. t + HandoffDelay \in Nat
  BY ConstantsAssumption
<1>3. d1 \in Document /\ d1.revision = d.revision + 1
  <2>1. d1 \in Document
    BY <1>1, FieldType DEF d1, Statuses
  <2> QED BY <1>1, <2>1 DEF d1, Document
<1>4. d2 \in Document /\ d2.revision = d.revision + 1
  BY <1>2, <1>3, FieldType DEF d2, Document
<1>5. d3 \in Document /\ d3.revision = d.revision + 1
  BY <1>2, <1>4, FieldType DEF d3, Document
<1>6. ReadyUpdate(d, s, c, t) = IF s.ready[Other(c)] THEN d3 ELSE d0
  BY DEF ReadyUpdate, d0, d1, d2, d3
<1> QED BY <1>1, <1>5, <1>6

LEMMA LegalType ==
  ASSUME NEW d \in Document, NEW m \in Moves, Legal(d, m)
  PROVE  LET a == ApplyUCI[d.fen][m] IN
         /\ a.fen \in Positions /\ Turn[a.fen] = Other(Turn[d.fen])
         /\ a.status \in {"active", "finished"} /\ a.result \in Results
         /\ a.status = "active" => a.result = "none"
         /\ a.status = "finished" => a.result # "none"
<1>1. d.fen \in Positions
  BY DEF Document
<1>2. ApplyUCI[d.fen][m] \in Applied
  BY <1>1, RulesAssumption
<1>3. Turn[ApplyUCI[d.fen][m].fen] = Other(Turn[d.fen])
  BY <1>1, RulesAssumption DEF Legal
<1> QED BY <1>2, <1>3 DEF Legal, Applied, Results

LEMMA MovedType ==
  ASSUME NEW d \in Document, NEW s \in Document, NEW c \in Color, NEW m \in Moves,
         NEW t \in Nat, Legal(s, m)
  PROVE  /\ Moved(d, s, c, m, t) \in Document
         /\ Moved(d, s, c, m, t).revision = d.revision + 1
<1> DEFINE a == ApplyUCI[s.fen][m]
           h == Append(s.history, [by |-> c, uci |-> m, at |-> t])
<1>1. /\ a.fen \in Positions /\ a.status \in Statuses /\ a.result \in Results
      /\ Turn[a.fen] \in Color
  BY LegalType, RulesAssumption DEF Statuses
<1>2. h \in Seq(Ply)
  BY DEF Document, Ply
<1>3. ClockSnapshot(s, t) \in [Color -> Nat]
  BY SnapshotType
<1>4. s.endReason \in EndReasons
  BY DEF Document, EndReasons
<1> DEFINE d1 == [d EXCEPT !.fen = a.fen]
           d2 == [d1 EXCEPT !.turn = Turn[a.fen]]
           d3 == [d2 EXCEPT !.status = a.status]
           d4 == [d3 EXCEPT !.result = a.result]
           d5 == [d4 EXCEPT !.history = h]
           d6 == [d5 EXCEPT !.endReason = IF a.status = "finished" THEN "none"
                                          ELSE s.endReason]
           d7 == [d6 EXCEPT !.clock = ClockSnapshot(s, t)]
           d8 == [d7 EXCEPT !.turnStartedAt = IF a.status = "finished" THEN NoTime ELSE t]
           d9 == [d8 EXCEPT !.revision = @ + 1]
<1> HIDE DEF a, h, d1, d2, d3, d4, d5, d6, d7, d8, d9
<1>5. d1 \in Document /\ d2 \in Document
  BY <1>1, FieldType DEF d1, d2
<1>6. d3 \in Document /\ d4 \in Document
  BY <1>1, <1>5, FieldType DEF d3, d4
<1>7. d5 \in Document
  BY <1>2, <1>6, FieldType DEF d5
<1>8. d6 \in Document
  BY <1>4, <1>7, FieldType DEF d6, EndReasons
<1>9. d7 \in Document
  BY <1>3, <1>8, FieldType DEF d7
<1>10. d8 \in Document /\ d9 \in Document
  BY <1>9, FieldType DEF d8, d9
<1>11. Moved(d, s, c, m, t) = d9
  BY DEF Moved, a, h, d1, d2, d3, d4, d5, d6, d7, d8, d9
<1>12. Moved(d, s, c, m, t).revision = d.revision + 1
  BY DEF Moved, Document
<1> QED BY <1>10, <1>11, <1>12

-----------------------------------------------------------------------------
(* The local state of the requests.                                        *)

LocalTypes ==
  /\ pc \in [Workers -> Labels]
  /\ req \in [Workers -> [kind : AllKinds \cup {"none"}, who : Color, uci : Moves \cup {"none"}]]
  /\ row \in [Workers -> Document]
  /\ at \in [Workers -> Nat]
  /\ live \in [Workers -> BOOLEAN]
  /\ graceAt \in [Workers -> Nat \cup {NoTime}]
  /\ attempt \in [Workers -> Nat]
  /\ inner \in [Workers -> Nat]
  /\ ret \in [Workers -> {"idle", "reread", "move_expired"}]

SharedTypes ==
  /\ doc \in Document
  /\ seen \in [Color -> Nat \cup {NoTime}]
  /\ grace \in [Color -> Nat \cup {NoTime}]
  /\ now \in Nat

\* Which requests reach which operations.
Flow(w) ==
  /\ pc[w] \in {"virtual_touch", "virtual_commit", "handoff_timeout", "timeout_read",
                "timeout_commit", "reread", "grace_read", "grace_begin",
                "grace_commit", "reconciled", "resident", "resident_commit"}
       => req[w].kind \in {"read", "move"}
  /\ pc[w] \in {"touch_read", "touch"} => req[w].kind \in {"read", "pulse", "move"}
  /\ pc[w] \in {"move_read", "move_expired", "move_commit"} \/ ret[w] = "move_expired"
       => req[w].kind = "move"
  /\ req[w].kind = "move" => req[w].uci \in Moves
  /\ req[w].kind = "ready" =>
       pc[w] \in {"ready_touch", "ready_virtual", "ready_timeout", "ready_commit"}
  /\ pc[w] = "idle" => ret[w] = "idle"

\* The moves of document d were played at t at the latest.
Past(d, t) == \A i \in DOMAIN d.history : d.history[i].at <= t

Playable(d, c, m, t) ==
  /\ MayMove(d, c, t) /\ ~ClockExpired(d, c, t)
  /\ m \in Moves /\ Legal(d, m)
  /\ Past(d, t)

\* What a request knows of its snapshot when it is about to write.
Prepared(w) ==
  /\ pc[w] = "ready_commit" => at[w] < ReadyDeadline
  /\ pc[w] = "timeout_commit" => Flagged(row[w], at[w])
  /\ pc[w] = "move_commit" => Playable(row[w], me(w), req[w].uci, at[w])
  /\ pc[w] = "resident_commit" => Playable(row[w], row[w].turn, req[w].uci, at[w])

\* Nothing a request holds is from the future.
Timely(w) == at[w] <= now /\ Past(row[w], now)

LocalOK == \A w \in Workers : Flow(w) /\ Prepared(w) /\ Timely(w)

Local ==
  /\ TypeOK
  /\ LocalOK
  /\ Past(doc, now)

\* The other requests are where they were.
Only(w) ==
  \A v \in Workers \ {w} :
    /\ pc'[v] = pc[v] /\ req'[v] = req[v] /\ row'[v] = row[v]
    /\ at'[v] = at[v] /\ ret'[v] = ret[v]

LEMMA TypeParts == TypeOK <=> SharedTypes /\ LocalTypes
BY DEF TypeOK, SharedTypes, LocalTypes

LEMMA ReturnLemma ==
  ASSUME LocalTypes, NEW w \in Workers, Return(w)
  PROVE  /\ LocalTypes' /\ Only(w)
         /\ pc'[w] = "idle" /\ row'[w] = NewMatch /\ req'[w] = NoReq /\ ret'[w] = "idle"
         /\ at'[w] = 0
<1>1. NewMatch \in Document
  BY NewMatchType
<1>2. NoReq \in [kind : AllKinds \cup {"none"}, who : Color, uci : Moves \cup {"none"}]
  BY DEF NoReq, Color
<1> QED BY <1>1, <1>2 DEF LocalTypes, Return, Goto, Only, Labels, NoTime

LEMMA ResumeLemma ==
  ASSUME LocalTypes, NEW w \in Workers, NEW label \in Labels, Resume(w, label),
         attempt' \in [Workers -> Nat]
  PROVE  /\ LocalTypes' /\ Only(w)
         /\ pc'[w] = label /\ row'[w] = NewMatch /\ req'[w] = req[w] /\ ret'[w] = "idle"
         /\ at'[w] = 0
<1>1. NewMatch \in Document
  BY NewMatchType
<1>2. live' \in [Workers -> BOOLEAN]
  BY DEF LocalTypes, Resume
<1> QED BY <1>1, <1>2 DEF LocalTypes, Resume, Goto, Only, NoTime

-----------------------------------------------------------------------------
(* How the ways to end a step leave the request.                           *)

\* The step kept to its own request, left it with what its next operation
\* relies on, and its snapshot and instant come from somewhere.
Sound(w) ==
  /\ LocalTypes' /\ Only(w)
  /\ Flow(w)' /\ Prepared(w)'
  /\ row'[w] \in {row[w], NewMatch, doc, doc'}
  /\ at'[w] \in {at[w], 0, now}

LEMMA ReturnSound ==
  ASSUME LocalTypes, NEW w \in Workers, Return(w)
  PROVE  Sound(w)
BY ReturnLemma DEF Sound, Flow, Prepared, NoReq

LEMMA ResumeSound ==
  ASSUME LocalTypes, LocalOK, NEW w \in Workers, NEW label, Resume(w, label),
         attempt' \in [Workers -> Nat],
         \/ label \in {"reread", "grace_read", "reconciled"} /\ req[w].kind \in {"read", "move"}
         \/ label \in {"move_read", "move_expired"} /\ req[w].kind = "move"
         \/ label = "resign_read" /\ req[w].kind # "ready"
  PROVE  Sound(w)
<1>1. label \in Labels
  BY DEF Labels
<1>2. Flow(w)
  BY DEF LocalOK
<1> QED BY <1>1, <1>2, ResumeLemma DEF Sound, Flow, Prepared

LEMMA AgainSound ==
  ASSUME LocalTypes, LocalOK, NEW w \in Workers, NEW label, NEW limit,
         Again(w, limit, label),
         \/ label = "move_read" /\ req[w].kind = "move"
         \/ label = "resign_read" /\ req[w].kind # "ready"
  PROVE  Sound(w)
<1>1. CASE Return(w)
  BY <1>1, ReturnSound
<1>2. CASE Resume(w, label) /\ attempt' = [attempt EXCEPT ![w] = @ + 1]
  <2>1. attempt' \in [Workers -> Nat]
    BY <1>2 DEF LocalTypes
  <2> QED BY <1>2, <2>1, ResumeSound
<1> QED BY <1>1, <1>2 DEF Again

LEMMA FromTimeoutSound ==
  ASSUME LocalTypes, LocalOK, NEW w \in Workers, FromTimeout(w),
         req[w].kind \in {"read", "move"}
  PROVE  Sound(w)
<1>1. CASE Return(w)
  BY <1>1, ReturnSound
<1>2. CASE ret[w] # "idle" /\ Resume(w, ret[w]) /\ UNCHANGED attempt
  <2>1. ret[w] \in {"reread", "move_expired"} /\ attempt' \in [Workers -> Nat]
    BY <1>2 DEF LocalTypes
  <2>2. ret[w] = "move_expired" => req[w].kind = "move"
    BY DEF LocalOK, Flow
  <2> QED BY <1>2, <2>1, <2>2, ResumeSound
<1> QED BY <1>1, <1>2 DEF FromTimeout

LEMMA ReadyContinueSound ==
  ASSUME LocalTypes, LocalOK, NEW w \in Workers, NEW d \in Document,
         ReadyContinue(w, d), d \in {doc, doc'}
  PROVE  Sound(w)
<1>1. CASE Return(w)
  BY <1>1, ReturnSound
<1>2. CASE /\ ReadyStep(d, me(w), at[w]) # "idle"
           /\ Goto(w, ReadyStep(d, me(w), at[w]))
           /\ row' = [row EXCEPT ![w] = d]
           /\ UNCHANGED <<req, at, locals>>
  <2>1. /\ ReadyStep(d, me(w), at[w]) \in {"ready_virtual", "ready_timeout", "ready_commit"}
        /\ ReadyStep(d, me(w), at[w]) = "ready_commit" => ~(at[w] >= ReadyDeadline)
    BY <1>2 DEF ReadyStep
  <2>2. at[w] \in Nat /\ ReadyDeadline \in Nat
    BY ConstantsAssumption DEF ReadyDeadline, LocalTypes
  <2>3. LocalTypes' /\ Only(w)
    BY <1>2, <2>1 DEF LocalTypes, Only, Goto, locals, Labels
  <2>4. pc'[w] = ReadyStep(d, me(w), at[w]) /\ row'[w] = d
    BY <1>2 DEF LocalTypes, Goto
  <2>5. Flow(w)' /\ Prepared(w)'
    BY <1>2, <2>1, <2>2, <2>4 DEF LocalOK, Flow, Prepared, locals
  <2> QED BY <1>2, <2>3, <2>4, <2>5 DEF Sound
<1> QED BY <1>1, <1>2 DEF ReadyContinue

LEMMA ContinueSound ==
  ASSUME LocalTypes, LocalOK, NEW w \in Workers, NEW d \in Document, NEW label,
         Continue(w, d, label), d \in {doc, doc'},
         \/ /\ label \in {"virtual_touch", "virtual_commit", "handoff_timeout", "timeout_read"}
            /\ req[w].kind \in {"read", "move"}
         \/ label = "idle"
  PROVE  Sound(w)
<1>1. CASE Return(w)
  BY <1>1, ReturnSound
<1>2. CASE label # "idle"
  <2>1. /\ Goto(w, label)
        /\ row' = [row EXCEPT ![w] = IF label = "timeout_read" THEN NewMatch ELSE d]
        /\ at' = [at EXCEPT ![w] = IF label = "timeout_read" THEN 0 ELSE @]
        /\ inner' = [inner EXCEPT ![w] = IF label = "virtual_commit" THEN @ ELSE 0]
        /\ ret' = [ret EXCEPT ![w] = "reread"]
        /\ UNCHANGED <<req, live, graceAt, attempt>>
    BY <1>2 DEF Continue
  <2>2. label \in Labels /\ NewMatch \in Document
    BY <1>2, NewMatchType DEF Labels
  <2>3. LocalTypes' /\ Only(w)
    BY <2>1, <2>2 DEF LocalTypes, Only, Goto
  <2>4. /\ pc'[w] = label /\ row'[w] \in {NewMatch, d} /\ at'[w] \in {at[w], 0}
        /\ ret'[w] = "reread" /\ req'[w] = req[w]
    BY <2>1 DEF LocalTypes, Goto
  <2>5. Flow(w)' /\ Prepared(w)'
    BY <1>2, <2>4 DEF LocalOK, Flow, Prepared
  <2> QED BY <2>3, <2>4, <2>5 DEF Sound
<1> QED BY <1>1, <1>2 DEF Continue

LEMMA GraceStepSound ==
  ASSUME LocalTypes, LocalOK, NEW w \in Workers, NEW d, d \in {doc, row[w]}, d \in Document,
         NEW g, NEW t \in Nat, t \in {at[w], now}, GraceStep(w, d, g, t),
         req[w].kind \in {"read", "move"}, ret[w] # "move_expired" \/ req[w].kind = "move"
  PROVE  Sound(w)
<1>1. CASE Resume(w, "reconciled") /\ UNCHANGED attempt
  BY <1>1, ResumeSound DEF LocalTypes
<1>2. CASE /\ Goto(w, "grace_commit")
           /\ row' = [row EXCEPT ![w] = d]
           /\ at' = [at EXCEPT ![w] = t]
           /\ UNCHANGED <<req, locals>>
  <2>1. LocalTypes' /\ Only(w)
    BY <1>2 DEF LocalTypes, Only, Goto, locals, Labels
  <2>2. pc'[w] = "grace_commit" /\ row'[w] = d /\ at'[w] = t
    BY <1>2 DEF LocalTypes, Goto
  <2>3. Flow(w)' /\ Prepared(w)'
    BY <1>2, <2>2 DEF LocalOK, Flow, Prepared, locals
  <2> QED BY <2>1, <2>2, <2>3 DEF Sound
<1> QED BY <1>1, <1>2 DEF GraceStep

LEMMA ToResidentSound ==
  ASSUME LocalTypes, LocalOK, NEW w \in Workers, NEW d \in Document, d \in {doc, doc'},
         ToResident(w, d), req[w].kind \in {"read", "move"}
  PROVE  Sound(w)
<1>1. CASE Return(w)
  BY <1>1, ReturnSound
<1>2. CASE /\ Goto(w, "resident")
           /\ row' = [row EXCEPT ![w] = d]
           /\ at' = [at EXCEPT ![w] = 0]
           /\ attempt' = [attempt EXCEPT ![w] = 0]
           /\ UNCHANGED <<req, live, graceAt, inner, ret>>
  <2>1. LocalTypes' /\ Only(w)
    BY <1>2 DEF LocalTypes, Only, Goto, Labels
  <2>2. pc'[w] = "resident" /\ row'[w] = d /\ at'[w] = 0
    BY <1>2 DEF LocalTypes, Goto
  <2>3. Flow(w)' /\ Prepared(w)'
    BY <1>2, <2>2 DEF LocalOK, Flow, Prepared
  <2> QED BY <2>1, <2>2, <2>3 DEF Sound
<1> QED BY <1>1, <1>2 DEF ToResident

LEMMA ExpireSound ==
  ASSUME LocalTypes, LocalOK, NEW w \in Workers, NEW label, Expire(w, label),
         req[w].kind \in {"read", "move"},
         label = "idle" \/ (label = "move_expired" /\ req[w].kind = "move")
  PROVE  Sound(w)
<1>1. NewMatch \in Document
  BY NewMatchType
<1>2. LocalTypes' /\ Only(w)
  BY <1>1 DEF Expire, LocalTypes, Only, Goto, Labels
<1>3. /\ pc'[w] = "timeout_read" /\ row'[w] = NewMatch /\ at'[w] = at[w]
      /\ req'[w] = req[w] /\ ret'[w] = label
  BY DEF Expire, LocalTypes, Goto
<1>4. Flow(w)' /\ Prepared(w)'
  BY <1>3 DEF LocalOK, Flow, Prepared
<1> QED BY <1>2, <1>3, <1>4 DEF Sound

-----------------------------------------------------------------------------
(* Every step is sound and leaves a document behind, which it either did   *)
(* not touch or gave the next revision.                                    *)

Bumped == doc' = doc \/ doc'.revision = doc.revision + 1

StepOK(w) == Sound(w) /\ SharedTypes' /\ Bumped

LEMMA SetSeenType ==
  ASSUME SharedTypes, NEW c \in Color, NEW t \in Nat, SetSeen(c, t)
  PROVE  seen' \in [Color -> Nat \cup {NoTime}] /\ grace' \in [Color -> Nat \cup {NoTime}]
BY DEF SharedTypes, SetSeen

LEMMA WorkerTypes ==
  ASSUME LocalTypes, NEW w \in Workers
  PROVE  /\ me(w) \in Color /\ rival(w) \in Color
         /\ at[w] \in Nat /\ row[w] \in Document /\ row[w].turn \in Color
         /\ req[w].uci \in Moves \cup {"none"} /\ req[w].kind \in AllKinds \cup {"none"}
         /\ pc[w] \in Labels /\ attempt[w] \in Nat /\ inner[w] \in Nat
BY WinForType DEF LocalTypes, me, rival, Document

LEMMA StartOK ==
  ASSUME Local, NEW w \in Workers, Start(w)
  PROVE  StepOK(w) /\ UNCHANGED <<doc, now>>
<1> USE TypeParts DEF Local
<1>1. PICK kind \in AllKinds, c \in Color, m \in Moves \cup {"none"} :
         Begin(w, kind, c, m) /\ (kind = "move" => m \in Moves)
  BY ConstantsAssumption DEF Start, Humans, AllKinds
<1>2. Entry(kind) \in {"ready_touch", "cancel_read", "touch_read", "touch", "move_read", "resign_read"}
  BY DEF Entry, AllKinds
<1>3. LocalTypes' /\ Only(w)
  BY <1>1, <1>2 DEF Begin, LocalTypes, Only, Goto, Stamp, locals, Labels, SharedTypes
<1>4. /\ pc'[w] = Entry(kind) /\ row'[w] = row[w] /\ at'[w] = now /\ ret'[w] = ret[w]
      /\ req'[w] = [kind |-> kind, who |-> c, uci |-> m]
  BY <1>1 DEF Begin, LocalTypes, Goto, Stamp, locals
<1>5. Flow(w)' /\ Prepared(w)'
  BY <1>1, <1>2, <1>4 DEF LocalOK, Flow, Prepared, Entry, AllKinds, Begin
<1> QED BY <1>1, <1>3, <1>4, <1>5 DEF StepOK, Sound, Bumped, SharedTypes, Begin, presence

LEMMA AbortOK ==
  ASSUME Local, NEW w \in Workers, Abort(w)
  PROVE  StepOK(w) /\ UNCHANGED <<doc, now>>
BY ReturnSound, TypeParts DEF Local, Abort, StepOK, Bumped, SharedTypes, presence

\* Steps that touch neither the document nor presence.
Quiescent == UNCHANGED <<doc, presence, now>>

LEMMA QuietOK ==
  ASSUME Local, NEW w \in Workers, Sound(w), Quiescent
  PROVE  StepOK(w)
BY TypeParts DEF Local, StepOK, SharedTypes, Bumped, Quiescent, presence

\* Steps that only write presence.
LEMMA SeenOK ==
  ASSUME Local, NEW w \in Workers, Sound(w), NEW c \in Color, SetSeen(c, at[w]),
         UNCHANGED <<doc, now>>
  PROVE  StepOK(w)
<1>1. at[w] \in Nat /\ SharedTypes
  BY TypeParts, WorkerTypes DEF Local
<1> QED BY <1>1, SetSeenType DEF StepOK, SharedTypes, Bumped

\* Steps that write the duel and leave presence alone.
LEMMA WriteOK ==
  ASSUME Local, NEW w \in Workers, Sound(w), doc' \in Document, Bumped,
         UNCHANGED <<presence, now>>
  PROVE  StepOK(w)
BY TypeParts DEF Local, StepOK, SharedTypes, presence

LEMMA ReadyWriteType ==
  ASSUME Local, NEW w \in Workers, ReadyWrite(w)
  PROVE  /\ doc' \in Document /\ doc'.revision = doc.revision + 1
         /\ seen' \in [Color -> Nat \cup {NoTime}] /\ grace' \in [Color -> Nat \cup {NoTime}]
<1>0. /\ SharedTypes /\ LocalTypes
      /\ me(w) \in Color /\ rival(w) \in Color /\ at[w] \in Nat /\ row[w] \in Document
  BY TypeParts, WorkerTypes DEF Local
<1>1. doc \in Document
  BY <1>0 DEF SharedTypes
<1>2. CASE /\ doc' = [doc EXCEPT !.ready[rival(w)] = TRUE, !.revision = @ + 1]
           /\ SetSeen(rival(w), at[w])
  BY <1>0, <1>1, <1>2, MarkedType, SetSeenType
<1>3. CASE doc' = Cancelled(doc, "handoff_timeout") /\ UNCHANGED presence
  BY <1>0, <1>1, <1>3, CancelledType DEF EndReasons, presence, SharedTypes
<1>4. CASE doc' = ReadyUpdate(doc, row[w], me(w), at[w]) /\ UNCHANGED presence
  BY <1>0, <1>1, <1>4, ReadyUpdateType DEF presence, SharedTypes
<1> QED BY <1>2, <1>3, <1>4 DEF ReadyWrite

LEMMA ReadyOK ==
  ASSUME Local, NEW w \in Workers,
         ReadyTouch(w) \/ ReadyCommit(w) \/ ReadyMiss(w) \/ ReadyRetry(w)
  PROVE  StepOK(w)
<1>0. /\ SharedTypes /\ LocalTypes /\ LocalOK /\ doc \in Document
      /\ me(w) \in Color /\ at[w] \in Nat /\ attempt[w] \in Nat /\ inner[w] \in Nat
      /\ NewMatch \in Document
  BY TypeParts, WorkerTypes, NewMatchType DEF Local, SharedTypes
<1>1. CASE ReadyTouch(w)
  BY <1>0, <1>1, ReadyContinueSound, SeenOK DEF ReadyTouch
<1>2. CASE ReadyCommit(w)
  <2>1. /\ doc' \in Document /\ doc'.revision = doc.revision + 1
        /\ seen' \in [Color -> Nat \cup {NoTime}] /\ grace' \in [Color -> Nat \cup {NoTime}]
    BY <1>2, ReadyWriteType DEF ReadyCommit
  <2>2. Sound(w)
    BY <1>0, <1>2, <2>1, ReadyContinueSound, ReturnSound DEF ReadyCommit
  <2> QED BY <1>0, <1>2, <2>1, <2>2 DEF ReadyCommit, StepOK, SharedTypes, Bumped
<1>3. CASE ReadyMiss(w)
  <2>1. CASE Return(w)
    BY <1>0, <1>3, <2>1, ReturnSound, QuietOK DEF ReadyMiss, Quiescent
  <2>2. CASE /\ Goto(w, "ready_touch")
             /\ row' = [row EXCEPT ![w] = NewMatch]
             /\ attempt' = [attempt EXCEPT ![w] = @ + 1]
             /\ UNCHANGED <<req, at, live, graceAt, inner, ret>>
    <3>1. LocalTypes' /\ Only(w)
      BY <1>0, <2>2 DEF LocalTypes, Only, Goto, Labels
    <3>2. pc'[w] = "ready_touch" /\ row'[w] = NewMatch
      BY <1>0, <2>2 DEF LocalTypes, Goto
    <3>3. Flow(w)' /\ Prepared(w)'
      BY <1>0, <2>2, <3>2 DEF LocalOK, Flow, Prepared
    <3>4. Sound(w)
      BY <2>2, <3>1, <3>2, <3>3 DEF Sound
    <3> QED BY <1>3, <3>4, QuietOK DEF ReadyMiss, Quiescent
  <2> QED BY <1>3, <2>1, <2>2 DEF ReadyMiss
<1>4. CASE ReadyRetry(w)
  <2>1. LocalTypes' /\ Only(w)
    BY <1>0, <1>4 DEF ReadyRetry, LocalTypes, Only, Goto, Labels
  <2>2. pc'[w] = "ready_touch" /\ row'[w] = NewMatch /\ at'[w] = at[w] /\ req'[w] = req[w]
        /\ ret'[w] = ret[w]
    BY <1>0, <1>4 DEF ReadyRetry, LocalTypes, Goto
  <2>3. Flow(w)' /\ Prepared(w)'
    BY <1>0, <2>2 DEF LocalOK, Flow, Prepared
  <2>4. Sound(w)
    BY <2>1, <2>2, <2>3 DEF Sound
  <2>5. CASE ReadyWrite(w)
    BY <1>0, <1>4, <2>4, <2>5, ReadyWriteType DEF ReadyRetry, StepOK, SharedTypes, Bumped
  <2>6. CASE UNCHANGED <<doc, presence>>
    BY <1>4, <2>4, <2>6, QuietOK DEF ReadyRetry, Quiescent
  <2> QED BY <1>4, <2>5, <2>6 DEF ReadyRetry
<1> QED BY <1>1, <1>2, <1>3, <1>4

LEMMA CancelOK ==
  ASSUME Local, NEW w \in Workers, CancelRead(w) \/ CancelCommit(w)
  PROVE  StepOK(w)
<1>0. SharedTypes /\ LocalTypes /\ LocalOK /\ doc \in Document
  BY TypeParts DEF Local, SharedTypes
<1>1. CASE CancelRead(w)
  <2>1. CASE Return(w)
    BY <1>0, <1>1, <2>1, ReturnSound, QuietOK DEF CancelRead, Quiescent
  <2>2. CASE Goto(w, "cancel_commit") /\ Load(w) /\ UNCHANGED <<req, at, locals>>
    <3>1. LocalTypes' /\ Only(w)
      BY <1>0, <2>2 DEF LocalTypes, Only, Goto, Load, locals, Labels
    <3>2. pc'[w] = "cancel_commit" /\ row'[w] = doc
      BY <1>0, <2>2 DEF LocalTypes, Goto, Load
    <3>3. Flow(w)' /\ Prepared(w)'
      BY <1>0, <1>1, <2>2, <3>2 DEF CancelRead, LocalOK, Flow, Prepared, locals
    <3>4. Sound(w)
      BY <2>2, <3>1, <3>2, <3>3 DEF Sound
    <3> QED BY <1>1, <3>4, QuietOK DEF CancelRead, Quiescent
  <2> QED BY <1>1, <2>1, <2>2 DEF CancelRead
<1>2. CASE CancelCommit(w)
  <2>1. doc' \in Document /\ Bumped
    BY <1>0, <1>2, CancelledType DEF CancelCommit, EndReasons, Bumped
  <2> QED BY <1>0, <1>2, <2>1, ReturnSound, WriteOK DEF CancelCommit
<1> QED BY <1>1, <1>2

LEMMA TouchOK ==
  ASSUME Local, NEW w \in Workers, TouchRead(w) \/ Touch(w)
  PROVE  StepOK(w)
<1>0. /\ SharedTypes /\ LocalTypes /\ LocalOK /\ doc \in Document
      /\ me(w) \in Color /\ at[w] \in Nat
  BY TypeParts, WorkerTypes DEF Local, SharedTypes
<1>1. CASE TouchRead(w)
  <2>1. RecentlyPresent(seen[me(w)], at[w]) \in BOOLEAN
    BY DEF RecentlyPresent
  <2>2. LocalTypes' /\ Only(w)
    BY <1>0, <1>1, <2>1 DEF TouchRead, LocalTypes, Only, Goto, Labels
  <2>3. pc'[w] = "touch"
    BY <1>0, <1>1 DEF TouchRead, LocalTypes, Goto
  <2>4. Flow(w)' /\ Prepared(w)'
    BY <1>0, <1>1, <2>3 DEF TouchRead, LocalOK, Flow, Prepared
  <2>5. Sound(w)
    BY <1>1, <2>2, <2>4 DEF TouchRead, Sound
  <2> QED BY <1>1, <2>5, QuietOK DEF TouchRead, Quiescent
<1>2. CASE Touch(w)
  <2>1. req[w].kind \in {"read", "pulse", "move"}
    BY <1>0, <1>2 DEF Touch, LocalOK, Flow
  <2>2. PICK label : /\ Continue(w, doc, label)
                     /\ \/ /\ label \in {"virtual_touch", "handoff_timeout", "timeout_read"}
                           /\ req[w].kind \in {"read", "move"}
                        \/ label = "idle"
    <3>1. CASE req[w].kind = "move"
      BY <1>2, <3>1 DEF Touch
    <3>2. CASE req[w].kind = "pulse"
      BY <1>2, <3>2 DEF Touch
    <3>3. CASE req[w].kind = "read"
      BY <1>2, <3>3 DEF Touch, ReadStep
    <3> QED BY <2>1, <3>1, <3>2, <3>3
  <2>3. Sound(w)
    BY <1>0, <2>2, ContinueSound
  <2> QED BY <1>0, <1>2, <2>3, SeenOK DEF Touch
<1> QED BY <1>1, <1>2

LEMMA VirtualOK ==
  ASSUME Local, NEW w \in Workers, VirtualTouch(w) \/ VirtualCommit(w) \/ VirtualRetry(w)
  PROVE  StepOK(w)
<1>0. /\ SharedTypes /\ LocalTypes /\ LocalOK /\ doc \in Document
      /\ rival(w) \in Color /\ at[w] \in Nat /\ inner[w] \in Nat
  BY TypeParts, WorkerTypes DEF Local, SharedTypes
<1>1. pc[w] \in {"virtual_touch", "virtual_commit"} /\ req[w].kind \in {"read", "move"}
  BY <1>0 DEF VirtualTouch, VirtualCommit, VirtualRetry, LocalOK, Flow
<1>2. ASSUME VirtualWrite(w) PROVE doc' \in Document /\ Bumped
  BY <1>0, <1>2, MarkedType DEF VirtualWrite, Bumped
<1>3. CASE VirtualTouch(w)
  <2>1. PICK label : /\ Continue(w, doc, label)
                     /\ label \in {"virtual_commit", "handoff_timeout", "timeout_read", "idle"}
    BY <1>3 DEF VirtualTouch, ReadStep
  <2>2. Sound(w)
    BY <1>0, <1>1, <2>1, ContinueSound
  <2> QED BY <1>0, <1>3, <2>2, SeenOK DEF VirtualTouch
<1>4. CASE VirtualCommit(w)
  <2>1. doc' \in Document /\ Bumped
    BY <1>2, <1>4 DEF VirtualCommit
  <2>2. PICK label : /\ Continue(w, doc', label)
                     /\ label \in {"handoff_timeout", "timeout_read", "idle"}
    BY <1>4 DEF VirtualCommit, ReadStep
  <2>3. Sound(w)
    BY <1>0, <1>1, <2>1, <2>2, ContinueSound
  <2> QED BY <1>4, <2>1, <2>3, WriteOK DEF VirtualCommit
<1>5. CASE VirtualRetry(w)
  <2>1. doc' \in Document /\ Bumped
    BY <1>0, <1>2, <1>5 DEF VirtualRetry, Bumped
  <2>2. LocalTypes' /\ Only(w)
    BY <1>0, <1>5 DEF VirtualRetry, LocalTypes, Only, Goto, Labels
  <2>3. pc'[w] = "virtual_touch"
    BY <1>0, <1>5 DEF VirtualRetry, LocalTypes, Goto
  <2>4. Flow(w)' /\ Prepared(w)'
    BY <1>0, <1>1, <1>5, <2>3 DEF VirtualRetry, LocalOK, Flow, Prepared
  <2>5. Sound(w)
    BY <1>5, <2>2, <2>4 DEF VirtualRetry, Sound
  <2> QED BY <1>5, <2>1, <2>5, WriteOK DEF VirtualRetry
<1> QED BY <1>3, <1>4, <1>5

LEMMA HandoffTimeoutOK ==
  ASSUME Local, NEW w \in Workers, HandoffTimeout(w)
  PROVE  StepOK(w)
<1>0. /\ SharedTypes /\ LocalTypes /\ LocalOK /\ doc \in Document
      /\ req[w].kind \in {"read", "move"}
  BY TypeParts DEF Local, SharedTypes, HandoffTimeout, LocalOK, Flow
<1>1. CASE doc' = Cancelled(doc, "handoff_timeout") /\ Return(w)
  <2>1. doc' \in Document /\ Bumped
    BY <1>0, <1>1, CancelledType DEF EndReasons, Bumped
  <2> QED BY <1>0, <1>1, <2>1, ReturnSound, WriteOK DEF HandoffTimeout
<1>2. CASE /\ UNCHANGED doc
           /\ Continue(w, doc, IF doc.status = "active" THEN "timeout_read" ELSE "idle")
  <2>1. Sound(w)
    BY <1>0, <1>2, ContinueSound
  <2> QED BY <1>0, <1>2, <2>1, WriteOK DEF HandoffTimeout, Bumped
<1> QED BY <1>1, <1>2 DEF HandoffTimeout

LEMMA TimeoutOK ==
  ASSUME Local, NEW w \in Workers, TimeoutRead(w) \/ TimeoutCommit(w) \/ Reread(w)
  PROVE  StepOK(w)
<1>0. /\ SharedTypes /\ LocalTypes /\ LocalOK /\ doc \in Document /\ now \in Nat
      /\ at[w] \in Nat /\ row[w] \in Document /\ row[w].turn \in Color /\ inner[w] \in Nat
      /\ NewMatch \in Document
  BY TypeParts, WorkerTypes, NewMatchType DEF Local, SharedTypes
<1>1. req[w].kind \in {"read", "move"}
  BY <1>0 DEF TimeoutRead, TimeoutCommit, Reread, LocalOK, Flow
<1>2. CASE TimeoutRead(w)
  <2>1. CASE FromTimeout(w)
    BY <1>0, <1>1, <1>2, <2>1, FromTimeoutSound, QuietOK DEF TimeoutRead, Quiescent
  <2>2. CASE /\ Flagged(doc, now) /\ Goto(w, "timeout_commit")
             /\ Load(w) /\ Stamp(w) /\ UNCHANGED <<req, locals>>
    <3>1. LocalTypes' /\ Only(w)
      BY <1>0, <2>2 DEF LocalTypes, Only, Goto, Load, Stamp, locals, Labels
    <3>2. pc'[w] = "timeout_commit" /\ row'[w] = doc /\ at'[w] = now
      BY <1>0, <2>2 DEF LocalTypes, Goto, Load, Stamp
    <3>3. Flow(w)' /\ Prepared(w)'
      BY <1>0, <1>1, <2>2, <3>2 DEF LocalOK, Flow, Prepared, locals
    <3>4. Sound(w)
      BY <3>1, <3>2, <3>3 DEF Sound
    <3> QED BY <1>2, <3>4, QuietOK DEF TimeoutRead, Quiescent
  <2> QED BY <1>2, <2>1, <2>2 DEF TimeoutRead
<1>3. CASE TimeoutCommit(w)
  <2>1. CASE /\ doc' = Finished(doc, ClockSnapshot(row[w], at[w]),
                                WinFor(Other(row[w].turn)), "timeout")
             /\ FromTimeout(w)
    <3>1. WinFor(Other(row[w].turn)) \in Results /\ ClockSnapshot(row[w], at[w]) \in [Color -> Nat]
      BY <1>0, WinForType, SnapshotType
    <3>2. doc' \in Document /\ Bumped
      BY <1>0, <2>1, <3>1, FinishedType DEF EndReasons, Bumped
    <3> QED BY <1>0, <1>1, <1>3, <2>1, <3>2, FromTimeoutSound, WriteOK DEF TimeoutCommit
  <2>2. CASE UNCHANGED doc /\ FromTimeout(w)
    BY <1>0, <1>1, <1>3, <2>2, FromTimeoutSound, QuietOK DEF TimeoutCommit, Quiescent
  <2>3. CASE /\ UNCHANGED doc
             /\ Goto(w, "timeout_read")
             /\ row' = [row EXCEPT ![w] = NewMatch]
             /\ at' = [at EXCEPT ![w] = 0]
             /\ inner' = [inner EXCEPT ![w] = @ + 1]
             /\ UNCHANGED <<req, live, graceAt, attempt, ret>>
    <3>1. LocalTypes' /\ Only(w)
      BY <1>0, <2>3 DEF LocalTypes, Only, Goto, Labels
    <3>2. pc'[w] = "timeout_read" /\ row'[w] = NewMatch /\ at'[w] = 0
      BY <1>0, <2>3 DEF LocalTypes, Goto
    <3>3. Flow(w)' /\ Prepared(w)'
      BY <1>0, <1>1, <2>3, <3>2 DEF LocalOK, Flow, Prepared
    <3>4. Sound(w)
      BY <3>1, <3>2, <3>3 DEF Sound
    <3> QED BY <1>3, <2>3, <3>4, QuietOK DEF TimeoutCommit, Quiescent
  <2> QED BY <1>3, <2>1, <2>2, <2>3 DEF TimeoutCommit
<1>4. CASE Reread(w)
  <2>1. Sound(w)
    BY <1>0, <1>1, <1>4, ReturnSound, ResumeSound DEF Reread, LocalTypes
  <2> QED BY <1>4, <2>1, QuietOK DEF Reread, Quiescent
<1> QED BY <1>2, <1>3, <1>4

LEMMA GraceOK ==
  ASSUME Local, NEW w \in Workers, GraceRead(w) \/ GraceBegin(w) \/ GraceCommit(w)
  PROVE  StepOK(w)
<1>0. /\ SharedTypes /\ LocalTypes /\ LocalOK /\ doc \in Document /\ now \in Nat
      /\ at[w] \in Nat /\ row[w] \in Document /\ me(w) \in Color /\ rival(w) \in Color
  BY TypeParts, WorkerTypes DEF Local, SharedTypes
<1>1. /\ req[w].kind \in {"read", "move"}
      /\ ret[w] # "move_expired" \/ req[w].kind = "move"
  BY <1>0 DEF GraceRead, GraceBegin, GraceCommit, LocalOK, Flow
<1>2. ASSUME Resume(w, "reconciled"), UNCHANGED attempt PROVE Sound(w)
  BY <1>0, <1>1, <1>2, ResumeSound DEF LocalTypes
<1>3. CASE GraceRead(w)
  <2>1. CASE Resume(w, "reconciled") /\ UNCHANGED attempt
    BY <1>2, <1>3, <2>1, QuietOK DEF GraceRead, Quiescent
  <2>2. CASE /\ Goto(w, "grace_begin") /\ Load(w) /\ Stamp(w)
             /\ graceAt' = [graceAt EXCEPT ![w] = grace[rival(w)]]
             /\ UNCHANGED <<req, live, attempt, inner, ret>>
    <3>1. LocalTypes' /\ Only(w)
      BY <1>0, <2>2 DEF LocalTypes, SharedTypes, Only, Goto, Load, Stamp, Labels
    <3>2. pc'[w] = "grace_begin" /\ row'[w] = doc /\ at'[w] = now
      BY <1>0, <2>2 DEF LocalTypes, Goto, Load, Stamp
    <3>3. Flow(w)' /\ Prepared(w)'
      BY <1>0, <1>1, <2>2, <3>2 DEF LocalOK, Flow, Prepared
    <3>4. Sound(w)
      BY <3>1, <3>2, <3>3 DEF Sound
    <3> QED BY <1>3, <3>4, QuietOK DEF GraceRead, Quiescent
  <2>3. CASE GraceStep(w, doc, grace[rival(w)], now)
    BY <1>0, <1>1, <1>3, <2>3, GraceStepSound, QuietOK DEF GraceRead, Quiescent
  <2> QED BY <1>3, <2>1, <2>2, <2>3 DEF GraceRead
<1>4. CASE GraceBegin(w)
  <2>1. PICK d, g : /\ d \in {doc, row[w]} /\ GraceStep(w, d, g, at[w])
                    /\ grace' \in [Color -> Nat \cup {NoTime}]
    <3> DEFINE old == grace[rival(w)]
               begun == IF ~live[w] \/ old = NoTime \/ at[w] < old THEN at[w] ELSE old
    <3>1. begun \in Nat \cup {NoTime}
      BY <1>0 DEF SharedTypes
    <3>2. CASE doc.status = "active"
      <4>1. grace' = [grace EXCEPT ![rival(w)] = begun] /\ GraceStep(w, doc, begun, at[w])
        BY <1>4, <3>2 DEF GraceBegin
      <4> HIDE DEF begun
      <4>2. grace' \in [Color -> Nat \cup {NoTime}]
        BY <1>0, <3>1, <4>1 DEF SharedTypes
      <4> QED BY <4>1, <4>2
    <3>3. CASE doc.status # "active"
      BY <1>0, <1>4, <3>3 DEF GraceBegin, SharedTypes
    <3> QED BY <3>2, <3>3
  <2>2. Sound(w)
    BY <1>0, <1>1, <2>1, GraceStepSound
  <2> QED BY <1>0, <1>4, <2>1, <2>2 DEF GraceBegin, StepOK, SharedTypes, Bumped
<1>5. CASE GraceCommit(w)
  <2>1. doc' \in Document /\ Bumped
    BY <1>0, <1>5, WinForType, SnapshotType, FinishedType DEF GraceCommit, EndReasons, Bumped
  <2> QED BY <1>2, <1>5, <2>1, WriteOK DEF GraceCommit
<1> QED BY <1>3, <1>4, <1>5

LEMMA MoveOK ==
  ASSUME Local, NEW w \in Workers,
         MoveRead(w) \/ Reconciled(w) \/ MoveExpired(w) \/ MoveCommit(w)
  PROVE  StepOK(w)
<1>0. /\ SharedTypes /\ LocalTypes /\ LocalOK /\ doc \in Document /\ now \in Nat
      /\ at[w] \in Nat /\ row[w] \in Document /\ me(w) \in Color
      /\ Past(doc, now)
  BY TypeParts, WorkerTypes DEF Local, SharedTypes
<1>1. CASE MoveRead(w)
  <2>1. CASE Return(w)
    BY <1>0, <1>1, <2>1, ReturnSound, QuietOK DEF MoveRead, Quiescent
  <2>2. CASE Goto(w, "touch_read") /\ Stamp(w) /\ UNCHANGED <<req, row, locals>>
    <3>1. LocalTypes' /\ Only(w)
      BY <1>0, <2>2 DEF LocalTypes, Only, Goto, Stamp, locals, Labels
    <3>2. pc'[w] = "touch_read" /\ at'[w] = now
      BY <1>0, <2>2 DEF LocalTypes, Goto, Stamp
    <3>3. Flow(w)' /\ Prepared(w)'
      BY <1>0, <1>1, <2>2, <3>2 DEF MoveRead, LocalOK, Flow, Prepared, locals
    <3>4. Sound(w)
      BY <2>2, <3>1, <3>2, <3>3 DEF Sound
    <3> QED BY <1>1, <3>4, QuietOK DEF MoveRead, Quiescent
  <2> QED BY <1>1, <2>1, <2>2 DEF MoveRead
<1>2. CASE Reconciled(w)
  <2>1. req[w].kind \in {"read", "move"} /\ (req[w].kind = "move" => req[w].uci \in Moves)
    BY <1>0, <1>2 DEF Reconciled, LocalOK, Flow
  <2>2. CASE ToResident(w, doc)
    BY <1>0, <1>2, <2>1, <2>2, ToResidentSound, QuietOK DEF Reconciled, Quiescent
  <2>3. CASE Return(w)
    BY <1>0, <1>2, <2>3, ReturnSound, QuietOK DEF Reconciled, Quiescent
  <2>4. CASE req[w].kind = "move" /\ Expire(w, "move_expired")
    BY <1>0, <1>2, <2>1, <2>4, ExpireSound, QuietOK DEF Reconciled, Quiescent
  <2>5. CASE /\ req[w].kind = "move"
             /\ MayMove(doc, me(w), now) /\ ~ClockExpired(doc, me(w), now) /\ Legal(doc, req[w].uci)
             /\ Goto(w, "move_commit") /\ Load(w) /\ Stamp(w) /\ UNCHANGED <<req, locals>>
    <3>1. LocalTypes' /\ Only(w)
      BY <1>0, <2>5 DEF LocalTypes, Only, Goto, Load, Stamp, locals, Labels
    <3>2. /\ pc'[w] = "move_commit" /\ row'[w] = doc /\ at'[w] = now /\ req'[w] = req[w]
          /\ ret'[w] = ret[w]
      BY <1>0, <2>5 DEF LocalTypes, Goto, Load, Stamp, locals
    <3>3. Playable(doc, me(w), req[w].uci, now)
      BY <1>0, <2>1, <2>5 DEF Playable
    <3>4. Flow(w)'
      BY <1>0, <2>5, <3>2 DEF LocalOK, Flow
    <3>5. Prepared(w)'
      BY <3>2, <3>3 DEF Prepared, me
    <3>6. Sound(w)
      BY <3>1, <3>2, <3>4, <3>5 DEF Sound
    <3> QED BY <1>2, <3>6, QuietOK DEF Reconciled, Quiescent
  <2> QED BY <1>2, <2>1, <2>2, <2>3, <2>4, <2>5 DEF Reconciled
<1>3. CASE MoveExpired(w)
  <2>1. req[w].kind = "move"
    BY <1>0, <1>3 DEF MoveExpired, LocalOK, Flow
  <2>2. Sound(w)
    BY <1>0, <1>3, <2>1, ReturnSound, AgainSound DEF MoveExpired
  <2> QED BY <1>3, <2>2, QuietOK DEF MoveExpired, Quiescent
<1>4. CASE MoveCommit(w)
  <2>1. req[w].kind = "move" /\ req[w].uci \in Moves /\ Legal(row[w], req[w].uci)
    BY <1>0, <1>4 DEF MoveCommit, LocalOK, Flow, Prepared, Playable
  <2>2. CASE doc' = Moved(doc, row[w], me(w), req[w].uci, at[w]) /\ ToResident(w, doc')
    <3>1. doc' \in Document /\ Bumped
      BY <1>0, <2>1, <2>2, MovedType DEF Bumped
    <3>2. Sound(w)
      BY <1>0, <2>1, <2>2, <3>1, ToResidentSound
    <3> QED BY <1>4, <3>1, <3>2, WriteOK DEF MoveCommit
  <2>3. CASE UNCHANGED doc /\ Again(w, Rounds, "move_read")
    BY <1>0, <1>4, <2>1, <2>3, AgainSound, QuietOK DEF MoveCommit, Quiescent
  <2> QED BY <1>4, <2>2, <2>3 DEF MoveCommit
<1> QED BY <1>1, <1>2, <1>3, <1>4

LEMMA ResidentOK ==
  ASSUME Local, NEW w \in Workers, ResidentPrepare(w) \/ ResidentCommit(w)
  PROVE  StepOK(w)
<1>0. /\ SharedTypes /\ LocalTypes /\ LocalOK /\ doc \in Document /\ now \in Nat
      /\ at[w] \in Nat /\ row[w] \in Document /\ row[w].turn \in Color
      /\ attempt[w] \in Nat /\ Past(row[w], now)
  BY TypeParts, WorkerTypes DEF Local, SharedTypes, LocalOK, Timely
<1>1. /\ req[w].kind \in {"read", "move"}
      /\ ret[w] # "move_expired" \/ req[w].kind = "move"
  BY <1>0 DEF ResidentPrepare, ResidentCommit, LocalOK, Flow
<1>2. CASE ResidentPrepare(w)
  <2>1. CASE Return(w)
    BY <1>0, <1>2, <2>1, ReturnSound, QuietOK DEF ResidentPrepare, Quiescent
  <2>2. CASE Expire(w, "idle")
    BY <1>0, <1>1, <1>2, <2>2, ExpireSound, QuietOK DEF ResidentPrepare, Quiescent
  <2>3. CASE /\ MayMove(row[w], row[w].turn, now) /\ ~ClockExpired(row[w], row[w].turn, now)
             /\ \E m \in Moves :
                  /\ Legal(row[w], m)
                  /\ req' = [req EXCEPT ![w].uci = m]
                  /\ Goto(w, "resident_commit")
                  /\ Stamp(w)
                  /\ UNCHANGED <<row, locals>>
    <3>1. PICK m \in Moves : /\ Legal(row[w], m)
                             /\ req' = [req EXCEPT ![w].uci = m]
                             /\ Goto(w, "resident_commit")
                             /\ Stamp(w)
                             /\ UNCHANGED <<row, locals>>
      BY <2>3
    <3>2. req' \in [Workers -> [kind : AllKinds \cup {"none"}, who : Color, uci : Moves \cup {"none"}]]
      BY <1>0, <3>1 DEF LocalTypes
    <3>3. LocalTypes' /\ Only(w)
      BY <1>0, <3>1, <3>2 DEF LocalTypes, Only, Goto, Stamp, locals, Labels
    <3>4. /\ pc'[w] = "resident_commit" /\ row'[w] = row[w] /\ at'[w] = now
          /\ req'[w].kind = req[w].kind /\ req'[w].uci = m /\ ret'[w] = ret[w]
      BY <1>0, <3>1 DEF LocalTypes, Goto, Stamp, locals
    <3>5. Playable(row[w], row[w].turn, m, now)
      BY <1>0, <2>3, <3>1 DEF Playable
    <3>6. Flow(w)'
      BY <1>1, <3>4 DEF Flow
    <3>7. Prepared(w)'
      BY <3>4, <3>5 DEF Prepared
    <3>8. Sound(w)
      BY <3>3, <3>4, <3>6, <3>7 DEF Sound
    <3> QED BY <1>2, <3>8, QuietOK DEF ResidentPrepare, Quiescent
  <2> QED BY <1>2, <2>1, <2>2, <2>3 DEF ResidentPrepare
<1>3. CASE ResidentCommit(w)
  <2>1. req[w].uci \in Moves /\ Legal(row[w], req[w].uci)
    BY <1>0, <1>3 DEF ResidentCommit, LocalOK, Prepared, Playable
  <2>2. CASE doc' = Moved(doc, row[w], row[w].turn, req[w].uci, at[w]) /\ Return(w)
    <3>1. doc' \in Document /\ Bumped
      BY <1>0, <2>1, <2>2, MovedType DEF Bumped
    <3> QED BY <1>0, <1>3, <2>2, <3>1, ReturnSound, WriteOK DEF ResidentCommit
  <2>3. CASE UNCHANGED doc /\ Return(w)
    BY <1>0, <1>3, <2>3, ReturnSound, QuietOK DEF ResidentCommit, Quiescent
  <2>4. CASE /\ UNCHANGED doc
             /\ Goto(w, "resident") /\ Load(w)
             /\ at' = [at EXCEPT ![w] = 0]
             /\ attempt' = [attempt EXCEPT ![w] = @ + 1]
             /\ UNCHANGED <<req, live, graceAt, inner, ret>>
    <3>1. LocalTypes' /\ Only(w)
      BY <1>0, <2>4 DEF LocalTypes, Only, Goto, Load, Labels
    <3>2. pc'[w] = "resident" /\ row'[w] = doc /\ at'[w] = 0
      BY <1>0, <2>4 DEF LocalTypes, Goto, Load
    <3>3. Flow(w)' /\ Prepared(w)'
      BY <1>0, <1>1, <2>4, <3>2 DEF LocalOK, Flow, Prepared
    <3>4. Sound(w)
      BY <3>1, <3>2, <3>3 DEF Sound
    <3> QED BY <1>3, <2>4, <3>4, QuietOK DEF ResidentCommit, Quiescent
  <2> QED BY <1>3, <2>2, <2>3, <2>4 DEF ResidentCommit
<1> QED BY <1>2, <1>3

LEMMA ResignOK ==
  ASSUME Local, NEW w \in Workers, ResignRead(w) \/ ResignCommit(w)
  PROVE  StepOK(w)
<1>0. /\ SharedTypes /\ LocalTypes /\ LocalOK /\ doc \in Document /\ now \in Nat
      /\ at[w] \in Nat /\ row[w] \in Document /\ rival(w) \in Color
  BY TypeParts, WorkerTypes DEF Local, SharedTypes
<1>1. CASE ResignRead(w)
  <2>1. CASE Return(w)
    BY <1>0, <1>1, <2>1, ReturnSound, QuietOK DEF ResignRead, Quiescent
  <2>2. CASE Goto(w, "resign_commit") /\ Load(w) /\ Stamp(w) /\ UNCHANGED <<req, locals>>
    <3>1. LocalTypes' /\ Only(w)
      BY <1>0, <2>2 DEF LocalTypes, Only, Goto, Load, Stamp, locals, Labels
    <3>2. pc'[w] = "resign_commit" /\ row'[w] = doc /\ at'[w] = now
      BY <1>0, <2>2 DEF LocalTypes, Goto, Load, Stamp
    <3>3. Flow(w)' /\ Prepared(w)'
      BY <1>0, <1>1, <2>2, <3>2 DEF ResignRead, LocalOK, Flow, Prepared, locals
    <3>4. Sound(w)
      BY <2>2, <3>1, <3>2, <3>3 DEF Sound
    <3> QED BY <1>1, <3>4, QuietOK DEF ResignRead, Quiescent
  <2> QED BY <1>1, <2>1, <2>2 DEF ResignRead
<1>2. CASE ResignCommit(w)
  <2>1. CASE /\ doc' = Finished(doc, ClockSnapshot(row[w], at[w]), WinFor(rival(w)), "resignation")
             /\ Return(w)
    <3>1. doc' \in Document /\ Bumped
      BY <1>0, <2>1, WinForType, SnapshotType, FinishedType DEF EndReasons, Bumped
    <3> QED BY <1>0, <1>2, <2>1, <3>1, ReturnSound, WriteOK DEF ResignCommit
  <2>2. CASE Again(w, Rounds, "resign_read") /\ UNCHANGED doc
    <3>1. req[w].kind # "ready"
      BY <1>0, <1>2 DEF ResignCommit, LocalOK, Flow
    <3> QED BY <1>0, <1>2, <2>2, <3>1, AgainSound, QuietOK DEF ResignCommit, Quiescent
  <2> QED BY <1>2, <2>1, <2>2 DEF ResignCommit
<1> QED BY <1>1, <1>2

LEMMA EveryStepOK ==
  ASSUME Local, NEW w \in Workers, Start(w) \/ Step(w) \/ Abort(w)
  PROVE  StepOK(w)
BY StartOK, AbortOK, ReadyOK, CancelOK, TouchOK, VirtualOK, HandoffTimeoutOK, TimeoutOK,
   GraceOK, MoveOK, ResidentOK, ResignOK DEF Step

-----------------------------------------------------------------------------
(* Every write is an atomic step on the document as it is.                 *)

Pinned == RevisionPinsDocument /\ (doc.revision = 0 => doc = NewMatch)

Inv == Local /\ Pinned

Handoff ==
  /\ doc.status = "starting"
  /\ \/ \E c \in Color : doc' = [doc EXCEPT !.ready[c] = TRUE, !.revision = @ + 1]
     \/ \E c \in Color, t \in 0 .. now :
          t < ReadyDeadline /\ doc' = ReadyUpdate(doc, doc, c, t)
     \/ \E reason \in {"handoff_timeout", "handoff_cancelled"} : doc' = Cancelled(doc, reason)

Flag ==
  /\ doc.status = "active"
  /\ \E t \in 0 .. now :
       /\ Flagged(doc, t)
       /\ doc' = Finished(doc, ClockSnapshot(doc, t), WinFor(Other(doc.turn)), "timeout")

Concede ==
  /\ doc.status = "active"
  /\ \E t \in 0 .. now, c \in Color, reason \in {"disconnect", "resignation"} :
       doc' = Finished(doc, ClockSnapshot(doc, t), WinFor(c), reason)

PlayMove ==
  \E t \in 0 .. now, c \in Color, m \in Moves :
    Playable(doc, c, m, t) /\ doc' = Moved(doc, doc, c, m, t)

AtomicStep == doc' = doc \/ Handoff \/ Flag \/ Concede \/ PlayMove

LEMMA EveryStepIsAtomic ==
  ASSUME Inv, NEW w \in Workers, Start(w) \/ Step(w) \/ Abort(w)
  PROVE  AtomicStep /\ now' = now
<1>0. /\ SharedTypes /\ LocalTypes /\ LocalOK /\ doc \in Document /\ now \in Nat
      /\ at[w] \in Nat /\ row[w] \in Document /\ row[w].turn \in Color
      /\ me(w) \in Color /\ rival(w) \in Color
  BY TypeParts, WorkerTypes DEF Inv, Local, SharedTypes
<1>1. at[w] \in 0 .. now
  BY <1>0 DEF LocalOK, Timely
<1>2. SameRevision(w) => row[w] = doc
  BY DEF Inv, Pinned, RevisionPinsDocument, SameRevision
<1>3. Prepared(w)
  BY <1>0 DEF LocalOK
<1>4. CASE Start(w) \/ Abort(w) \/ ReadyTouch(w) \/ ReadyMiss(w) \/ CancelRead(w)
  BY <1>4 DEF Start, Begin, Abort, ReadyTouch, ReadyMiss, CancelRead, AtomicStep
<1>5. CASE TouchRead(w) \/ Touch(w) \/ VirtualTouch(w) \/ TimeoutRead(w) \/ Reread(w)
  BY <1>5 DEF TouchRead, Touch, VirtualTouch, TimeoutRead, Reread, AtomicStep
<1>6. CASE GraceRead(w) \/ GraceBegin(w) \/ Reconciled(w) \/ MoveRead(w) \/ MoveExpired(w)
           \/ ResidentPrepare(w) \/ ResignRead(w)
  BY <1>6 DEF GraceRead, GraceBegin, Reconciled, MoveRead, MoveExpired, ResidentPrepare,
              ResignRead, AtomicStep
<1>7. ASSUME ReadyWrite(w) PROVE Handoff
  <2>1. row[w] = doc /\ doc.status = "starting"
    BY <1>2, <1>7 DEF ReadyWrite
  <2>2. CASE pc[w] = "ready_virtual"
    BY <1>0, <1>7, <2>1, <2>2 DEF ReadyWrite, Handoff
  <2>3. CASE pc[w] = "ready_timeout"
    BY <1>7, <2>1, <2>3 DEF ReadyWrite, Handoff
  <2>4. CASE pc[w] = "ready_commit"
    <3>1. at[w] < ReadyDeadline
      BY <1>3, <2>4 DEF Prepared
    <3>2. doc' = ReadyUpdate(doc, doc, me(w), at[w])
      BY <1>7, <2>1, <2>4 DEF ReadyWrite
    <3> QED BY <1>0, <1>1, <2>1, <3>1, <3>2 DEF Handoff
  <2> QED BY <1>7, <2>2, <2>3, <2>4 DEF ReadyWrite
<1>8. CASE ReadyCommit(w)
  BY <1>7, <1>8 DEF ReadyCommit, AtomicStep
<1>9. CASE ReadyRetry(w)
  BY <1>7, <1>9 DEF ReadyRetry, AtomicStep
<1>10. CASE CancelCommit(w)
  BY <1>10 DEF CancelCommit, AtomicStep, Handoff
<1>11. ASSUME VirtualWrite(w) PROVE doc' = doc \/ Handoff
  BY <1>0, <1>11 DEF VirtualWrite, Handoff
<1>12. CASE VirtualCommit(w) \/ VirtualRetry(w)
  BY <1>11, <1>12 DEF VirtualCommit, VirtualRetry, AtomicStep
<1>13. CASE HandoffTimeout(w)
  BY <1>13 DEF HandoffTimeout, AtomicStep, Handoff
<1>14. CASE TimeoutCommit(w)
  <2>1. CASE SameRevision(w) /\ doc.status = "active"
    <3>1. /\ Flagged(doc, at[w])
          /\ doc' = Finished(doc, ClockSnapshot(doc, at[w]), WinFor(Other(doc.turn)), "timeout")
      BY <1>2, <1>3, <1>14, <2>1 DEF TimeoutCommit, Prepared
    <3> QED BY <1>1, <1>14, <2>1, <3>1 DEF TimeoutCommit, AtomicStep, Flag
  <2>2. CASE ~(SameRevision(w) /\ doc.status = "active")
    BY <1>14, <2>2 DEF TimeoutCommit, AtomicStep
  <2> QED BY <2>1, <2>2
<1>15. CASE GraceCommit(w)
  <2>1. CASE SameRevision(w) /\ doc.status = "active"
    <3>1. doc' = Finished(doc, ClockSnapshot(doc, at[w]), WinFor(me(w)), "disconnect")
      BY <1>2, <1>15, <2>1 DEF GraceCommit
    <3> QED BY <1>0, <1>1, <1>15, <2>1, <3>1 DEF GraceCommit, AtomicStep, Concede
  <2>2. CASE ~(SameRevision(w) /\ doc.status = "active")
    BY <1>15, <2>2 DEF GraceCommit, AtomicStep
  <2> QED BY <2>1, <2>2
<1>16. CASE ResignCommit(w)
  <2>1. CASE SameRevision(w) /\ doc.status = "active"
    <3>1. doc' = Finished(doc, ClockSnapshot(doc, at[w]), WinFor(rival(w)), "resignation")
      BY <1>2, <1>16, <2>1 DEF ResignCommit
    <3> QED BY <1>0, <1>1, <1>16, <2>1, <3>1 DEF ResignCommit, AtomicStep, Concede
  <2>2. CASE ~(SameRevision(w) /\ doc.status = "active")
    BY <1>16, <2>2 DEF ResignCommit, AtomicStep
  <2> QED BY <2>1, <2>2
<1>17. CASE MoveCommit(w)
  <2>1. CASE SameRevision(w)
    <3>1. /\ Playable(doc, me(w), req[w].uci, at[w])
          /\ doc' = Moved(doc, doc, me(w), req[w].uci, at[w])
      BY <1>2, <1>3, <1>17, <2>1 DEF MoveCommit, Prepared
    <3>2. req[w].uci \in Moves
      BY <3>1 DEF Playable
    <3> QED BY <1>0, <1>1, <1>17, <3>1, <3>2 DEF MoveCommit, AtomicStep, PlayMove
  <2>2. CASE ~SameRevision(w)
    BY <1>17, <2>2 DEF MoveCommit, AtomicStep
  <2> QED BY <2>1, <2>2
<1>18. CASE ResidentCommit(w)
  <2>1. CASE SameRevision(w)
    <3>1. /\ Playable(doc, doc.turn, req[w].uci, at[w])
          /\ doc' = Moved(doc, doc, doc.turn, req[w].uci, at[w])
      BY <1>2, <1>3, <1>18, <2>1 DEF ResidentCommit, Prepared
    <3>2. req[w].uci \in Moves /\ doc.turn \in Color
      BY <1>0, <1>2, <2>1, <3>1 DEF Playable
    <3> QED BY <1>1, <1>18, <3>1, <3>2 DEF ResidentCommit, AtomicStep, PlayMove
  <2>2. CASE ~SameRevision(w)
    BY <1>18, <2>2 DEF ResidentCommit, AtomicStep
  <2> QED BY <2>1, <2>2
<1> QED BY <1>4, <1>5, <1>6, <1>8, <1>9, <1>10, <1>12, <1>13, <1>14, <1>15, <1>16, <1>17,
           <1>18 DEF Step

\* An atomic step leaves the history alone, or appends the move just made.
LEMMA HistoryStep ==
  ASSUME doc \in Document, now \in Nat, AtomicStep
  PROVE  \/ doc'.history = doc.history
         \/ \E t \in 0 .. now, c \in Color, m \in Moves :
              /\ Playable(doc, c, m, t)
              /\ doc'.history = Append(doc.history, [by |-> c, uci |-> m, at |-> t])
<1>1. CASE doc' = doc
  BY <1>1
<1>2. CASE Handoff
  BY <1>2 DEF Handoff, ReadyUpdate, Cancelled, Document
<1>3. CASE Flag \/ Concede
  BY <1>3 DEF Flag, Concede, Finished, Document
<1>4. CASE PlayMove
  <2>1. PICK t \in 0 .. now, c \in Color, m \in Moves :
           Playable(doc, c, m, t) /\ doc' = Moved(doc, doc, c, m, t)
    BY <1>4 DEF PlayMove
  <2>2. doc'.history = Append(doc.history, [by |-> c, uci |-> m, at |-> t])
    BY <2>1 DEF Moved, Document
  <2> QED BY <2>1, <2>2
<1> QED BY <1>1, <1>2, <1>3, <1>4 DEF AtomicStep

LEMMA AppendAt ==
  ASSUME NEW h \in Seq(Ply), NEW e \in Ply
  PROVE  /\ Append(h, e) \in Seq(Ply) /\ Len(h) \in Nat
         /\ DOMAIN h = 1 .. Len(h)
         /\ Len(Append(h, e)) = Len(h) + 1
         /\ DOMAIN Append(h, e) = 1 .. (Len(h) + 1)
         /\ \A i \in 1 .. Len(h) : Append(h, e)[i] = h[i]
         /\ Append(h, e)[Len(h) + 1] = e
OBVIOUS

LEMMA PastStep ==
  ASSUME doc \in Document, now \in Nat, AtomicStep, Past(doc, now)
  PROVE  Past(doc', now)
<1>1. CASE doc'.history = doc.history
  BY <1>1 DEF Past
<1>2. ASSUME NEW t \in 0 .. now, NEW c \in Color, NEW m \in Moves,
             doc'.history = Append(doc.history, [by |-> c, uci |-> m, at |-> t])
      PROVE  Past(doc', now)
  <2> DEFINE h == doc.history
             e == [by |-> c, uci |-> m, at |-> t]
  <2>1. h \in Seq(Ply) /\ e \in Ply /\ e.at <= now
    BY DEF Document, Ply
  <2>2. \A i \in DOMAIN h : h[i].at <= now
    BY DEF Past
  <2>3. doc'.history = Append(h, e)
    BY <1>2
  <2> HIDE DEF h, e
  <2> QED BY <2>1, <2>2, <2>3, AppendAt DEF Past
<1> QED BY <1>1, <1>2, HistoryStep

LEMMA InitInv == Init => Inv
<1> SUFFICES ASSUME Init PROVE Inv
  OBVIOUS
<1>1. NewMatch \in Document /\ NewMatch.revision = 0 /\ NewMatch.history = <<>>
  BY NewMatchType DEF NewMatch
<1>2. SharedTypes
  BY <1>1 DEF Init, SharedTypes, NoTime
<1>3. LocalTypes
  BY <1>1 DEF Init, LocalTypes, Labels, NoReq, Color, NoTime
<1>4. Past(NewMatch, 0)
  BY <1>1 DEF Past
<1>5. LocalOK
  <2> SUFFICES ASSUME NEW w \in Workers PROVE Flow(w) /\ Prepared(w) /\ Timely(w)
    BY DEF LocalOK
  <2>1. /\ pc[w] = "idle" /\ req[w] = NoReq /\ row[w] = NewMatch /\ at[w] = 0
        /\ ret[w] = "idle" /\ now = 0
    BY DEF Init
  <2> QED BY <1>4, <2>1 DEF Flow, Prepared, Timely, NoReq
<1>6. Pinned
  BY <1>1 DEF Init, Pinned, RevisionPinsDocument
<1> QED BY <1>2, <1>3, <1>4, <1>5, <1>6, TypeParts DEF Inv, Local, Init

LEMMA StepInv ==
  ASSUME Inv, NEW w \in Workers, Start(w) \/ Step(w) \/ Abort(w)
  PROVE  Inv'
<1>0. /\ SharedTypes /\ LocalTypes /\ LocalOK /\ Past(doc, now)
      /\ doc \in Document /\ now \in Nat /\ doc.revision \in Nat
  BY TypeParts DEF Inv, Local, SharedTypes, Document
<1>1. StepOK(w) /\ AtomicStep /\ now' = now
  BY EveryStepOK, EveryStepIsAtomic DEF Inv
<1>2. TypeOK'
  BY <1>1, TypeParts DEF StepOK, Sound, TypeOK, SharedTypes, LocalTypes
<1>3. Past(doc, now)' /\ Past(doc', now)
  BY <1>0, <1>1, PastStep DEF Past
<1>4. Past(NewMatch, now)
  BY DEF Past, NewMatch
<1>5. LocalOK'
  <2> SUFFICES ASSUME NEW v \in Workers PROVE (Flow(v) /\ Prepared(v) /\ Timely(v))'
    BY DEF LocalOK
  <2>1. CASE v = w
    <3>1. (Flow(w) /\ Prepared(w))'
      BY <1>1 DEF StepOK, Sound
    <3>2. at'[w] <= now
      BY <1>0, <1>1 DEF StepOK, Sound, LocalOK, Timely
    <3>3. Past(row'[w], now)
      <4>1. row'[w] \in {row[w], NewMatch, doc, doc'}
        BY <1>1 DEF StepOK, Sound
      <4>2. Past(row[w], now)
        BY <1>0 DEF LocalOK, Timely
      <4> QED BY <1>0, <1>3, <1>4, <4>1, <4>2
    <3> QED BY <1>1, <2>1, <3>1, <3>2, <3>3 DEF Timely, Past
  <2>2. CASE v # w
    <3>1. /\ pc'[v] = pc[v] /\ req'[v] = req[v] /\ row'[v] = row[v]
          /\ at'[v] = at[v] /\ ret'[v] = ret[v]
      BY <1>1, <2>2 DEF StepOK, Sound, Only
    <3>2. Flow(v) /\ Prepared(v) /\ Timely(v)
      BY <1>0 DEF LocalOK
    <3>3. Flow(v)'
      BY <3>1, <3>2 DEF Flow
    <3>4. Prepared(v)'
      BY <3>1, <3>2 DEF Prepared, Playable, me, Past, Flagged, MayMove, ClockExpired,
                        ClockSnapshot, Legal
    <3>5. Timely(v)'
      BY <1>1, <3>1, <3>2 DEF Timely, Past
    <3> QED BY <3>3, <3>4, <3>5
  <2> QED BY <2>1, <2>2
<1>6. Pinned'
  <2>1. Bumped /\ doc' \in Document
    BY <1>1 DEF StepOK, SharedTypes
  <2>2. doc'.revision \in Nat
    BY <2>1 DEF Document
  <2>3. doc'.revision = 0 => doc' = NewMatch
    BY <1>0, <2>1 DEF Bumped, Inv, Pinned
  <2>4. ASSUME NEW d \in Document, d.revision <= doc.revision, d.revision = doc.revision => d = doc
        PROVE  d.revision <= doc'.revision /\ (d.revision = doc'.revision => d = doc')
    <3>1. d.revision \in Nat
      BY DEF Document
    <3> QED BY <1>0, <2>1, <2>4, <3>1 DEF Bumped
  <2>5. ASSUME NEW v \in Workers
        PROVE  /\ row'[v].revision <= doc'.revision
               /\ row'[v].revision = doc'.revision => row'[v] = doc'
    <3>1. /\ row[v] \in Document /\ row[v].revision <= doc.revision
          /\ row[v].revision = doc.revision => row[v] = doc
      BY <1>0 DEF Inv, Pinned, RevisionPinsDocument, LocalTypes
    <3>2. CASE row'[v] = row[v]
      BY <2>4, <3>1, <3>2
    <3>3. CASE row'[v] \in {doc, doc'}
      BY <1>0, <2>2, <2>4, <3>3
    <3>4. CASE row'[v] = NewMatch
      BY <2>2, <2>3, <3>4, NewMatchType
    <3>5. row'[v] \in {row[v], NewMatch, doc, doc'}
      BY <1>1 DEF StepOK, Sound, Only
    <3> QED BY <3>2, <3>3, <3>4, <3>5
  <2> QED BY <2>3, <2>5 DEF Pinned, RevisionPinsDocument
<1> QED BY <1>2, <1>3, <1>5, <1>6 DEF Inv, Local

LEMMA TickInv ==
  ASSUME Inv, Tick
  PROVE  Inv'
<1>0. now \in Nat /\ now' = now + 1 /\ doc \in Document /\ at \in [Workers -> Nat]
      /\ row \in [Workers -> Document]
  BY DEF Inv, Local, TypeOK, Tick
<1>1. UNCHANGED <<doc, seen, grace, pc, req, row, at, live, graceAt, attempt, inner, ret>>
  BY DEF Tick, presence, locals
<1>2. TypeOK'
  BY <1>0, <1>1 DEF Inv, Local, TypeOK
<1>3. ASSUME NEW d \in Document, Past(d, now) PROVE Past(d, now + 1)
  <2>1. d.history \in Seq(Ply)
    BY DEF Document
  <2>2. \A i \in DOMAIN d.history : d.history[i] \in Ply
    BY <2>1
  <2>3. \A i \in DOMAIN d.history : d.history[i].at \in Nat
    BY <2>2 DEF Ply
  <2> QED BY <1>0, <1>3, <2>3 DEF Past
<1>4. LocalOK'
  <2> SUFFICES ASSUME NEW v \in Workers PROVE (Flow(v) /\ Prepared(v) /\ Timely(v))'
    BY DEF LocalOK
  <2>1. Flow(v) /\ Prepared(v) /\ Timely(v)
    BY DEF Inv, Local, LocalOK
  <2>2. Flow(v)'
    BY <1>1, <2>1 DEF Flow
  <2>3. Prepared(v)'
    BY <1>1, <2>1 DEF Prepared, Playable, me, Past, Flagged, MayMove, ClockExpired,
                      ClockSnapshot, Legal
  <2>4. at[v] <= now + 1 /\ Past(row[v], now + 1)
    BY <1>0, <1>3, <2>1 DEF Timely
  <2>5. Timely(v)'
    BY <1>0, <1>1, <2>4 DEF Timely, Past
  <2> QED BY <2>2, <2>3, <2>5
<1>5. Past(doc, now)'
  BY <1>0, <1>1, <1>3 DEF Inv, Local, Past
<1>6. Pinned'
  BY <1>1 DEF Inv, Pinned, RevisionPinsDocument
<1> QED BY <1>2, <1>4, <1>5, <1>6 DEF Inv, Local

LEMMA StutterInv ==
  ASSUME Inv, UNCHANGED vars
  PROVE  Inv'
BY DEF vars, presence, locals, Inv, Local, TypeOK, LocalOK, Flow, Prepared, Timely, Past,
       Pinned, RevisionPinsDocument, Playable, me, Flagged, MayMove, ClockExpired,
       ClockSnapshot, Legal

LEMMA InvInductive == Spec => []Inv
<1>1. Inv /\ [Next]_vars => Inv'
  BY StepInv, TickInv, StutterInv DEF Next
<1> QED BY InitInv, <1>1, PTL DEF Spec

\* Every step of the specification is an atomic step of the duel.
LEMMA NextIsAtomic ==
  ASSUME Inv, [Next]_vars
  PROVE  AtomicStep
BY EveryStepIsAtomic DEF Next, AtomicStep, Tick, vars

-----------------------------------------------------------------------------
(* The theorems about the concurrent handlers.                             *)

\* Every variable always holds a value of its kind, whatever the handlers do.
THEOREM TypeCorrect == Spec => []TypeOK
<1>1. Inv => TypeOK
  BY DEF Inv, Local
<1> QED BY InvInductive, <1>1, PTL

\* Optimistic locking is sound: a snapshot with the document's revision is the
\* document, so no guarded write of any handler acts on stale data.
THEOREM SnapshotsArePinned == Spec => []RevisionPinsDocument
<1>1. Inv => RevisionPinsDocument
  BY DEF Inv, Pinned
<1> QED BY InvInductive, <1>1, PTL

\* A duel that is over stays exactly as it is, late handlers included.
THEOREM TerminalStates == Spec => TerminalIsFinal
<1>1. Inv /\ [Next]_vars => [doc.status \in {"cancelled", "finished"} => doc' = doc]_vars
  <2> SUFFICES ASSUME Inv, [Next]_vars, doc.status \in {"cancelled", "finished"}
               PROVE  doc' = doc
    OBVIOUS
  <2>1. AtomicStep
    BY NextIsAtomic
  <2> QED BY <2>1 DEF AtomicStep, Handoff, Flag, Concede, PlayMove, Playable, MayMove
<1> QED BY InvInductive, <1>1, PTL DEF Spec, TerminalIsFinal

=============================================================================
