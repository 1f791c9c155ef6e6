-------------------------- MODULE GameSessionProofs --------------------------
(***************************************************************************)
(* What the game handlers and the page promise each other, for every number *)
(* of devices, operations, retries and interruptions and for every rule of  *)
(* the game.                                                                *)
(***************************************************************************)
EXTENDS GameSession, SequenceTheorems, TLAPS

Whats == Moves \cup {"undo"}
Turn == [move : Moves, key : Nat, n : Nat]
Entry == [key : Nat, n : Nat]
Document == [hist : Seq(Turn), led : SUBSET Entry, n : Nat, ver : Nat]
Game == [moves : Seq(Moves), ver : Nat]

Request ==
  [id : Nat, key : Nat, what : Whats, st : {"sent", "read", "missed"}, base : {NoOp} \cup Document]

Answers == {NoAnswer} \cup [kind : {"ok", "refused"}, game : Game]
Operations ==
  {NoOp} \cup [key : Nat \ {0}, what : Whats, req : Nat, tries : Nat, ans : Answers]
Fetches ==
  {NoFetch} \cup [st : {"asked"}, stale : BOOLEAN, off : BOOLEAN]
    \cup [st : {"got"}, stale : BOOLEAN, off : BOOLEAN, game : Game]
Restores == {NoFetch} \cup [st : {"asked"}] \cup [st : {"got"}, game : Game]
Retries == {NoRetry} \cup [key : Nat \ {0}, fp : [what : Whats, at : Nat]]

Page ==
  [game : Game, board : Seq(Moves), ready : BOOLEAN, over : BOOLEAN, op : Operations,
   retry : Retries, save : {"saved", "saving", "error"}, rc : Fetches, restore : Restores,
   needed : BOOLEAN, online : BOOLEAN, timer : BOOLEAN, tries : Nat, acked : Nat]

Counts == [keys : Nat, reqs : Nat, breaks : Nat]

TypeInv ==
  /\ doc \in Document
  /\ \A r \in reqs : r \in Request
  /\ tab \in Page
  /\ used \in Counts

-----------------------------------------------------------------------------
(* A document by itself.                                                   *)

Covered(d) ==
  \A i \in DOMAIN d.hist :
    d.hist[i].n > d.n - MaxLedger =>
      \E e \in d.led : e.key = d.hist[i].key /\ e.n >= d.hist[i].n

Apart(h) ==
  \A i, j \in DOMAIN h : i < j /\ h[i].key = h[j].key => h[j].n - h[i].n > MaxLedger

\* Every turn is numbered, the ledger still knows the recent ones, and no
\* operation has two turns within its reach.
Kept(d) ==
  /\ \A i \in DOMAIN d.hist : d.hist[i].n <= d.n
  /\ Covered(d)
  /\ Apart(d.hist)

LEMMA MovesOfType ==
  ASSUME NEW h \in Seq(Turn)
  PROVE  /\ MovesOf(h) \in Seq(Moves) /\ Len(MovesOf(h)) = Len(h)
         /\ \A i \in 1 .. Len(h) : MovesOf(h)[i] = h[i].move
<1>0. \A i \in 1 .. Len(h) : h[i] \in Turn
  BY ElementOfSeq
<1>1. DOMAIN h = 1 .. Len(h) /\ Len(h) \in Nat /\ \A i \in 1 .. Len(h) : h[i].move \in Moves
  BY <1>0 DEF Turn
<1>2. MovesOf(h) \in [1 .. Len(h) -> Moves]
  BY <1>1 DEF MovesOf
<1>3. MovesOf(h) \in Seq(Moves)
  BY <1>1, <1>2
<1> QED BY <1>1, <1>2, <1>3 DEF MovesOf

LEMMA MovesOfAppend ==
  ASSUME NEW h \in Seq(Turn), NEW t \in Turn
  PROVE  MovesOf(Append(h, t)) = Append(MovesOf(h), t.move)
<1>1. t.move \in Moves /\ Append(h, t) \in Seq(Turn) /\ Len(Append(h, t)) = Len(h) + 1
  BY DEF Turn
<1>2. \A i \in 1 .. Len(h) + 1 : Append(h, t)[i] = IF i <= Len(h) THEN h[i] ELSE t
  OBVIOUS
<1>3. MovesOf(h) \in Seq(Moves) /\ Len(MovesOf(h)) = Len(h)
      /\ \A i \in 1 .. Len(h) : MovesOf(h)[i] = h[i].move
  BY MovesOfType
<1>4. /\ MovesOf(Append(h, t)) \in Seq(Moves) /\ Len(MovesOf(Append(h, t))) = Len(h) + 1
      /\ \A i \in 1 .. Len(h) + 1 : MovesOf(Append(h, t))[i] = Append(h, t)[i].move
  BY <1>1, MovesOfType
<1>5. \A i \in 1 .. Len(h) + 1 :
        MovesOf(Append(h, t))[i] = IF i <= Len(h) THEN MovesOf(h)[i] ELSE t.move
  BY <1>2, <1>3, <1>4
<1> QED BY <1>1, <1>3, <1>4, <1>5

LEMMA MovesOfPrefix ==
  ASSUME NEW h \in Seq(Turn), h # <<>>
  PROVE  /\ SubSeq(h, 1, Len(h) - 1) \in Seq(Turn)
         /\ Len(SubSeq(h, 1, Len(h) - 1)) = Len(h) - 1
         /\ \A i \in 1 .. Len(h) - 1 : SubSeq(h, 1, Len(h) - 1)[i] = h[i]
         /\ MovesOf(h) # <<>>
         /\ MovesOf(SubSeq(h, 1, Len(h) - 1)) = SubSeq(MovesOf(h), 1, Len(MovesOf(h)) - 1)
<1> DEFINE p == SubSeq(h, 1, Len(h) - 1)
<1>1. Len(h) \in Nat \ {0}
  OBVIOUS
<1>2. p \in Seq(Turn) /\ Len(p) = Len(h) - 1 /\ \A i \in 1 .. Len(h) - 1 : p[i] = h[i]
  <2>1. \A i \in 1 .. Len(h) - 1 : h[i] \in Turn
    BY <1>1, ElementOfSeq
  <2>2. /\ p \in Seq(Turn) /\ Len(p) = IF 1 <= Len(h) - 1 THEN Len(h) - 1 - 1 + 1 ELSE 0
        /\ \A i \in 1 .. Len(h) - 1 - 1 + 1 : p[i] = h[1 + i - 1]
    BY <1>1, <2>1, SubSeqProperties
  <2>3. p \in Seq(Turn) /\ Len(p) = Len(h) - 1
    <3> DEFINE n == Len(h) - 1
    <3>1. n \in Nat
      BY <1>1
    <3>2. n - 1 + 1 = n /\ (~(1 <= n) => n = 0)
      <4> HIDE DEF n
      <4> QED BY <3>1
    <3> HIDE DEF p
    <3> QED BY <2>2, <3>2
  <2>4. ASSUME NEW i \in 1 .. Len(h) - 1 PROVE p[i] = h[i]
    <3>1. i \in 1 .. Len(h) - 1 - 1 + 1 /\ 1 + i - 1 = i
      BY <1>1
    <3> QED BY <2>2, <3>1
  <2> QED BY <2>3, <2>4
<1>3. MovesOf(h) \in Seq(Moves) /\ Len(MovesOf(h)) = Len(h)
      /\ \A i \in 1 .. Len(h) : MovesOf(h)[i] = h[i].move
  BY MovesOfType
<1>4. MovesOf(p) \in Seq(Moves) /\ Len(MovesOf(p)) = Len(p)
      /\ \A i \in 1 .. Len(p) : MovesOf(p)[i] = p[i].move
  BY <1>2, MovesOfType
<1>5. MovesOf(h) # <<>>
  BY <1>1, <1>3
<1>6. \A i \in 1 .. Len(h) - 1 : MovesOf(p)[i] = MovesOf(h)[i]
  BY <1>1, <1>2, <1>3, <1>4
<1>7. MovesOf(p) = SubSeq(MovesOf(h), 1, Len(MovesOf(h)) - 1)
  BY <1>1, <1>2, <1>3, <1>4, <1>6
<1> QED BY <1>2, <1>5, <1>7

LEMMA WrittenType ==
  ASSUME NEW b \in Document, NEW key \in Nat, NEW what \in Whats, doc \in Document,
         what = "undo" => b.hist # <<>>
  PROVE  Written(b, key, what) \in Document
<1> DEFINE w == Written(b, key, what)
<1>1. b.hist \in Seq(Turn) /\ b.led \in SUBSET Entry /\ b.n \in Nat /\ doc.ver \in Nat
  BY DEF Document
<1>2. w.hist \in Seq(Turn)
  <2>1. CASE what = "undo"
    BY <1>1, <2>1, MovesOfPrefix DEF Written
  <2>2. CASE what # "undo"
    <3>1. [move |-> what, key |-> key, n |-> b.n + 1] \in Turn
      BY <1>1, <2>2 DEF Turn, Whats
    <3> QED BY <1>1, <2>2, <3>1 DEF Written
  <2> QED BY <2>1, <2>2
<1>3. w.led \in SUBSET Entry
  BY <1>1 DEF Written, Remember, Entry
<1> QED BY <1>1, <1>2, <1>3 DEF Written, Document

LEMMA RememberKeeps ==
  ASSUME NEW led \in SUBSET Entry, NEW key \in Nat, NEW n \in Nat, NEW k \in Nat, NEW m \in Nat,
         m > n - MaxLedger, m <= n,
         \E e \in led : e.key = k /\ e.n >= m
  PROVE  \E e \in Remember(led, key, n) : e.key = k /\ e.n >= m
<1>1. PICK e \in led : e.key = k /\ e.n >= m
  OBVIOUS
<1>2. e.n \in Nat /\ MaxLedger \in Nat
  BY LedgerAssumption DEF Entry
<1>3. CASE k = key
  <2>1. [key |-> key, n |-> n] \in Remember(led, key, n)
    BY DEF Remember
  <2> QED BY <1>3, <2>1
<1>4. CASE k # key
  <2>1. e \in Remember(led, key, n)
    BY <1>1, <1>2, <1>4 DEF Remember
  <2> QED BY <1>1, <2>1
<1> QED BY <1>3, <1>4

LEMMA WrittenKept ==
  ASSUME NEW b \in Document, NEW key \in Nat, NEW what \in Whats, Kept(b),
         what = "undo" => b.hist # <<>>,
         what # "undo" => ~Replays(b.led, key)
  PROVE  Kept(Written(b, key, what))
<1> DEFINE w == Written(b, key, what)
<1>0. MaxLedger \in Nat \ {0}
  BY LedgerAssumption
<1>1. b.hist \in Seq(Turn) /\ b.led \in SUBSET Entry /\ b.n \in Nat
  BY DEF Document
<1>2. \A i \in DOMAIN b.hist : b.hist[i].n \in Nat /\ b.hist[i].key \in Nat
  <2>1. \A i \in DOMAIN b.hist : b.hist[i] \in Turn
    BY <1>1, ElementOfSeq
  <2> QED BY <2>1 DEF Turn
<1>3. w.n = b.n + 1 /\ w.led = Remember(b.led, key, b.n + 1)
  BY DEF Written
\* A turn of the document read is as covered as before.
<1>4. ASSUME NEW i \in DOMAIN b.hist, b.hist[i].n > w.n - MaxLedger
      PROVE  \E e \in w.led : e.key = b.hist[i].key /\ e.n >= b.hist[i].n
  <2>1. b.hist[i].n <= b.n
    BY DEF Kept
  <2>2. \E e \in b.led : e.key = b.hist[i].key /\ e.n >= b.hist[i].n
    BY <1>0, <1>1, <1>2, <1>3, <1>4 DEF Kept, Covered
  <2>4. b.hist[i].n \in Nat /\ b.hist[i].key \in Nat
    BY <1>2
  <2>6. b.n \in Nat /\ w.n = b.n + 1
    BY <1>1, <1>3
  <2>3. b.n + 1 \in Nat /\ b.hist[i].n > b.n + 1 - MaxLedger /\ b.hist[i].n <= b.n + 1
    BY <1>0, <1>4, <2>1, <2>4, <2>6
  <2>5. \E e \in Remember(b.led, key, b.n + 1) : e.key = b.hist[i].key /\ e.n >= b.hist[i].n
    <3>1. b.led \in SUBSET Entry
      BY <1>1
    <3> DEFINE m == b.hist[i].n
               k == b.hist[i].key
               n == b.n + 1
    <3> HIDE DEF w
    <3>5. m \in Nat /\ k \in Nat
      BY <2>4
    <3>2. n \in Nat /\ m > n - MaxLedger /\ m <= n
      BY <1>0, <2>3, <2>4, <2>6
    <3>3. \E e \in b.led : e.key = k /\ e.n >= m
      BY <2>2
    <3> HIDE DEF m, k, n
    <3>4. \E e \in Remember(b.led, key, n) : e.key = k /\ e.n >= m
      BY <3>1, <3>2, <3>3, <3>5, RememberKeeps
    <3> QED BY <3>4 DEF m, k, n
  <2> QED BY <1>3, <2>5
<1>5. CASE what = "undo"
  <2>1. /\ w.hist = SubSeq(b.hist, 1, Len(b.hist) - 1)
        /\ DOMAIN w.hist \subseteq DOMAIN b.hist
        /\ \A i \in DOMAIN w.hist : w.hist[i] = b.hist[i]
    BY <1>1, <1>5, MovesOfPrefix DEF Written
  <2>2. Covered(w)
    BY <1>4, <2>1 DEF Covered
  <2>3. \A i \in DOMAIN w.hist : w.hist[i].n <= w.n
    BY <1>1, <1>2, <1>3, <2>1 DEF Kept
  <2>4. Apart(w.hist)
    BY <2>1 DEF Kept, Apart
  <2> QED BY <2>2, <2>3, <2>4 DEF Kept
<1>6. CASE what # "undo"
  <2> DEFINE t == [move |-> what, key |-> key, n |-> b.n + 1]
  <2>1. t \in Turn /\ w.hist = Append(b.hist, t)
    BY <1>1, <1>6 DEF Written, Turn, Whats
  <2>2. /\ DOMAIN w.hist = DOMAIN b.hist \cup {Len(b.hist) + 1}
        /\ \A i \in DOMAIN b.hist : w.hist[i] = b.hist[i]
        /\ w.hist[Len(b.hist) + 1] = t
        /\ \A i \in DOMAIN b.hist : i < Len(b.hist) + 1
    BY <1>1, <2>1
  <2>3. t.key = key /\ t.n = b.n + 1
    OBVIOUS
  <2>4. \A i \in DOMAIN w.hist : w.hist[i].n <= w.n
    BY <1>1, <1>2, <1>3, <2>2, <2>3 DEF Kept
  <2>5. Covered(w)
    <3>1. [key |-> key, n |-> b.n + 1] \in w.led
      BY <1>3 DEF Remember
    <3> QED BY <1>1, <1>4, <2>2, <2>3, <3>1 DEF Covered
  \* The operation was not in the ledger: its earlier turns are out of reach.
  <2>6. ASSUME NEW i \in DOMAIN b.hist, b.hist[i].key = key
        PROVE  b.n + 1 - b.hist[i].n > MaxLedger
    <3>1. ~(b.hist[i].n > b.n - MaxLedger)
      BY <1>6, <2>6 DEF Kept, Covered, Replays
    <3> QED BY <1>0, <1>1, <1>2, <3>1
  <2>7. Apart(w.hist)
    <3> SUFFICES ASSUME NEW i \in DOMAIN w.hist, NEW j \in DOMAIN w.hist,
                        i < j, w.hist[i].key = w.hist[j].key
                 PROVE  w.hist[j].n - w.hist[i].n > MaxLedger
      BY DEF Apart
    <3>1. CASE j \in DOMAIN b.hist
      <4>1. i \in DOMAIN b.hist
        BY <1>1, <2>2, <3>1
      <4> QED BY <2>2, <3>1, <4>1 DEF Kept, Apart
    <3>2. CASE j = Len(b.hist) + 1
      <4>1. i \in DOMAIN b.hist
        BY <2>2, <3>2
      <4>2. w.hist[i] = b.hist[i] /\ w.hist[j] = t
        BY <2>2, <3>2, <4>1
      <4>3. b.hist[i].key = key
        BY <2>3, <4>2
      <4>4. w.hist[j].n = b.n + 1
        BY <2>3, <4>2
      <4>5. b.n + 1 - b.hist[i].n > MaxLedger
        BY <2>6, <4>1, <4>3
      <4>6. w.hist[j].n - w.hist[i].n = b.n + 1 - b.hist[i].n
        BY <1>1, <1>2, <4>1, <4>2, <4>4
      <4> QED BY <4>5, <4>6
    <3> QED BY <2>2, <3>1, <3>2
  <2> QED BY <2>4, <2>5, <2>7 DEF Kept
<1> QED BY <1>5, <1>6

-----------------------------------------------------------------------------
(* The page keeps its shape.                                               *)

LEMMA SnapshotType ==
  ASSUME NEW d \in Document
  PROVE  Snapshot(d) \in Game /\ Snapshot(d).ver = d.ver /\ d.ver \in Nat
<1>1. d.hist \in Seq(Turn) /\ d.ver \in Nat
  BY DEF Document
<1>2. MovesOf(d.hist) \in Seq(Moves)
  BY <1>1, MovesOfType
<1> QED BY <1>1, <1>2 DEF Snapshot, Game

LEMMA PageFields ==
  ASSUME NEW t \in Page
  PROVE  /\ t.game \in Game /\ t.board \in Seq(Moves) /\ t.ready \in BOOLEAN /\ t.over \in BOOLEAN
         /\ t.op \in Operations /\ t.retry \in Retries /\ t.save \in {"saved", "saving", "error"}
         /\ t.rc \in Fetches /\ t.restore \in Restores /\ t.needed \in BOOLEAN
         /\ t.online \in BOOLEAN /\ t.timer \in BOOLEAN /\ t.tries \in Nat /\ t.acked \in Nat
BY DEF Page

LEMMA FetchTypes ==
  /\ NoFetch \in Fetches /\ Fetch \in Fetches /\ NoFetch.st = "idle"
  /\ Fetch.st = "asked" /\ ~Fetch.stale /\ Fetch # NoFetch
BY DEF Fetches, NoFetch, Fetch

\* What a fetch carries is not lost by marking it.
LEMMA FetchMarks ==
  ASSUME NEW f \in Fetches, f # NoFetch
  PROVE  /\ [f EXCEPT !.stale = TRUE] \in Fetches /\ [f EXCEPT !.off = TRUE] \in Fetches
         /\ [f EXCEPT !.stale = TRUE].stale /\ [f EXCEPT !.off = TRUE].stale = f.stale
         /\ [f EXCEPT !.off = TRUE].st = f.st /\ f.stale \in BOOLEAN /\ f.off \in BOOLEAN
         /\ f.st = "got" => f.game \in Game /\ [f EXCEPT !.off = TRUE].game = f.game
<1>1. CASE f \in [st : {"asked"}, stale : BOOLEAN, off : BOOLEAN]
  BY <1>1 DEF Fetches
<1>2. CASE f \in [st : {"got"}, stale : BOOLEAN, off : BOOLEAN, game : Game]
  BY <1>2 DEF Fetches
<1> QED BY <1>1, <1>2 DEF Fetches

\* Nothing but the fetch and the save state differs.
Alike(s, t) ==
  /\ s.game = t.game /\ s.board = t.board /\ s.op = t.op /\ s.retry = t.retry
  /\ s.acked = t.acked /\ s.restore = t.restore /\ s.ready = t.ready

LEMMA AttemptPage ==
  ASSUME NEW t \in Page, NEW announce \in BOOLEAN
  PROVE  /\ Attempt(t, announce) \in Page /\ Alike(Attempt(t, announce), t)
         /\ \/ Attempt(t, announce).rc = t.rc
            \/ Attempt(t, announce).rc = Fetch /\ t.op = NoOp
<1>1. CASE Attempt(t, announce) = t
  BY <1>1 DEF Alike
<1>2. CASE /\ t.op = NoOp
           /\ Attempt(t, announce) = [t EXCEPT !.rc = Fetch, !.save = IF announce THEN "saving" ELSE @]
  BY <1>2, FetchTypes DEF Page, Alike
<1> QED BY <1>1, <1>2 DEF Attempt

LEMMA RenderedPage ==
  ASSUME NEW t \in Page
  PROVE  /\ Rendered(t) \in Page /\ Alike(Rendered(t), t)
         /\ Rendered(t).rc = t.rc \/ (Rendered(t).rc = Fetch /\ t.op = NoOp)
<1>1. CASE Rendered(t) = t
  BY <1>1 DEF Alike
<1>2. CASE Rendered(t) = Attempt(t, FALSE)
  BY <1>2, AttemptPage
<1> QED BY <1>1, <1>2 DEF Rendered

-----------------------------------------------------------------------------
(* Types.                                                                  *)

LEMMA InitType == GameInit => TypeInv
<1> SUFFICES ASSUME GameInit PROVE TypeInv
  OBVIOUS
<1>1. <<>> \in Seq(Turn) /\ <<>> \in Seq(Moves) /\ MovesOf(<<>>) = <<>>
  BY DEF MovesOf
<1>2. doc \in Document
  BY <1>1 DEF GameInit, Document
<1>3. Snapshot(doc) \in Game
  BY <1>2, SnapshotType
<1>4. tab \in Page
  BY <1>1, <1>3 DEF GameInit, Page, Operations, Retries, Fetches, Restores
<1> QED BY <1>2, <1>4 DEF GameInit, TypeInv, Counts

LEMMA ReplyPage ==
  ASSUME TypeInv, NEW r, NEW kind \in {"ok", "refused"}, NEW game \in Game, Reply(r, kind, game)
  PROVE  tab' \in Page /\ used' \in Counts /\ reqs' \subseteq reqs
<1>1. CASE tab' = tab
  BY <1>1 DEF Reply, TypeInv
<1>2. CASE /\ tab.op.key # 0
           /\ tab' = [tab EXCEPT !.op.ans = [kind |-> kind, game |-> game]]
  <2>1. tab.op \in [key : Nat \ {0}, what : Whats, req : Nat, tries : Nat, ans : Answers]
    BY <1>2 DEF TypeInv, Page, Operations, NoOp
  <2>2. [kind |-> kind, game |-> game] \in Answers
    BY DEF Answers
  <2>3. [tab.op EXCEPT !.ans = [kind |-> kind, game |-> game]] \in Operations
    BY <2>1, <2>2 DEF Operations
  <2> QED BY <1>2, <2>3 DEF TypeInv, Page, Reply
<1> QED BY <1>1, <1>2 DEF Reply

LEMMA ServerType ==
  ASSUME TypeInv, NEW r \in reqs,
         ReplayAnswer(r) \/ Refuse(r) \/ Load(r) \/ Miss(r) \/ Recheck(r)
  PROVE  TypeInv'
<1>1. r \in Request /\ doc \in Document /\ Snapshot(doc) \in Game
  BY SnapshotType DEF TypeInv
<1>2. CASE ReplayAnswer(r) \/ Refuse(r) \/ Recheck(r)
  <2>1. PICK kind \in {"ok", "refused"} : Reply(r, kind, Snapshot(doc)) /\ UNCHANGED doc
    BY <1>2 DEF ReplayAnswer, Refuse, Recheck
  <2>2. tab' \in Page /\ used' \in Counts /\ reqs' \subseteq reqs
    BY <1>1, <2>1, ReplyPage
  <2> QED BY <2>1, <2>2 DEF TypeInv
<1>3. CASE Load(r)
  <2>1. [r EXCEPT !.st = "read", !.base = doc] \in Request
    BY <1>1 DEF Request
  <2> QED BY <1>3, <2>1 DEF Load, TypeInv
<1>4. CASE Miss(r)
  <2>1. [r EXCEPT !.st = "missed"] \in Request
    BY <1>1 DEF Request
  <2> QED BY <1>4, <2>1 DEF Miss, TypeInv
<1> QED BY <1>2, <1>3, <1>4

\* What a handler that has read the game was allowed to do with it.
Sound(r) ==
  r.st = "read" =>
    /\ r.base \in Document /\ Kept(r.base)
    /\ ~Replays(r.base.led, r.key) /\ Allowed(r.base.hist, r.what)

LEMMA CommitType ==
  ASSUME TypeInv, NEW r \in reqs, Sound(r), Commit(r)
  PROVE  TypeInv' /\ doc' = Written(r.base, r.key, r.what) /\ Kept(doc')
<1>1. /\ r.key \in Nat /\ r.what \in Whats /\ doc \in Document
      /\ r.base \in Document /\ Kept(r.base)
      /\ ~Replays(r.base.led, r.key) /\ Allowed(r.base.hist, r.what)
  BY DEF TypeInv, Request, Commit, Sound
<1>2. r.what = "undo" => r.base.hist # <<>>
  BY <1>1 DEF Allowed
<1>3. doc' = Written(r.base, r.key, r.what)
  BY DEF Commit
<1>4. doc' \in Document /\ Kept(doc')
  BY <1>1, <1>2, <1>3, WrittenType, WrittenKept
<1>5. Snapshot(doc') \in Game
  BY <1>4, SnapshotType
<1>6. Reply(r, "ok", Snapshot(doc'))
  BY DEF Commit
<1>7. tab' \in Page /\ used' \in Counts /\ reqs' \subseteq reqs
  BY <1>5, <1>6, ReplyPage
<1> QED BY <1>3, <1>4, <1>7 DEF TypeInv

LEMMA ElsewhereType ==
  ASSUME TypeInv, Kept(doc), \A e \in doc.led : e.key <= used.keys,
         NEW what \in Whats, Elsewhere(what)
  PROVE  /\ TypeInv' /\ Kept(doc') /\ doc' = Written(doc, used.keys + 1, what)
<1>1. used.keys \in Nat /\ used.keys + 1 \in Nat /\ doc \in Document /\ doc.led \in SUBSET Entry
  BY DEF TypeInv, Counts, Document
<1>2. ~Replays(doc.led, used.keys + 1)
  BY <1>1 DEF Replays, Entry
<1>3. what = "undo" => doc.hist # <<>>
  BY DEF Elsewhere, Allowed
<1>4. doc' = Written(doc, used.keys + 1, what)
  BY DEF Elsewhere
<1>5. doc' \in Document /\ Kept(doc')
  BY <1>1, <1>2, <1>3, <1>4, WrittenType, WrittenKept
<1>6. used' \in Counts
  BY <1>1 DEF Elsewhere, TypeInv, Counts
<1> QED BY <1>4, <1>5, <1>6 DEF TypeInv, Elsewhere

LEMMA SendType ==
  ASSUME TypeInv, NEW key \in Nat, NEW what \in Whats, Send(key, what)
  PROVE  /\ \A r \in reqs' : r \in Request
         /\ used' \in Counts /\ doc' = doc /\ used.reqs + 1 \in Nat
<1> DEFINE new == [id |-> used.reqs + 1, key |-> key, what |-> what, st |-> "sent", base |-> NoOp]
<1>1. used.reqs \in Nat /\ used.keys \in Nat /\ used.breaks \in Nat
  BY DEF TypeInv, Counts
<1>2. new \in Request
  BY <1>1 DEF Request
<1>3. used' \in Counts
  <2>1. (IF key > used.keys THEN key ELSE used.keys) \in Nat /\ used.reqs + 1 \in Nat
    BY <1>1
  <2>2. used' = [used EXCEPT !.reqs = used.reqs + 1, !.keys = IF key > used.keys THEN key ELSE used.keys]
    BY DEF Send, TypeInv, Counts
  <2> QED BY <2>1, <2>2 DEF TypeInv, Counts
<1> QED BY <1>1, <1>2, <1>3 DEF Send, TypeInv

LEMMA OperationFields ==
  ASSUME TypeInv, tab.op # NoOp
  PROVE  tab.op \in [key : Nat \ {0}, what : Whats, req : Nat, tries : Nat, ans : Answers]
BY DEF TypeInv, Page, Operations

LEMMA BeginPage ==
  ASSUME TypeInv, NEW what \in Whats, Begin(what)
  PROVE  \E key \in Nat :
           /\ Send(key, what)
           /\ tab' = [tab EXCEPT
                !.op = [key |-> key, what |-> what, req |-> used.reqs + 1, tries |-> 1, ans |-> NoAnswer],
                !.retry = [key |-> key, fp |-> Fingerprint(what)],
                !.save = "saving",
                !.rc = IF @ = NoFetch THEN @ ELSE [@ EXCEPT !.stale = TRUE]]
           /\ key # 0
           /\ tab' \in Page
<1>1. PICK key \in KeyFor(what) :
        /\ Send(key, what)
        /\ tab' = [tab EXCEPT
             !.op = [key |-> key, what |-> what, req |-> used.reqs + 1, tries |-> 1, ans |-> NoAnswer],
             !.retry = [key |-> key, fp |-> Fingerprint(what)],
             !.save = "saving",
             !.rc = IF @ = NoFetch THEN @ ELSE [@ EXCEPT !.stale = TRUE]]
  BY DEF Begin
<1>2. used.keys \in Nat /\ used.reqs \in Nat /\ tab \in Page
  BY DEF TypeInv, Counts
<1>3. key \in Nat /\ key # 0
  <2>1. tab.retry # NoRetry => tab.retry.key \in Nat /\ tab.retry.key # 0
    BY <1>2 DEF Page, Retries, NoRetry
  <2>2. used.keys + 1 \in Nat /\ used.keys + 1 # 0
    BY <1>2
  <2> QED BY <2>1, <2>2 DEF KeyFor
<1>4. [key |-> key, what |-> what, req |-> used.reqs + 1, tries |-> 1, ans |-> NoAnswer] \in Operations
  BY <1>2, <1>3 DEF Operations, Answers
<1>5. Fingerprint(what) \in [what : Whats, at : Nat]
  <2>1. tab.game.moves \in Seq(Moves)
    BY <1>2 DEF Page, Game
  <2>2. Len(tab.game.moves) \in Nat
    BY <2>1
  <2> QED BY <2>2 DEF Fingerprint
<1>6. [key |-> key, fp |-> Fingerprint(what)] \in Retries
  BY <1>3, <1>5 DEF Retries
<1>7. (IF tab.rc = NoFetch THEN tab.rc ELSE [tab.rc EXCEPT !.stale = TRUE]) \in Fetches
  BY <1>2, FetchMarks DEF Page
<1>8. tab' \in Page
  BY <1>1, <1>2, <1>4, <1>6, <1>7 DEF Page
<1> QED BY <1>1, <1>3, <1>8

LEMMA ResendPage ==
  ASSUME TypeInv, Resend
  PROVE  /\ Send(tab.op.key, tab.op.what) /\ tab.op.key \in Nat /\ tab.op.what \in Whats
         /\ tab'.op.key = tab.op.key /\ tab'.op.req = used.reqs + 1 /\ tab'.op.ans = NoAnswer
         /\ tab' \in Page /\ tab'.op # NoOp
         /\ tab'.game = tab.game /\ tab'.acked = tab.acked /\ tab'.rc = tab.rc
<1>1. tab.op \in [key : Nat \ {0}, what : Whats, req : Nat, tries : Nat, ans : Answers]
  BY OperationFields DEF Resend
<1>2. used.reqs \in Nat /\ tab \in Page
  BY DEF TypeInv, Counts
<1>3. [tab.op EXCEPT !.req = used.reqs + 1, !.tries = tab.op.tries + 1, !.ans = NoAnswer]
        \in [key : Nat \ {0}, what : Whats, req : Nat, tries : Nat, ans : Answers]
  <2>1. tab.op.tries + 1 \in Nat /\ used.reqs + 1 \in Nat /\ NoAnswer \in Answers
    BY <1>1, <1>2 DEF Answers
  <2> QED BY <1>1, <2>1
<1>4. tab' = [tab EXCEPT !.op = [tab.op EXCEPT !.req = used.reqs + 1, !.tries = tab.op.tries + 1,
                                               !.ans = NoAnswer]]
  BY <1>1, <1>2 DEF Resend, Page
<1>5. tab'.op # NoOp
  BY <1>1, <1>2, <1>4 DEF Page, NoOp
<1>6. /\ tab'.op = [tab.op EXCEPT !.req = used.reqs + 1, !.tries = tab.op.tries + 1, !.ans = NoAnswer]
      /\ tab'.game = tab.game /\ tab'.acked = tab.acked /\ tab'.rc = tab.rc
  BY <1>2, <1>4 DEF Page
<1>7. tab'.op.key = tab.op.key /\ tab'.op.req = used.reqs + 1 /\ tab'.op.ans = NoAnswer
  BY <1>1, <1>6
<1>8. [tab.op EXCEPT !.req = used.reqs + 1, !.tries = tab.op.tries + 1, !.ans = NoAnswer] \in Operations
  BY <1>3 DEF Operations
<1>9. tab' \in Page
  BY <1>2, <1>4, <1>8 DEF Page
<1> QED BY <1>1, <1>5, <1>6, <1>7, <1>9 DEF Resend

\* A step of the page by itself that neither confirms nor reads anything: its
\* operation is the same or over, its fetch the same, over or new.
Settles ==
  /\ tab' \in Page
  /\ tab'.acked = tab.acked
  /\ tab'.op \in {tab.op, NoOp}
  /\ \/ tab'.rc \in {tab.rc, NoFetch}
     \/ tab'.rc = Fetch /\ tab'.op = NoOp

\* After a render, nothing but a new fetch.
LEMMA RenderedSettles ==
  ASSUME NEW t \in Page, t.acked = tab.acked, t.op \in {tab.op, NoOp},
         t.rc \in {tab.rc, NoFetch}, tab' = Rendered(t)
  PROVE  Settles /\ tab'.game = t.game
BY RenderedPage DEF Settles, Alike

LEMMA AttemptSettles ==
  ASSUME NEW t \in Page, NEW announce \in BOOLEAN, t.acked = tab.acked, t.op = tab.op,
         t.rc = tab.rc, tab' = Attempt(t, announce)
  PROVE  Settles /\ tab'.game = t.game
BY AttemptPage DEF Settles, Alike

LEMMA FailedSettles ==
  ASSUME TypeInv, tab' = Failed
  PROVE  Settles /\ tab'.game = tab.game
<1> DEFINE t == [tab EXCEPT !.op = NoOp, !.save = "error"]
<1>1. t \in Page /\ t.acked = tab.acked /\ t.op = NoOp /\ t.rc = tab.rc /\ t.game = tab.game
  BY DEF TypeInv, Page, Operations
<1>2. tab' = Rendered(t)
  BY DEF Failed
<1> HIDE DEF t
<1> QED BY <1>1, <1>2, RenderedSettles

LEMMA ShownPage ==
  ASSUME NEW t \in Page, NEW game \in Game
  PROVE  /\ Show(t, game) \in Page /\ Show(t, game).game = game
         /\ Show(t, game).acked = t.acked /\ Show(t, game).op = t.op /\ Show(t, game).rc = t.rc
<1>1. game.moves \in Seq(Moves)
  BY DEF Game
<1>2. (IF t.ready THEN t.board ELSE game.moves) \in Seq(Moves)
  BY <1>1 DEF Page
<1>3. Show(t, game) = [t EXCEPT !.game = game,
        !.board = IF t.ready THEN t.board ELSE game.moves, !.ready = TRUE, !.save = "saved"]
  BY DEF Show, Page
<1> QED BY <1>2, <1>3 DEF Page

LEMMA RestoreSettles ==
  ASSUME TypeInv, RestoreApplied \/ RestoreFailed \/ RetryRestore \/ ReadForRestore
  PROVE  Settles /\ (tab'.game = tab.game \/ RestoreApplied)
<1>0. tab \in Page /\ doc \in Document
  BY DEF TypeInv
<1>1. CASE RestoreApplied
  <2>1. tab.restore.game \in Game
    BY <1>0, <1>1 DEF RestoreApplied, Page, Restores, NoFetch
  <2> DEFINE s == Show(tab, tab.restore.game)
             t == [s EXCEPT !.restore = NoFetch]
  <2>2. s \in Page /\ s.acked = tab.acked /\ s.op = tab.op /\ s.rc = tab.rc
    BY <1>0, <2>1, ShownPage
  <2> HIDE DEF s
  <2>3. t \in Page /\ t.acked = tab.acked /\ t.op = tab.op /\ t.rc = tab.rc
    BY <2>2 DEF Page, Restores
  <2>4. tab' = Rendered(t)
    BY <1>1 DEF RestoreApplied, s
  <2> HIDE DEF t
  <2> QED BY <1>1, <2>3, <2>4, RenderedSettles
<1>2. CASE RestoreFailed
  <2> DEFINE t == [tab EXCEPT !.restore = NoFetch, !.save = "error"]
  <2>1. t \in Page /\ t.acked = tab.acked /\ t.op = tab.op /\ t.rc = tab.rc /\ t.game = tab.game
    BY <1>0 DEF Page, Restores
  <2>2. tab' = Rendered(t)
    BY <1>2 DEF RestoreFailed
  <2> HIDE DEF t
  <2> QED BY <2>1, <2>2, RenderedSettles
<1>3. CASE RetryRestore
  <2>1. [st |-> "asked"] \in Restores
    BY DEF Restores
  <2> QED BY <1>0, <1>3, <2>1 DEF RetryRestore, Settles, Page
<1>4. CASE ReadForRestore
  <2>1. [st |-> "got", game |-> Snapshot(doc)] \in Restores
    BY <1>0, SnapshotType DEF Restores
  <2> QED BY <1>0, <1>4, <2>1 DEF ReadForRestore, Settles, Page
<1> QED BY <1>1, <1>2, <1>3, <1>4

LEMMA ReconnectSettles ==
  ASSUME TypeInv, ReconnectDiscarded \/ ReconnectApplied \/ ReconnectFailed
  PROVE  /\ Settles
         /\ \/ tab'.game = tab.game
            \/ ReconnectApplied /\ tab'.game = tab.rc.game
<1>0. tab \in Page
  BY DEF TypeInv
<1>1. CASE ReconnectDiscarded
  BY <1>0, <1>1, FetchTypes DEF ReconnectDiscarded, Settles, Page
<1>2. CASE ReconnectApplied
  <2>1. tab.rc.game \in Game /\ tab.rc.off \in BOOLEAN
    <3>1. tab.rc \in Fetches /\ tab.rc # NoFetch /\ tab.rc.st = "got"
      BY <1>0, <1>2 DEF ReconnectApplied, Page, NoFetch
    <3> QED BY <3>1, FetchMarks
  <2> DEFINE s == Show(tab, tab.rc.game)
             t == [s EXCEPT !.rc = NoFetch, !.needed = tab.rc.off \/ ~tab.online, !.timer = FALSE,
                            !.tries = 0]
  <2>2. s \in Page /\ s.acked = tab.acked /\ s.op = tab.op /\ s.game = tab.rc.game
    BY <1>0, <2>1, ShownPage
  <2> HIDE DEF s
  <2>3. (tab.rc.off \/ ~tab.online) \in BOOLEAN
    OBVIOUS
  <2>4. /\ t \in Page /\ t.acked = tab.acked /\ t.op = tab.op /\ t.rc = NoFetch
        /\ t.game = tab.rc.game
    BY <2>2, <2>3, FetchTypes DEF Page
  <2>5. tab' = Rendered(t)
    BY <1>2 DEF ReconnectApplied, s
  <2> HIDE DEF t
  <2> QED BY <1>2, <2>4, <2>5, RenderedSettles
<1>3. CASE ReconnectFailed
  <2> DEFINE n == IF tab.tries < RetryLimit THEN tab.tries + 1 ELSE tab.tries
             b == tab.tries < RetryLimit
             t == [tab EXCEPT !.rc = NoFetch, !.needed = TRUE, !.save = "error",
                              !.timer = b, !.tries = n]
  <2>1. n \in Nat
    BY <1>0 DEF Page
  <2>2. b \in BOOLEAN
    OBVIOUS
  <2>3. tab' = Rendered(t)
    BY <1>0, <1>3 DEF ReconnectFailed, Page
  <2> HIDE DEF n, b
  <2>4. /\ t \in Page /\ t.acked = tab.acked /\ t.op = tab.op /\ t.rc = NoFetch
        /\ t.game = tab.game
    BY <1>0, <2>1, <2>2, FetchTypes DEF Page
  <2> HIDE DEF t
  <2> QED BY <2>3, <2>4, RenderedSettles
<1> QED BY <1>1, <1>2, <1>3

LEMMA LoneSettles ==
  ASSUME TypeInv,
         Rejected \/ GiveUp \/ FlagFalls \/ GoOnline \/ TimerFires \/ Reload
  PROVE  Settles /\ tab'.game = tab.game
<1>0. tab \in Page
  BY DEF TypeInv
<1>1. CASE Rejected \/ GiveUp
  BY <1>1, FailedSettles DEF Rejected, GiveUp
<1>2. CASE FlagFalls
  BY <1>0, <1>2 DEF FlagFalls, Settles, Page, Operations
<1>3. CASE GoOnline
  <2> DEFINE t == [tab EXCEPT !.online = TRUE, !.timer = FALSE, !.tries = 0]
  <2>1. t \in Page /\ t.acked = tab.acked /\ t.op = tab.op /\ t.rc = tab.rc /\ t.game = tab.game
    BY <1>0 DEF Page
  <2>2. tab' = Attempt(t, TRUE)
    BY <1>3 DEF GoOnline
  <2> HIDE DEF t
  <2> QED BY <2>1, <2>2, AttemptSettles
<1>4. CASE TimerFires
  <2> DEFINE t == [tab EXCEPT !.timer = FALSE]
  <2>1. t \in Page /\ t.acked = tab.acked /\ t.op = tab.op /\ t.rc = tab.rc /\ t.game = tab.game
    BY <1>0 DEF Page
  <2>2. tab' = Attempt(t, FALSE)
    BY <1>4 DEF TimerFires
  <2> HIDE DEF t
  <2> QED BY <2>1, <2>2, AttemptSettles
<1>5. CASE Reload
  <2>1. /\ NoOp \in Operations /\ NoRetry \in Retries /\ NoFetch \in Fetches
        /\ [st |-> "asked"] \in Restores /\ (~tab.online) \in BOOLEAN
    BY DEF Operations, Retries, Fetches, Restores
  <2> QED BY <1>0, <1>5, <2>1 DEF Reload, Settles, Page
<1> QED BY <1>1, <1>2, <1>3, <1>4, <1>5

-----------------------------------------------------------------------------
(* What the page knows is never ahead of the document, and a fetch that    *)
(* still counts was asked for after the last operation.                    *)

PageInv ==
  /\ tab.acked <= doc.ver
  /\ tab.op # NoOp /\ tab.op.ans.kind = "ok" => tab.op.ans.game.ver <= doc.ver
  /\ tab.rc # NoFetch /\ ~tab.rc.stale => tab.op = NoOp
  /\ tab.rc.st = "got" /\ ~tab.rc.stale => tab.rc.game.ver >= tab.acked

LEMMA SettledPage ==
  ASSUME TypeInv, PageInv, Settles, doc' = doc
  PROVE  PageInv'
<1>1. tab'.acked = tab.acked /\ tab'.acked <= doc'.ver
  BY DEF PageInv, Settles
<1>2. tab'.op # NoOp => tab'.op = tab.op
  BY DEF Settles
<1>3. CASE tab'.rc = Fetch /\ tab'.op = NoOp
  BY <1>1, <1>3, FetchTypes DEF PageInv
<1>4. CASE tab'.rc = NoFetch
  BY <1>1, <1>2, <1>4, FetchTypes DEF PageInv
<1>5. CASE tab'.rc = tab.rc
  <2>1. tab'.rc # NoFetch /\ ~tab'.rc.stale => tab'.op = NoOp
    BY <1>5 DEF PageInv, Settles
  <2> QED BY <1>1, <1>2, <1>5, <2>1 DEF PageInv
<1> QED BY <1>3, <1>4, <1>5 DEF Settles

LEMMA ConfirmedPage ==
  ASSUME TypeInv, PageInv, Confirmed
  PROVE  tab' \in Page /\ PageInv' /\ tab'.game.ver = tab'.acked /\ tab'.op = NoOp
<1>0. tab \in Page /\ doc' = doc
  BY DEF TypeInv, Confirmed
<1>1. tab.op \in [key : Nat \ {0}, what : Whats, req : Nat, tries : Nat, ans : Answers]
  BY OperationFields DEF Confirmed
<1>2. tab.op.ans.game \in Game /\ tab.op.ans.kind = "ok" /\ tab.op.ans.game.ver <= doc.ver
  <2>1. tab.op.ans \in Answers /\ tab.op.ans # NoAnswer /\ tab.op.ans.kind = "ok"
    BY <1>1 DEF Confirmed, NoAnswer
  <2> QED BY <2>1 DEF Answers, PageInv, Confirmed
<1> DEFINE g == tab.op.ans.game
           retry == IF tab.retry.key = tab.op.key THEN NoRetry ELSE tab.retry
           t == [tab EXCEPT !.op = NoOp, !.game = g, !.board = g.moves, !.acked = g.ver,
                            !.save = "saved", !.retry = retry]
<1>3. g \in Game /\ g.moves \in Seq(Moves) /\ g.ver \in Nat /\ g.ver <= doc.ver
  BY <1>2 DEF Game
<1>4. retry \in Retries
  BY <1>0 DEF Page, Retries
<1>5. tab' = Rendered(t)
  BY <1>0 DEF Confirmed, Page
<1> HIDE DEF g, retry
<1>6. t \in Page /\ t.op = NoOp /\ t.game = g /\ t.acked = g.ver /\ t.rc = tab.rc
  BY <1>0, <1>3, <1>4 DEF Page, Operations
<1> HIDE DEF t
<1>7. tab' \in Page /\ Alike(tab', t) /\ (tab'.rc = tab.rc \/ tab'.rc = Fetch)
  BY <1>5, <1>6, RenderedPage
<1>8. tab'.op = NoOp /\ tab'.acked = g.ver /\ tab'.game = g
  BY <1>6, <1>7 DEF Alike
<1>9. tab'.rc.st = "got" /\ ~tab'.rc.stale => tab'.rc.game.ver >= tab'.acked
  <2>1. CASE tab'.rc = Fetch
    BY <2>1, FetchTypes
  <2>2. CASE tab'.rc = tab.rc
    BY <2>2, FetchTypes DEF PageInv, Confirmed
  <2> QED BY <1>7, <2>1, <2>2
<1>10. PageInv'
  BY <1>0, <1>3, <1>8, <1>9 DEF PageInv
<1> QED BY <1>7, <1>8, <1>10

LEMMA OfflinePage ==
  ASSUME TypeInv, PageInv, GoOffline
  PROVE  tab' \in Page /\ PageInv' /\ tab'.game = tab.game /\ tab'.acked = tab.acked /\ tab'.op = tab.op
<1> DEFINE f == IF tab.rc = NoFetch THEN tab.rc ELSE [tab.rc EXCEPT !.off = TRUE]
<1>0. tab \in Page /\ tab.rc \in Fetches /\ doc' = doc
  BY DEF TypeInv, Page, GoOffline
<1>1. /\ f \in Fetches /\ (f # NoFetch => tab.rc # NoFetch /\ f.stale = tab.rc.stale)
      /\ f.st = "got" => tab.rc.st = "got" /\ f.game = tab.rc.game /\ f.stale = tab.rc.stale
  <2>1. CASE tab.rc = NoFetch
    BY <1>0, <2>1, FetchTypes
  <2>2. CASE tab.rc # NoFetch
    BY <1>0, <2>2, FetchMarks
  <2> QED BY <2>1, <2>2
<1>2. tab' = [tab EXCEPT !.online = FALSE, !.timer = FALSE, !.needed = TRUE, !.rc = f]
  BY <1>0 DEF GoOffline, Page
<1> HIDE DEF f
<1>3. /\ tab' \in Page /\ tab'.rc = f /\ tab'.op = tab.op /\ tab'.acked = tab.acked
      /\ tab'.game = tab.game
  BY <1>0, <1>1, <1>2 DEF Page
<1>4. PageInv'
  BY <1>0, <1>1, <1>3 DEF PageInv
<1> QED BY <1>3, <1>4

LEMMA ReadPage ==
  ASSUME TypeInv, PageInv, ReadForReconnect
  PROVE  tab' \in Page /\ PageInv' /\ tab'.game = tab.game /\ tab'.acked = tab.acked /\ tab'.op = tab.op
<1> DEFINE f == [st |-> "got", stale |-> tab.rc.stale, off |-> tab.rc.off, game |-> Snapshot(doc)]
<1>0. tab \in Page /\ tab.rc \in Fetches /\ doc \in Document /\ doc' = doc
  BY DEF TypeInv, Page, ReadForReconnect
<1>1. tab.rc # NoFetch
  BY FetchTypes DEF ReadForReconnect
<1>2. f \in Fetches /\ f.stale = tab.rc.stale /\ f.game.ver = doc.ver
  BY <1>0, <1>1, FetchMarks, SnapshotType DEF Fetches
<1>3. tab' = [tab EXCEPT !.rc = f]
  BY <1>0 DEF ReadForReconnect, Page
<1> HIDE DEF f
<1>4. /\ tab' \in Page /\ tab'.rc = f /\ tab'.op = tab.op /\ tab'.acked = tab.acked
      /\ tab'.game = tab.game
  BY <1>0, <1>2, <1>3 DEF Page
<1>5. doc.ver \in Nat /\ tab.acked \in Nat
  BY <1>0 DEF Document, Page
<1>6. PageInv'
  BY <1>0, <1>1, <1>2, <1>4, <1>5 DEF PageInv
<1> QED BY <1>4, <1>6

-----------------------------------------------------------------------------
(* The inductive invariant.                                                *)

\* Keys and requests are numbered in the order they are made; a request that
\* bears the page's number is one of its operation.
Numbered ==
  /\ \A e \in doc.led : e.key <= used.keys
  /\ \A r \in reqs :
       /\ r.key <= used.keys /\ r.id <= used.reqs
       /\ r.st = "read" => \A e \in r.base.led : e.key <= used.keys
  /\ tab.op # NoOp =>
       /\ tab.op.req <= used.reqs
       /\ \A r \in reqs : r.id = tab.op.req => r.key = tab.op.key

IInv ==
  /\ TypeInv
  /\ Kept(doc)
  /\ \A r \in reqs : Sound(r)
  /\ Numbered
  /\ PageInv

\* The page's operation, if any, is the one it had.
Follows ==
  tab'.op # NoOp => tab.op # NoOp /\ tab'.op.key = tab.op.key /\ tab'.op.req = tab.op.req

LEMMA NumberedFollows ==
  ASSUME Numbered, Follows, reqs' \subseteq reqs, doc' = doc,
         used'.keys = used.keys, used'.reqs = used.reqs
  PROVE  Numbered'
BY DEF Numbered, Follows

\* What an answer does to the page.
LEMMA ReplyEffect ==
  ASSUME TypeInv, PageInv, NEW r, NEW kind \in {"ok", "refused"}, NEW game \in Game,
         Reply(r, kind, game), doc.ver \in Nat, doc'.ver \in Nat, doc'.ver >= doc.ver,
         game.ver <= doc'.ver
  PROVE  Follows /\ PageInv' /\ tab'.game = tab.game /\ tab'.acked = tab.acked
<1>0. tab \in Page
  BY DEF TypeInv
<1>1. tab.acked \in Nat /\ tab.acked <= doc'.ver
  BY <1>0 DEF Page, PageInv
<1>2. CASE tab' = tab
  <2>1. tab.op # NoOp /\ tab.op.ans.kind = "ok" => tab.op.ans.game.ver <= doc'.ver
    <3> SUFFICES ASSUME tab.op # NoOp, tab.op.ans.kind = "ok"
                 PROVE  tab.op.ans.game.ver <= doc'.ver
      OBVIOUS
    <3>1. tab.op.ans \in Answers /\ tab.op.ans # NoAnswer
      BY OperationFields DEF NoAnswer
    <3>2. tab.op.ans.game.ver \in Nat
      BY <3>1 DEF Answers, Game
    <3> QED BY <3>2 DEF PageInv
  <2> QED BY <1>1, <1>2, <2>1 DEF PageInv, Follows
<1>3. CASE /\ tab.op.key # 0
           /\ tab' = [tab EXCEPT !.op.ans = [kind |-> kind, game |-> game]]
  <2>1. tab.op \in [key : Nat \ {0}, what : Whats, req : Nat, tries : Nat, ans : Answers] /\ tab.op # NoOp
    BY <1>3, OperationFields DEF NoOp
  <2>2. /\ tab'.op = [tab.op EXCEPT !.ans = [kind |-> kind, game |-> game]]
        /\ tab'.acked = tab.acked /\ tab'.game = tab.game /\ tab'.rc = tab.rc
    BY <1>0, <1>3 DEF Page
  <2>3. tab'.op.ans.game = game /\ tab'.op.key = tab.op.key /\ tab'.op.req = tab.op.req
    BY <2>1, <2>2
  <2>4. tab'.rc # NoFetch /\ ~tab'.rc.stale => tab'.op = NoOp
    BY <2>1, <2>2 DEF PageInv
  <2>5. tab'.rc.st = "got" /\ ~tab'.rc.stale => tab'.rc.game.ver >= tab'.acked
    BY <2>2 DEF PageInv
  <2> QED BY <1>1, <2>1, <2>2, <2>3, <2>4, <2>5 DEF PageInv, Follows
<1> QED BY <1>2, <1>3 DEF Reply

LEMMA AnswerStep ==
  ASSUME IInv, NEW r \in reqs, ReplayAnswer(r) \/ Refuse(r) \/ Recheck(r)
  PROVE  IInv' /\ tab'.game = tab.game /\ tab'.acked = tab.acked
<1>1. PICK kind \in {"ok", "refused"} : Reply(r, kind, Snapshot(doc)) /\ UNCHANGED doc
  BY DEF ReplayAnswer, Refuse, Recheck
<1>2. TypeInv'
  BY ServerType DEF IInv
<1>3. doc \in Document /\ Snapshot(doc) \in Game /\ Snapshot(doc).ver = doc.ver /\ doc.ver \in Nat
  BY SnapshotType DEF IInv, TypeInv
<1>4. doc'.ver \in Nat /\ doc'.ver >= doc.ver /\ Snapshot(doc).ver <= doc'.ver
  BY <1>1, <1>3
<1>5. Follows /\ PageInv' /\ tab'.game = tab.game /\ tab'.acked = tab.acked
  BY <1>1, <1>3, <1>4, ReplyEffect DEF IInv
<1>6. reqs' \subseteq reqs /\ doc' = doc /\ used' = used
  BY <1>1 DEF Reply
<1>7. Numbered'
  BY <1>5, <1>6, NumberedFollows DEF IInv
<1> QED BY <1>2, <1>5, <1>6, <1>7 DEF IInv

LEMMA LoadStep ==
  ASSUME IInv, NEW r \in reqs, Load(r) \/ Miss(r)
  PROVE  IInv' /\ tab' = tab
<1>0. r \in Request /\ tab' = tab /\ doc' = doc /\ used' = used
  BY DEF IInv, TypeInv, Load, Miss
<1>1. TypeInv'
  BY ServerType DEF IInv
<1>2. PICK q : /\ reqs' = (reqs \ {r}) \cup {q}
               /\ q.key = r.key /\ q.id = r.id /\ Sound(q)
               /\ q.st = "read" => \A e \in q.base.led : e.key <= used.keys
  <2>1. CASE Load(r)
    <3> DEFINE q == [r EXCEPT !.st = "read", !.base = doc]
    <3>1. q.key = r.key /\ q.id = r.id /\ q.what = r.what /\ q.base = doc
      BY <1>0 DEF Request
    <3>2. ~Replays(doc.led, r.key) /\ Allowed(doc.hist, r.what)
      BY <2>1 DEF Load
    <3>3. Kept(doc) /\ doc \in Document /\ \A e \in doc.led : e.key <= used.keys
      BY DEF IInv, TypeInv, Numbered
    <3>4. reqs' = (reqs \ {r}) \cup {q}
      BY <2>1 DEF Load
    <3> HIDE DEF q
    <3>5. Sound(q)
      BY <3>1, <3>2, <3>3 DEF Sound
    <3> QED BY <3>1, <3>3, <3>4, <3>5
  <2>2. CASE Miss(r)
    <3> DEFINE q == [r EXCEPT !.st = "missed"]
    <3>1. q.key = r.key /\ q.id = r.id /\ q.st = "missed"
      BY <1>0 DEF Request
    <3>2. reqs' = (reqs \ {r}) \cup {q}
      BY <2>2 DEF Miss
    <3> HIDE DEF q
    <3> QED BY <3>1, <3>2 DEF Sound
  <2> QED BY <2>1, <2>2
<1>3. \A p \in reqs' : Sound(p)
  BY <1>2 DEF IInv
<1>4. Numbered'
  BY <1>0, <1>2 DEF IInv, Numbered
<1>5. PageInv'
  BY <1>0 DEF IInv, PageInv
<1>6. \A p \in reqs' : Sound(p)'
  BY <1>3 DEF Sound
<1> QED BY <1>0, <1>1, <1>4, <1>5, <1>6 DEF IInv, Kept

LEMMA WrittenKeys ==
  ASSUME NEW b \in Document, NEW key \in Nat, NEW what, NEW bound \in Nat,
         key <= bound, \A e \in b.led : e.key <= bound
  PROVE  /\ \A e \in Written(b, key, what).led : e.key <= bound
         /\ Written(b, key, what).ver = doc.ver + 1
BY DEF Written, Remember

LEMMA CommitStep ==
  ASSUME IInv, NEW r \in reqs, Commit(r)
  PROVE  IInv' /\ tab'.game = tab.game /\ tab'.acked = tab.acked
<1>0. /\ r \in Request /\ r.st = "read" /\ r.base \in Document /\ Sound(r)
      /\ used.keys \in Nat /\ r.key \in Nat /\ r.key <= used.keys
      /\ \A e \in r.base.led : e.key <= used.keys
  <2>1. r \in Request /\ r.st = "read" /\ Sound(r) /\ used \in Counts
    BY DEF IInv, TypeInv, Commit
  <2> QED BY <2>1 DEF IInv, Numbered, Sound, Request, Counts
<1>1. TypeInv' /\ doc' = Written(r.base, r.key, r.what) /\ Kept(doc')
  BY <1>0, CommitType DEF IInv
<1>2. \A e \in doc'.led : e.key <= used.keys
  BY <1>0, <1>1, WrittenKeys
<1>3. doc.ver \in Nat /\ doc'.ver = doc.ver + 1 /\ doc' \in Document
  BY <1>0, <1>1, WrittenKeys DEF IInv, TypeInv, Document
<1>4. Snapshot(doc') \in Game /\ Snapshot(doc').ver = doc'.ver /\ doc'.ver \in Nat
  BY <1>3, SnapshotType
<1>5. Reply(r, "ok", Snapshot(doc')) /\ used' = used /\ reqs' \subseteq reqs
  BY DEF Commit, Reply
<1>6. Follows /\ PageInv' /\ tab'.game = tab.game /\ tab'.acked = tab.acked
  BY <1>3, <1>4, <1>5, ReplyEffect DEF IInv
<1>7. Numbered'
  BY <1>2, <1>5, <1>6 DEF IInv, Numbered, Follows
<1>8. \A p \in reqs' : Sound(p)'
  BY <1>5 DEF IInv, Sound
<1> QED BY <1>1, <1>6, <1>7, <1>8 DEF IInv, Kept

LEMMA ElsewhereStep ==
  ASSUME IInv, NEW what \in Whats, Elsewhere(what)
  PROVE  IInv' /\ tab' = tab
<1>0. /\ doc \in Document /\ Kept(doc) /\ used.keys \in Nat /\ used.reqs \in Nat
      /\ \A e \in doc.led : e.key <= used.keys
  BY DEF IInv, TypeInv, Numbered, Counts
<1>1. TypeInv' /\ Kept(doc') /\ doc' = Written(doc, used.keys + 1, what)
  BY <1>0, ElsewhereType DEF IInv
<1>2. tab' = tab /\ reqs' = reqs /\ used'.keys = used.keys + 1 /\ used'.reqs = used.reqs
  BY DEF Elsewhere, IInv, TypeInv, Counts
\* A bound on the keys is a bound one higher up.
<1>3. ASSUME NEW d \in Document, \A e \in d.led : e.key <= used.keys
      PROVE  \A e \in d.led : e.key <= used.keys + 1
  <2>1. \A e \in d.led : e.key \in Nat
    BY DEF Document, Entry
  <2> QED BY <1>0, <1>3, <2>1
<1>4. /\ \A e \in doc'.led : e.key <= used.keys + 1
      /\ doc'.ver = doc.ver + 1
  <2>1. used.keys + 1 \in Nat /\ used.keys + 1 <= used.keys + 1
    BY <1>0
  <2>2. \A e \in doc.led : e.key <= used.keys + 1
    BY <1>0, <1>3
  <2> QED BY <1>0, <1>1, <2>1, <2>2, WrittenKeys
<1>5. Numbered'
  <2>1. ASSUME NEW r \in reqs
        PROVE  /\ r.key <= used.keys + 1 /\ r.id <= used.reqs
               /\ r.st = "read" => \A e \in r.base.led : e.key <= used.keys + 1
    <3>1. r \in Request /\ Sound(r) /\ r.key <= used.keys /\ r.id <= used.reqs
      BY DEF IInv, TypeInv, Numbered
    <3>2. r.key \in Nat /\ r.key <= used.keys + 1
      BY <1>0, <3>1 DEF Request
    <3>3. r.st = "read" => r.base \in Document /\ \A e \in r.base.led : e.key <= used.keys
      BY <3>1 DEF Sound, IInv, Numbered
    <3> QED BY <1>3, <3>1, <3>2, <3>3
  <2> QED BY <1>2, <1>4, <2>1 DEF IInv, Numbered
<1>6. PageInv'
  <2>1. doc.ver \in Nat /\ tab.acked \in Nat
    BY DEF IInv, TypeInv, Document, Page
  <2>2. tab.op # NoOp /\ tab.op.ans.kind = "ok" => tab.op.ans.game.ver \in Nat
    <3> SUFFICES ASSUME tab.op # NoOp, tab.op.ans.kind = "ok" PROVE tab.op.ans.game.ver \in Nat
      OBVIOUS
    <3>1. tab.op.ans \in Answers /\ tab.op.ans # NoAnswer
      BY OperationFields DEF IInv, NoAnswer
    <3> QED BY <3>1 DEF Answers, Game
  <2> QED BY <1>2, <1>4, <2>1, <2>2 DEF IInv, PageInv
<1>7. \A r \in reqs' : Sound(r)'
  BY <1>2 DEF IInv, Sound
<1> QED BY <1>1, <1>2, <1>5, <1>6, <1>7 DEF IInv, Kept

\* A new POST, whose number the page's operation bears from now on.
LEMMA SendStep ==
  ASSUME IInv, NEW key \in Nat, NEW what \in Whats, Send(key, what), tab' \in Page,
         tab'.op.key = key, tab'.op.req = used.reqs + 1, PageInv'
  PROVE  IInv'
<1> DEFINE new == [id |-> used.reqs + 1, key |-> key, what |-> what, st |-> "sent", base |-> NoOp]
<1>0. used.keys \in Nat /\ used.reqs \in Nat /\ doc' = doc /\ doc \in Document
  BY DEF IInv, TypeInv, Counts, Send
<1>1. TypeInv'
  BY <1>0, SendType DEF IInv, TypeInv
<1>2. reqs' = reqs \cup {new}
  BY DEF Send
<1>3. /\ used'.reqs = used.reqs + 1 /\ used'.keys \in Nat
      /\ key <= used'.keys /\ used.keys <= used'.keys
  <2>1. /\ used'.reqs = used.reqs + 1
        /\ used'.keys = IF key > used.keys THEN key ELSE used.keys
    BY DEF Send, IInv, TypeInv, Counts
  <2> QED BY <1>0, <2>1
<1>4. ASSUME NEW d \in Document, \A e \in d.led : e.key <= used.keys
      PROVE  \A e \in d.led : e.key <= used'.keys
  <2>1. \A e \in d.led : e.key \in Nat
    BY DEF Document, Entry
  <2> QED BY <1>0, <1>3, <1>4, <2>1
<1>5. ASSUME NEW r \in reqs
      PROVE  /\ r.key <= used'.keys /\ r.id <= used.reqs /\ r.id \in Nat
             /\ r.st = "read" => \A e \in r.base.led : e.key <= used'.keys
  <2>1. r \in Request /\ Sound(r) /\ r.key <= used.keys /\ r.id <= used.reqs
    BY DEF IInv, TypeInv, Numbered
  <2>2. r.key \in Nat /\ r.key <= used'.keys /\ r.id \in Nat
    BY <1>0, <1>3, <2>1 DEF Request
  <2>3. r.st = "read" => r.base \in Document /\ \A e \in r.base.led : e.key <= used.keys
    BY <2>1 DEF Sound, IInv, Numbered
  <2> QED BY <1>4, <2>1, <2>2, <2>3
<1>6. new.id = used.reqs + 1 /\ new.key = key /\ new.st = "sent"
  OBVIOUS
<1> HIDE DEF new
<1>7. \A e \in doc'.led : e.key <= used'.keys
  BY <1>0, <1>4 DEF IInv, Numbered
<1>8. \A r \in reqs' :
        /\ r.key <= used'.keys /\ r.id <= used'.reqs
        /\ r.st = "read" => \A e \in r.base.led : e.key <= used'.keys
  BY <1>0, <1>2, <1>3, <1>5, <1>6
<1>9. \A r \in reqs' : r.id = tab'.op.req => r.key = tab'.op.key
  BY <1>0, <1>2, <1>5, <1>6
<1>10. Numbered'
  BY <1>0, <1>3, <1>7, <1>8, <1>9 DEF Numbered
<1>11. \A r \in reqs' : Sound(r)'
  BY <1>2, <1>6 DEF IInv, Sound
<1> QED BY <1>0, <1>1, <1>10, <1>11 DEF IInv, Kept

LEMMA BeginStep ==
  ASSUME IInv, NEW what \in Whats, Begin(what)
  PROVE  IInv' /\ tab'.game = tab.game /\ tab'.acked = tab.acked /\ tab'.op.ans = NoAnswer
<1>1. PICK key \in Nat :
        /\ Send(key, what)
        /\ tab' = [tab EXCEPT
             !.op = [key |-> key, what |-> what, req |-> used.reqs + 1, tries |-> 1, ans |-> NoAnswer],
             !.retry = [key |-> key, fp |-> Fingerprint(what)],
             !.save = "saving",
             !.rc = IF @ = NoFetch THEN @ ELSE [@ EXCEPT !.stale = TRUE]]
        /\ tab' \in Page
  BY BeginPage DEF IInv
<1>2. tab \in Page /\ tab.rc \in Fetches /\ doc' = doc
  BY <1>1 DEF IInv, TypeInv, Page, Send
<1>3. /\ tab'.op = [key |-> key, what |-> what, req |-> used.reqs + 1, tries |-> 1, ans |-> NoAnswer]
      /\ tab'.rc = IF tab.rc = NoFetch THEN tab.rc ELSE [tab.rc EXCEPT !.stale = TRUE]
      /\ tab'.game = tab.game /\ tab'.acked = tab.acked
  BY <1>1, <1>2 DEF Page
<1>4. tab'.op.key = key /\ tab'.op.req = used.reqs + 1 /\ tab'.op.ans = NoAnswer
  BY <1>3
<1>5. tab'.rc = NoFetch \/ tab'.rc.stale
  BY <1>2, <1>3, FetchMarks
<1>6. PageInv'
  <2>1. tab'.op.ans.kind # "ok"
    BY <1>4 DEF NoAnswer
  <2>2. tab'.rc.st = "got" => tab'.rc.stale
    BY <1>5, FetchTypes
  <2> QED BY <1>2, <1>3, <1>5, <2>1, <2>2 DEF IInv, PageInv
<1> QED BY <1>1, <1>3, <1>4, <1>6, SendStep

LEMMA ResendStep ==
  ASSUME IInv, Resend
  PROVE  IInv' /\ tab'.game = tab.game /\ tab'.acked = tab.acked /\ tab'.op.ans = NoAnswer
<1>1. /\ Send(tab.op.key, tab.op.what) /\ tab.op.key \in Nat /\ tab.op.what \in Whats
      /\ tab'.op.key = tab.op.key /\ tab'.op.req = used.reqs + 1 /\ tab'.op.ans = NoAnswer
      /\ tab' \in Page /\ tab'.op # NoOp
      /\ tab'.game = tab.game /\ tab'.acked = tab.acked /\ tab'.rc = tab.rc
  BY ResendPage DEF IInv
<1>2. doc' = doc /\ tab.op # NoOp
  BY <1>1 DEF Send, Resend
<1>3. PageInv'
  <2>1. tab'.op.ans.kind # "ok"
    BY <1>1 DEF NoAnswer
  <2> QED BY <1>1, <1>2, <2>1 DEF IInv, PageInv
<1> QED BY <1>1, <1>3, SendStep

\* The page by itself.
LEMMA PageStep ==
  ASSUME IInv, tab' \in Page, PageInv', used' \in Counts, doc' = doc, reqs' = reqs,
         tab'.op \in {tab.op, NoOp}, used'.keys = used.keys, used'.reqs = used.reqs
  PROVE  IInv'
<1>1. TypeInv'
  BY DEF IInv, TypeInv
<1>2. Numbered'
  BY NumberedFollows DEF IInv, Follows
<1>3. \A r \in reqs' : Sound(r)'
  BY DEF IInv, Sound
<1> QED BY <1>1, <1>2, <1>3 DEF IInv, Kept

-----------------------------------------------------------------------------
(* What one step may do.                                                   *)

OneTurn ==
  LET old == MovesOf(doc.hist)
      new == MovesOf(doc'.hist)
  IN \/ new = old
     \/ \E m \in LegalMoves(Len(old)) : new = Append(old, m)
     \/ old # <<>> /\ new = SubSeq(old, 1, Len(old) - 1)

Honest ==
  AnsweredNo =>
    \A i \in DOMAIN doc.hist : doc.hist[i].key = tab.op.key => doc.n - doc.hist[i].n >= MaxLedger

Keeps == tab.game.ver >= tab.acked /\ ~RestoreApplied => tab'.game.ver >= tab'.acked

LEMMA WrittenTurn ==
  ASSUME NEW b \in Document, NEW key, NEW what \in Whats, key \in Nat, Allowed(b.hist, what),
         doc \in Document, MovesOf(doc.hist) = MovesOf(b.hist), doc' = Written(b, key, what)
  PROVE  OneTurn
<1>1. b.hist \in Seq(Turn) /\ b.n \in Nat
  BY DEF Document
<1>2. Len(MovesOf(b.hist)) = Len(b.hist)
  BY <1>1, MovesOfType
<1>3. CASE what = "undo"
  <2>1. b.hist # <<>> /\ doc'.hist = SubSeq(b.hist, 1, Len(b.hist) - 1)
    BY <1>3 DEF Allowed, Written
  <2> QED BY <1>1, <2>1, MovesOfPrefix DEF OneTurn
<1>4. CASE what # "undo"
  <2> DEFINE t == [move |-> what, key |-> key, n |-> b.n + 1]
  <2>1. t \in Turn /\ t.move = what
    BY <1>1, <1>4 DEF Turn, Whats
  <2>2. doc'.hist = Append(b.hist, t) /\ what \in LegalMoves(Len(b.hist))
    BY <1>4 DEF Written, Allowed
  <2> HIDE DEF t
  <2>3. MovesOf(doc'.hist) = Append(MovesOf(b.hist), what)
    BY <1>1, <2>1, <2>2, MovesOfAppend
  <2> QED BY <1>2, <2>2, <2>3 DEF OneTurn
<1> QED BY <1>3, <1>4

\* An operation outside the ledger has no recent turn.
LEMMA RefusedIsHonest ==
  ASSUME IInv, NEW r \in reqs, ReplayAnswer(r) \/ Refuse(r) \/ Recheck(r)
  PROVE  Honest
<1> SUFFICES ASSUME AnsweredNo, NEW i \in DOMAIN doc.hist, doc.hist[i].key = tab.op.key
             PROVE  doc.n - doc.hist[i].n >= MaxLedger
  BY DEF Honest
<1>0. tab \in Page /\ doc \in Document /\ doc.hist \in Seq(Turn) /\ doc.n \in Nat
  BY DEF IInv, TypeInv, Document
<1>1. /\ tab.op \in [key : Nat \ {0}, what : Whats, req : Nat, tries : Nat, ans : Answers]
      /\ tab.op # NoOp /\ tab.op.ans.kind = "none"
  BY OperationFields DEF IInv, AnsweredNo, NoAnswer
<1>2. PICK kind \in {"ok", "refused"} :
        /\ Reply(r, kind, Snapshot(doc))
        /\ kind = "refused" => ~Replays(doc.led, r.key)
  BY DEF ReplayAnswer, Refuse, Recheck
<1>3. tab' # tab
  BY <1>1 DEF AnsweredNo
<1>4. tab.op.req = r.id /\ tab' = [tab EXCEPT !.op.ans = [kind |-> kind, game |-> Snapshot(doc)]]
  BY <1>2, <1>3 DEF Reply
<1>5. tab'.op = [tab.op EXCEPT !.ans = [kind |-> kind, game |-> Snapshot(doc)]]
  BY <1>0, <1>4 DEF Page
<1>6. kind = "refused"
  BY <1>1, <1>5 DEF AnsweredNo
<1>7. r.key = tab.op.key
  BY <1>1, <1>4 DEF IInv, Numbered
<1>8. ~(doc.hist[i].n > doc.n - MaxLedger)
  BY <1>2, <1>6, <1>7 DEF IInv, Kept, Covered, Replays
<1>9. doc.hist[i].n \in Nat
  <2>1. doc.hist[i] \in Turn
    BY <1>0, ElementOfSeq
  <2> QED BY <2>1 DEF Turn
<1> QED BY <1>0, <1>8, <1>9, LedgerAssumption

\* A step that gives the page no answer refuses nothing.
LEMMA SilentIsHonest ==
  ASSUME tab'.op \in {tab.op, NoOp} \/ tab'.op.ans = NoAnswer
  PROVE  Honest
BY DEF Honest, AnsweredNo, NoAnswer

LEMMA StillKeeps ==
  ASSUME tab'.game = tab.game, tab'.acked = tab.acked
  PROVE  Keeps
BY DEF Keeps

LEMMA ServerStep ==
  ASSUME IInv, NEW r \in reqs,
         ReplayAnswer(r) \/ Refuse(r) \/ Load(r) \/ Commit(r) \/ Miss(r) \/ Recheck(r)
  PROVE  IInv' /\ OneTurn /\ Honest /\ Keeps
<1>1. CASE ReplayAnswer(r) \/ Refuse(r) \/ Recheck(r)
  <2>1. doc' = doc
    BY <1>1 DEF ReplayAnswer, Refuse, Recheck
  <2> QED BY <1>1, <2>1, AnswerStep, RefusedIsHonest, StillKeeps DEF OneTurn
<1>2. CASE Load(r) \/ Miss(r)
  <2>1. doc' = doc
    BY <1>2 DEF Load, Miss
  <2> QED BY <1>2, <2>1, LoadStep, SilentIsHonest, StillKeeps DEF OneTurn
<1>3. CASE Commit(r)
  <2>1. /\ r \in Request /\ r.base \in Document /\ Allowed(r.base.hist, r.what)
        /\ MovesOf(doc.hist) = MovesOf(r.base.hist) /\ doc' = Written(r.base, r.key, r.what)
        /\ doc \in Document
    BY <1>3 DEF IInv, TypeInv, Commit, Sound, SameMoves
  <2>2. OneTurn
    BY <2>1, WrittenTurn DEF Request
  <2>3. Honest
    <3>1. CASE tab' = tab
      BY <3>1, SilentIsHonest
    <3>2. CASE /\ tab.op.key # 0
               /\ tab' = [tab EXCEPT !.op.ans = [kind |-> "ok", game |-> Snapshot(doc')]]
      <4>1. tab \in Page /\ tab.op \in [key : Nat \ {0}, what : Whats, req : Nat, tries : Nat, ans : Answers]
        BY <3>2, OperationFields DEF IInv, TypeInv, NoOp
      <4>2. tab'.op = [tab.op EXCEPT !.ans = [kind |-> "ok", game |-> Snapshot(doc')]]
        BY <3>2, <4>1 DEF Page
      <4>3. tab'.op.ans.kind = "ok"
        BY <4>1, <4>2
      <4> QED BY <4>3 DEF Honest, AnsweredNo
    <3> QED BY <1>3, <3>1, <3>2 DEF Commit, Reply
  <2> QED BY <1>3, <2>2, <2>3, CommitStep, StillKeeps
<1> QED BY <1>1, <1>2, <1>3

LEMMA ReconnectKeeps ==
  ASSUME IInv, ReconnectDiscarded \/ ReconnectApplied \/ ReconnectFailed
  PROVE  Keeps
<1>1. CASE tab'.game = tab.game
  BY <1>1, ReconnectSettles DEF IInv, Settles, Keeps
<1>2. CASE ReconnectApplied /\ tab'.game = tab.rc.game
  <2>1. tab.rc.game.ver >= tab.acked
    BY <1>2 DEF ReconnectApplied, AuthorityLost, IInv, PageInv
  <2> QED BY <1>2, <2>1, ReconnectSettles DEF IInv, Settles, Keeps
<1> QED BY <1>1, <1>2, ReconnectSettles DEF IInv

LEMMA Step ==
  ASSUME IInv, [GameNext]_gameVars
  PROVE  IInv' /\ OneTurn /\ Honest /\ Keeps
<1>0. used \in Counts /\ TypeInv /\ PageInv
  BY DEF IInv, TypeInv
<1>1. CASE Server
  BY <1>1, ServerStep DEF Server
<1>2. CASE \E what \in Moves \cup {"undo"} : Elsewhere(what)
  <2>1. PICK what \in Whats : Elsewhere(what)
    BY <1>2 DEF Whats
  <2>2. doc \in Document /\ Allowed(doc.hist, what) /\ doc' = Written(doc, used.keys + 1, what)
    BY <2>1 DEF Elsewhere, IInv, TypeInv
  <2>3. OneTurn
    BY <1>0, <2>2, WrittenTurn DEF Counts
  <2> QED BY <2>1, <2>3, ElsewhereStep, SilentIsHonest, StillKeeps
<1>3. CASE Mutation
  <2>1. PICK what \in Whats : Begin(what)
    BY <1>3 DEF Mutation, PlayMove, HandleUndo, Whats
  <2>2. doc' = doc
    BY <2>1 DEF Begin, Send
  <2> QED BY <2>1, <2>2, BeginStep, SilentIsHonest, StillKeeps DEF OneTurn
<1>4. CASE Resend
  <2>1. doc' = doc
    BY <1>4 DEF Resend, Send
  <2> QED BY <1>4, <2>1, ResendStep, SilentIsHonest, StillKeeps DEF OneTurn
<1>5. CASE Confirmed
  <2>1. doc' = doc /\ reqs' = reqs /\ used' = used
    BY <1>5 DEF Confirmed
  <2>2. tab' \in Page /\ PageInv' /\ tab'.game.ver = tab'.acked /\ tab'.op = NoOp
    BY <1>0, <1>5, ConfirmedPage
  <2>3. IInv'
    BY <1>0, <2>1, <2>2, PageStep
  <2>4. Keeps
    <3>1. tab'.acked \in Nat
      BY <2>2 DEF Page
    <3> QED BY <2>2, <3>1 DEF Keeps
  <2> QED BY <2>1, <2>2, <2>3, <2>4, SilentIsHonest DEF OneTurn
<1>6. CASE GoOffline \/ ReadForReconnect
  <2>1. /\ doc' = doc /\ reqs' = reqs /\ used' \in Counts
        /\ used'.keys = used.keys /\ used'.reqs = used.reqs
    BY <1>0, <1>6 DEF GoOffline, ReadForReconnect, Counts
  <2>2. tab' \in Page /\ PageInv' /\ tab'.game = tab.game /\ tab'.acked = tab.acked /\ tab'.op = tab.op
    BY <1>0, <1>6, OfflinePage, ReadPage
  <2>3. IInv'
    BY <2>1, <2>2, PageStep
  <2> QED BY <2>1, <2>2, <2>3, SilentIsHonest, StillKeeps DEF OneTurn
<1>7. CASE \/ Rejected \/ GiveUp \/ FlagFalls \/ GoOnline \/ TimerFires \/ Reload
           \/ ReconnectDiscarded \/ ReconnectApplied \/ ReconnectFailed
           \/ RestoreApplied \/ RestoreFailed \/ RetryRestore \/ ReadForRestore
  <2>1. /\ doc' = doc /\ reqs' = reqs /\ used' \in Counts
        /\ used'.keys = used.keys /\ used'.reqs = used.reqs
    <3>1. CASE Reload
      <4>1. used' = [used EXCEPT !.breaks = @ + 1] /\ doc' = doc /\ reqs' = reqs
        BY <3>1 DEF Reload
      <4> QED BY <1>0, <4>1 DEF Counts
    <3>2. CASE Rejected \/ GiveUp \/ FlagFalls \/ GoOnline \/ TimerFires
      BY <1>0, <3>2 DEF Rejected, GiveUp, FlagFalls, GoOnline, TimerFires
    <3>3. CASE ReconnectDiscarded \/ ReconnectApplied \/ ReconnectFailed
      BY <1>0, <3>3 DEF ReconnectDiscarded, ReconnectApplied, ReconnectFailed
    <3>4. CASE RestoreApplied \/ RestoreFailed \/ RetryRestore \/ ReadForRestore
      BY <1>0, <3>4 DEF RestoreApplied, RestoreFailed, RetryRestore, ReadForRestore
    <3> QED BY <1>7, <3>1, <3>2, <3>3, <3>4
  <2>2. Settles
    BY <1>0, <1>7, LoneSettles, ReconnectSettles, RestoreSettles
  <2>3. IInv'
    BY <1>0, <2>1, <2>2, SettledPage, PageStep DEF Settles
  <2>4. Keeps
    <3>1. CASE ReconnectDiscarded \/ ReconnectApplied \/ ReconnectFailed
      BY <3>1, ReconnectKeeps
    <3>2. CASE RestoreApplied \/ RestoreFailed \/ RetryRestore \/ ReadForRestore
      BY <1>0, <2>2, <3>2, RestoreSettles DEF Keeps, Settles
    <3>3. CASE Rejected \/ GiveUp \/ FlagFalls \/ GoOnline \/ TimerFires \/ Reload
      BY <1>0, <2>2, <3>3, LoneSettles DEF Keeps, Settles
    <3> QED BY <1>7, <3>1, <3>2, <3>3
  <2> QED BY <2>1, <2>2, <2>3, <2>4, SilentIsHonest DEF OneTurn, Settles
<1>8. CASE UNCHANGED gameVars
  <2>1. doc' = doc /\ reqs' = reqs /\ tab' = tab /\ used' = used
    BY <1>8 DEF gameVars
  <2>2. tab' \in Page /\ PageInv'
    BY <1>0, <2>1 DEF TypeInv, PageInv
  <2>3. IInv'
    BY <1>0, <2>1, <2>2, PageStep
  <2> QED BY <2>1, <2>3, SilentIsHonest, StillKeeps DEF OneTurn
<1> QED BY <1>1, <1>2, <1>3, <1>4, <1>5, <1>6, <1>7, <1>8
        DEF GameNext, Outcome, Connection, Reconciliation, Restoration

LEMMA InitIInv == GameInit => IInv
<1> SUFFICES ASSUME GameInit PROVE IInv
  OBVIOUS
<1>1. TypeInv
  BY InitType
<1>2. doc.hist = <<>> /\ doc.led = {} /\ reqs = {} /\ tab.op = NoOp /\ tab.rc = NoFetch
  BY DEF GameInit
<1>3. Kept(doc)
  BY <1>2 DEF Kept, Covered, Apart
<1>4. tab.acked = 0 /\ doc.ver = 0
  BY DEF GameInit
<1> QED BY <1>1, <1>2, <1>3, <1>4, FetchTypes DEF IInv, Numbered, PageInv

-----------------------------------------------------------------------------
LEMMA Invariance == GameSpec => []IInv
<1>1. IInv /\ [GameNext]_gameVars => IInv'
  BY Step
<1> QED BY <1>1, InitIInv, PTL DEF GameSpec

\* However often an operation is sent, and whenever its attempts run, it has
\* one turn within the reach of the ledger (gameops.Replay and Remember).
THEOREM MoveIsPlayedOnce == GameSpec => []NoMoveTwice
<1>1. IInv => NoMoveTwice
  BY DEF IInv, Kept, Apart, NoMoveTwice
<1> QED BY <1>1, Invariance, PTL

\* The swap on the list of moves lets no write drop another client's turn.
THEOREM TurnsAreKept == GameSpec => NoLostTurn
<1>1. IInv /\ [GameNext]_gameVars =>
        [LET old == MovesOf(doc.hist)
             new == MovesOf(doc'.hist)
         IN \/ new = old
            \/ \E m \in LegalMoves(Len(old)) : new = Append(old, m)
            \/ old # <<>> /\ new = SubSeq(old, 1, Len(old) - 1)]_gameVars
  BY Step DEF OneTurn
<1> QED BY <1>1, Invariance, PTL DEF GameSpec, NoLostTurn

\* A page that is told no has not been played for, up to the ledger's reach.
THEOREM RefusalsAreHonest == GameSpec => RefusalIsHonest
<1>1. IInv /\ [GameNext]_gameVars =>
        [AnsweredNo =>
           \A i \in DOMAIN doc.hist :
             doc.hist[i].key = tab.op.key => doc.n - doc.hist[i].n >= MaxLedger]_gameVars
  BY Step DEF Honest
<1> QED BY <1>1, Invariance, PTL DEF GameSpec, RefusalIsHonest

\* No reconciliation asked for before a confirmed operation undoes it on the
\* page, whatever the order of answers and renders.
THEOREM ConfirmedIsKept == GameSpec => KeepsConfirmed
<1>1. IInv /\ [GameNext]_gameVars =>
        [tab.game.ver >= tab.acked /\ ~RestoreApplied => tab'.game.ver >= tab'.acked]_gameVars
  BY Step DEF Keeps
<1> QED BY <1>1, Invariance, PTL DEF GameSpec, KeepsConfirmed
=============================================================================
