---------------------------- MODULE PvpPlayerProofs ----------------------------
(***************************************************************************)
(* What a player's page keeps through any number of duels, requests and     *)
(* moves, whatever order the answers come in.                               *)
(***************************************************************************)
EXTENDS PvpPlayer, TLAPS

Statuses == {"starting", "active", "finished", "cancelled"}
Row == [rev : Nat, status : Statuses, you : BOOLEAN, rival : BOOLEAN]

\* Everything below is about a set D of known duels.
MatchIn(D) == [d : D, rev : Nat, status : Statuses, you : BOOLEAN]
Shown(D) == {NoDuel} \cup MatchIn(D)

SyncIn(D) ==
  {NoSync} \cup [d : D, entered : Statuses, st : {"due", "asked", "recovering", "failed", "stopped"},
                 sent : BOOLEAN, n : Nat]

Page(D) ==
  [view : {"menu", "duel"}, lobby : Shown(D), handoff : Shown(D), sync : SyncIn(D),
   match : Shown(D), screen : Shown(D), tomb : Nat, over : Nat]

AnswerIn(D) ==
  [n : Nat \ {0}, kind : {"lobby"}, match : Shown(D)]
    \cup [n : Nat \ {0}, kind : {"accept", "sync", "poll", "move", "resign"}, match : MatchIn(D)]
    \cup [n : Nat \ {0}, kind : {"cancel"}, match : [d : D, ok : BOOLEAN]]

\* The tombstone is the last duel known to be over, the menu alone has no board, and
\* what is synchronised is the handoff that is shown.
Tidy(p) ==
  /\ p.tomb = p.over
  /\ p.view = "menu" <=> p.screen = NoDuel
  /\ p.sync.d = p.handoff.d

\* An answer of a synchronisation is for it only if it is about its duel.
Addressed(p, a) ==
  a.kind = "sync" /\ p.sync # NoSync /\ p.sync.n = a.n => a.match.d = p.sync.d

Known == DOMAIN duels

IInv ==
  /\ duels \in Seq(Row)
  /\ page \in Page(Known) /\ Tidy(page)
  /\ asked \in Nat
  /\ \A a \in answers : a \in AnswerIn(Known) /\ a.n <= asked /\ Addressed(page, a)

-----------------------------------------------------------------------------
(* The transitions of the page by themselves.                              *)

\* q follows p without the rest of the page noticing: the same duel is over,
\* the synchronisation is the same, a new one or none.
Follows(p, q) ==
  /\ q.over = p.over
  /\ q.sync = p.sync \/ q.sync = NoSync \/ q.sync.n = 0

\* Nothing comes on the screen but what was there, or m, on a page without one.
Opens(p, q, ds) ==
  /\ q.screen = p.screen \/ p.view = "menu"
  /\ {q.handoff.d, q.screen.d} \subseteq {p.handoff.d, p.screen.d, 0} \cup ds

LEMMA KnownDuels == duels \in Seq(Row) => Known \subseteq Nat \ {0} /\ Known = 1 .. Len(duels)
BY DEF Known

LEMMA EnterMatchOK ==
  ASSUME NEW D \in SUBSET (Nat \ {0}), NEW p \in Page(D), NEW m \in MatchIn(D), Tidy(p)
  PROVE  \A q \in {InHandoff(p, m), Entered(p, m), EnterMatch(p, m)} :
           q \in Page(D) /\ Tidy(q) /\ Follows(p, q) /\ Opens(p, q, {m.d}) /\ q.lobby = p.lobby
<1> DEFINE h == InHandoff(p, m)
           e == Entered(p, m)
<1>0. m.d \in D /\ m.status \in Statuses /\ m.d # 0 /\ 0 \in Nat /\ 0 \notin D
  BY DEF MatchIn
<1>1. SyncOf(m) \in SyncIn(D) /\ SyncOf(m).d = m.d /\ SyncOf(m).n = 0
  BY <1>0 DEF SyncOf, SyncIn
<1>2. h \in Page(D) /\ Tidy(h) /\ Follows(p, h) /\ Opens(p, h, {m.d}) /\ h.lobby = p.lobby
  BY <1>0, <1>1 DEF InHandoff, Page, Shown, Tidy, Follows, Opens
<1>3. e \in Page(D) /\ Tidy(e) /\ Follows(p, e) /\ Opens(p, e, {m.d}) /\ e.lobby = p.lobby
  <2>1. m # NoDuel /\ m \in Shown(D)
    BY <1>0 DEF NoDuel, Shown
  <2>2. NoDuel \in Shown(D) /\ NoSync \in SyncIn(D) /\ NoDuel.d = 0 /\ NoSync.d = 0
    BY DEF Shown, SyncIn, NoSync, NoDuel
  <2>3. /\ e \in Page(D) /\ e.tomb = p.tomb /\ e.over = p.over /\ e.handoff = NoDuel
        /\ e.sync = NoSync /\ e.view = "duel" /\ e.lobby = p.lobby
        /\ e.screen = (IF p.view = "duel" THEN p.screen ELSE m)
    BY <2>1, <2>2 DEF Entered, Page
  <2>4. p.view \in {"menu", "duel"}
    BY DEF Page
  <2> HIDE DEF e
  <2> QED BY <2>1, <2>2, <2>3, <2>4 DEF Tidy, Follows, Opens
<1> HIDE DEF h, e
<1>4. EnterMatch(p, m) = h \/ EnterMatch(p, m) = e
  BY DEF EnterMatch, h, e
<1> QED BY <1>2, <1>3, <1>4 DEF h, e

LEMMA NoticedOK ==
  ASSUME NEW D \in SUBSET (Nat \ {0}), NEW p \in Page(D), Tidy(p)
  PROVE  LET q == Noticed(p)
         IN q \in Page(D) /\ Tidy(q) /\ Follows(p, q) /\ Opens(p, q, Nat \ {p.over})
<1>1. CASE p.lobby = NoDuel \/ p.lobby.d \in {p.tomb, p.match.d, p.handoff.d}
  BY <1>1 DEF Noticed, Follows, Opens
<1>2. CASE ~(p.lobby = NoDuel \/ p.lobby.d \in {p.tomb, p.match.d, p.handoff.d})
  <2>1. p.lobby \in MatchIn(D) /\ p.lobby.d \in Nat \ {p.over}
    BY <1>2 DEF Page, Shown, MatchIn, Tidy
  <2>2. Noticed(p) = EnterMatch(p, p.lobby)
    BY <1>2 DEF Noticed
  <2> DEFINE q == EnterMatch(p, p.lobby)
  <2>3. q \in Page(D) /\ Tidy(q) /\ Follows(p, q) /\ Opens(p, q, {p.lobby.d})
    BY <2>1, EnterMatchOK
  <2> HIDE DEF q
  <2>4. Opens(p, q, Nat \ {p.over})
    BY <2>1, <2>3 DEF Opens
  <2> QED BY <2>2, <2>3, <2>4 DEF q
<1> QED BY <1>1, <1>2

LEMMA RerenderedOK ==
  ASSUME NEW D \in SUBSET (Nat \ {0}), NEW p \in Page(D), Tidy(p)
  PROVE  LET q == Rerendered(p)
         IN q \in Page(D) /\ Tidy(q) /\ Follows(p, q) /\ Opens(p, q, Nat \ {p.over})
BY NoticedOK DEF Rerendered, Follows, Opens

LEMMA ShownType ==
  ASSUME NEW D \in SUBSET (Nat \ {0}), NEW s \in Shown(D)
  PROVE  s.rev \in Nat /\ s.d \in Nat
<1>1. CASE s = NoDuel
  BY <1>1 DEF NoDuel
<1>2. CASE s \in MatchIn(D)
  <2>1. s.rev \in Nat /\ s.d \in D
    BY <1>2 DEF MatchIn
  <2> QED BY <2>1
<1> QED BY <1>1, <1>2 DEF Shown

LEMMA MergedOK ==
  ASSUME NEW D \in SUBSET (Nat \ {0}), NEW s \in Shown(D), NEW m \in MatchIn(D)
  PROVE  Merged(s, m) \in Shown(D) /\ (s.d = m.d => Merged(s, m).d = s.d /\ Merged(s, m).rev >= s.rev)
<1>1. s.rev \in Nat /\ m.rev \in Nat
  BY DEF Shown, MatchIn, NoDuel
<1> QED BY <1>1 DEF Merged, Shown

LEMMA AuthoritativeOK ==
  ASSUME NEW D \in SUBSET (Nat \ {0}), NEW p \in Page(D), NEW m \in MatchIn(D), Tidy(p)
  PROVE  LET q == Authoritative(p, m)
         IN /\ q \in Page(D) /\ Tidy(q)
            /\ q.sync = p.sync /\ q.handoff = p.handoff /\ q.view = p.view
            /\ q.screen.d = p.screen.d /\ q.screen.rev >= p.screen.rev
            /\ q.screen = NoDuel <=> p.screen = NoDuel
<1> DEFINE s == IF p.screen.d = m.d THEN Merged(p.screen, m) ELSE p.screen
           b == [p EXCEPT !.screen = s, !.match = Merged(@, m)]
           q == Authoritative(p, m)
<1>0. m.d \in Nat \ {0} /\ p.screen \in Shown(D) /\ p.match \in Shown(D) /\ NoDuel.d = 0
  BY DEF MatchIn, Page, NoDuel
<1>1. p.screen.rev \in Nat /\ p.screen.d \in Nat
  BY <1>0, ShownType
<1>2. s \in Shown(D) /\ s.d = p.screen.d /\ s.rev >= p.screen.rev /\ (s = NoDuel <=> p.screen = NoDuel)
  BY <1>0, <1>1, MergedOK DEF Shown, MatchIn
<1>3. Merged(p.match, m) \in Shown(D)
  BY <1>0, MergedOK
<1>4. /\ b \in Page(D) /\ b.tomb = b.over /\ b.sync = p.sync /\ b.handoff = p.handoff
      /\ b.view = p.view /\ b.screen = s
  <2> HIDE DEF s
  <2> QED BY <1>2, <1>3 DEF Page, Tidy
<1>5. q = b \/ q = [b EXCEPT !.tomb = m.d, !.over = m.d]
  BY DEF Authoritative, Terminal, Buried
<1> HIDE DEF s, b, q
<1>6. /\ q \in Page(D) /\ q.tomb = q.over /\ q.sync = p.sync /\ q.handoff = p.handoff
      /\ q.view = p.view /\ q.screen = s
  BY <1>0, <1>4, <1>5 DEF Page
<1> QED BY <1>2, <1>6 DEF Tidy, q

-----------------------------------------------------------------------------
(* The duels, and what is known of them.                                   *)

LEMMA Wider ==
  ASSUME NEW D, NEW E, D \subseteq E
  PROVE  Page(D) \subseteq Page(E) /\ AnswerIn(D) \subseteq AnswerIn(E) /\ MatchIn(D) \subseteq MatchIn(E)
<1>1. MatchIn(D) \subseteq MatchIn(E)
  BY DEF MatchIn
<1>2. Shown(D) \subseteq Shown(E) /\ SyncIn(D) \subseteq SyncIn(E)
  BY <1>1 DEF Shown, SyncIn
<1>3. AnswerIn(D) \subseteq AnswerIn(E)
  BY <1>1, <1>2 DEF AnswerIn
<1> QED BY <1>1, <1>2, <1>3 DEF Page

LEMMA BumpOK ==
  ASSUME duels \in Seq(Row), NEW d \in Known, NEW status \in Statuses
  PROVE  Bump(d, status) \in Seq(Row) /\ DOMAIN Bump(d, status) = Known
<1> DEFINE r == [duels[d] EXCEPT !.rev = @ + 1, !.status = status]
<1>1. duels[d] \in Row /\ Len(duels) \in Nat /\ Known = 1 .. Len(duels)
  BY DEF Known
<1>2. r \in Row
  <2>1. ASSUME NEW x \in Row PROVE [x EXCEPT !.rev = @ + 1, !.status = status] \in Row
    <3>1. x.rev + 1 \in Nat
      BY DEF Row
    <3> DEFINE n == x.rev + 1
    <3> HIDE DEF n
    <3>2. [x EXCEPT !.rev = n, !.status = status] \in Row
      BY <3>1 DEF Row, n
    <3> QED BY <3>2 DEF n
  <2> QED BY <1>1, <2>1
<1>3. Bump(d, status) = [duels EXCEPT ![d] = r]
  <2> DEFINE e == [duels EXCEPT ![d].rev = @ + 1]
  <2>1. e[d] = [duels[d] EXCEPT !.rev = @ + 1] /\ DOMAIN e = Known /\ d \in DOMAIN e
    BY DEF Known
  <2>2. Bump(d, status) = [e EXCEPT ![d] = [e[d] EXCEPT !.status = status]]
    BY DEF Bump
  <2> QED BY <2>1, <2>2 DEF Known
<1> HIDE DEF r
<1> QED BY <1>1, <1>2, <1>3 DEF Known

LEMMA ReadiedOK ==
  ASSUME duels \in Seq(Row), NEW d \in Known, NEW who \in {"you", "rival"}
  PROVE  Readied(d, who) \in Seq(Row) /\ DOMAIN Readied(d, who) = Known
<1>1. duels[d] \in Row
  BY DEF Known
<1>2. \A status \in Statuses : Bump(d, status) \in Seq(Row) /\ DOMAIN Bump(d, status) = Known
  BY BumpOK
<1>3. "active" \in Statuses /\ "starting" \in Statuses
  BY DEF Statuses
<1>4. ASSUME NEW b \in Seq(Row), DOMAIN b = Known
      PROVE  [b EXCEPT ![d][who] = TRUE] \in Seq(Row) /\ DOMAIN [b EXCEPT ![d][who] = TRUE] = Known
  <2>1. b[d] \in Row /\ Len(b) \in Nat /\ DOMAIN b = 1 .. Len(b)
    BY <1>4
  <2>2. [b[d] EXCEPT ![who] = TRUE] \in Row
    BY <2>1 DEF Row
  <2> DEFINE r == [b[d] EXCEPT ![who] = TRUE]
  <2>3. [b EXCEPT ![d][who] = TRUE] = [b EXCEPT ![d] = r]
    OBVIOUS
  <2> HIDE DEF r
  <2> QED BY <1>4, <2>1, <2>2, <2>3 DEF r
<1> QED BY <1>1, <1>2, <1>3, <1>4 DEF Readied, Known

LEMMA MadeDuelOK ==
  ASSUME duels \in Seq(Row)
  PROVE  MadeDuel \in Seq(Row) /\ Len(MadeDuel) = Len(duels) + 1 /\ Len(MadeDuel) \in DOMAIN MadeDuel
BY DEF MadeDuel, Row, Statuses

LEMMA MatchOfOK ==
  ASSUME duels \in Seq(Row), NEW d \in Known
  PROVE  MatchOf(d) \in MatchIn(Known)
<1>1. duels[d] \in Row
  BY DEF Known
<1> QED BY <1>1 DEF MatchOf, MatchIn, Row

-----------------------------------------------------------------------------
(* The invariant, once a step is known to respect its parts.               *)

\* The synchronisation that waits for an answer is the same, or waits for none
\* that is on its way.
SameSync ==
  \/ page'.sync \in {page.sync, NoSync}
  \/ page'.sync.n \in {0, asked + 1}
  \/ page.sync # NoSync /\ page'.sync.d = page.sync.d /\ page'.sync.n = page.sync.n

NewAnswer(a) == a \in AnswerIn(Known)' /\ a.n = asked + 1 /\ asked' = asked + 1 /\ Addressed(page', a)

LEMMA Preserved ==
  ASSUME IInv, duels' \in Seq(Row), Known \subseteq Known', asked' \in {asked, asked + 1},
         page' \in Page(Known)', Tidy(page)', SameSync,
         \A a \in answers' : a \in answers \/ NewAnswer(a)
  PROVE  IInv'
<1>1. asked \in Nat /\ asked' \in Nat
  BY DEF IInv
<1>2. AnswerIn(Known) \subseteq AnswerIn(Known)'
  <2>1. AnswerIn(Known) \subseteq AnswerIn(Known')
    BY Wider
  <2> QED BY <2>1 DEF AnswerIn, Shown, MatchIn, Known
<1>3. ASSUME NEW a \in answers', a \in answers
      PROVE  a \in AnswerIn(Known)' /\ a.n <= asked' /\ Addressed(page', a)
  <2>1. a \in AnswerIn(Known) /\ a.n <= asked /\ Addressed(page, a)
    BY <1>3 DEF IInv
  <2>2. a.n \in Nat \ {0}
    BY <2>1 DEF AnswerIn
  <2>3. Addressed(page', a)
    BY <1>1, <2>1, <2>2 DEF Addressed, SameSync
  <2> QED BY <1>1, <1>2, <2>1, <2>2, <2>3
<1>4. ASSUME NEW a \in answers', NewAnswer(a)
      PROVE  a \in AnswerIn(Known)' /\ a.n <= asked' /\ Addressed(page', a)
  BY <1>1, <1>4 DEF NewAnswer
<1>5. \A a \in answers' : a \in AnswerIn(Known)' /\ a.n <= asked' /\ Addressed(page, a)'
  BY <1>3, <1>4 DEF Addressed
<1> QED BY <1>1, <1>5 DEF IInv

Board == page.screen # NoDuel /\ page'.screen.d = page.screen.d =>
           page'.screen.rev >= page.screen.rev \/ Unmounts

Reopening == page'.over \in Opened => OpenFromMenu \/ \E a \in answers : AcceptArrives(a)

StepOK == IInv' /\ Board /\ Reopening

LEMMA PageTypes ==
  ASSUME IInv
  PROVE  /\ Known \in SUBSET (Nat \ {0}) /\ Known = 1 .. Len(duels) /\ Len(duels) \in Nat
         /\ page \in Page(Known) /\ page.view \in {"menu", "duel"}
         /\ page.screen \in Shown(Known) /\ page.handoff \in Shown(Known)
         /\ page.lobby \in Shown(Known) /\ page.match \in Shown(Known)
         /\ page.sync \in SyncIn(Known) /\ page.screen.rev \in Nat
<1>1. duels \in Seq(Row) /\ page \in Page(Known)
  BY DEF IInv
<1>2. Known \in SUBSET (Nat \ {0}) /\ Known = 1 .. Len(duels) /\ Len(duels) \in Nat
  BY <1>1, KnownDuels
<1>3. /\ page.view \in {"menu", "duel"} /\ page.screen \in Shown(Known)
      /\ page.handoff \in Shown(Known) /\ page.lobby \in Shown(Known)
      /\ page.match \in Shown(Known) /\ page.sync \in SyncIn(Known)
  BY <1>1 DEF Page
<1> QED BY <1>1, <1>2, <1>3, ShownType

\* A step that the page takes no part in.
LEMMA Steady ==
  ASSUME IInv, page' = page, duels' \in Seq(Row), Known \subseteq Known',
         asked' \in {asked, asked + 1},
         \A a \in answers' : a \in answers \/ NewAnswer(a)
  PROVE  StepOK
<1>1. page' \in Page(Known)'
  <2>1. page \in Page(Known')
    BY Wider DEF IInv
  <2> QED BY <2>1 DEF Page, Shown, MatchIn, SyncIn
<1>2. Tidy(page)' /\ SameSync
  BY DEF IInv, Tidy, SameSync
<1>3. IInv'
  BY <1>1, <1>2, Preserved
<1>4. Board /\ Reopening
  BY PageTypes DEF Board, Reopening, Opened
<1> QED BY <1>3, <1>4 DEF StepOK

\* A step after which the page looks at the lobby again.
LEMMA Navigated ==
  ASSUME IInv, NEW p \in Page(Known), Tidy(p), page' = Rerendered(p),
         UNCHANGED <<duels, asked>>, answers' \subseteq answers,
         p.sync \in {page.sync, NoSync} \/ p.sync.n = 0,
         page.screen # NoDuel => Unmounts \/ (p.view = "duel" /\ p.screen.d = page.screen.d
                                                /\ p.screen.rev >= page.screen.rev)
  PROVE  /\ IInv' /\ Board
         /\ {p.handoff.d, p.screen.d} \subseteq {page.handoff.d, page.screen.d, 0} => Reopening
<1> DEFINE q == Rerendered(p)
<1>0. Known \in SUBSET (Nat \ {0}) /\ Known' = Known
  BY PageTypes DEF Known
<1>1. q \in Page(Known) /\ Tidy(q) /\ Follows(p, q) /\ Opens(p, q, Nat \ {p.over})
  BY <1>0, RerenderedOK
<1>2. page' = q
  OBVIOUS
<1> HIDE DEF q
<1>3. IInv'
  <2>1. page' \in Page(Known)' /\ Tidy(page)'
    BY <1>0, <1>1, <1>2 DEF Page, Shown, MatchIn, SyncIn, Tidy
  <2>2. SameSync
    BY <1>1, <1>2 DEF SameSync, Follows
  <2>3. duels' \in Seq(Row) /\ asked' \in {asked, asked + 1}
    BY DEF IInv
  <2> QED BY <1>0, <2>1, <2>2, <2>3, Preserved
<1>4. Board
  BY <1>1, <1>2 DEF Board, Opens
<1>5. ASSUME {p.handoff.d, p.screen.d} \subseteq {page.handoff.d, page.screen.d, 0}
      PROVE  Reopening
  BY <1>1, <1>2, <1>5 DEF Reopening, Opened, Opens, Follows
<1> QED BY <1>3, <1>4, <1>5

\* A step that leaves the board and the duel of the handoff.
LEMMA Still ==
  ASSUME IInv, page'.screen = page.screen, page'.handoff.d = page.handoff.d
  PROVE  Board /\ Reopening
BY PageTypes DEF Board, Reopening, Opened

-----------------------------------------------------------------------------
(* The actions.                                                            *)

LEMMA AskOK ==
  ASSUME IInv, Known \subseteq Known', NEW kind, NEW match, Ask(kind, match), Known' \in SUBSET Nat,
         \/ kind = "lobby" /\ match \in Shown(Known)'
         \/ kind \in {"accept", "move", "resign"} /\ match \in MatchIn(Known)'
         \/ kind = "cancel" /\ match \in [d : Known', ok : BOOLEAN]
  PROVE  asked' \in {asked, asked + 1} /\ \A a \in answers' : a \in answers \/ NewAnswer(a)
<1>1. asked + 1 \in Nat \ {0} /\ asked' = asked + 1
  BY DEF Ask, IInv
<1> DEFINE a == [n |-> asked + 1, kind |-> kind, match |-> match]
<1>2. answers' = answers \cup {a} /\ a.n = asked + 1 /\ a.kind # "sync"
  BY DEF Ask
<1>3. a \in AnswerIn(Known)'
  BY <1>1 DEF AnswerIn
<1> HIDE DEF a
<1> QED BY <1>1, <1>2, <1>3 DEF NewAnswer, Addressed

LEMMA RivalOK ==
  ASSUME IInv, Rival
  PROVE  StepOK
<1>0. duels \in Seq(Row)
  BY DEF IInv
<1>1. CASE RivalAccepts
  <2>1. duels' \in Seq(Row) /\ Known \subseteq Known'
    BY <1>0, <1>1, MadeDuelOK DEF RivalAccepts, Known
  <2> QED BY <1>1, <2>1, Steady DEF RivalAccepts
<1>2. ASSUME NEW d \in DOMAIN duels, RivalInHandoff(d) \/ CountdownEnds(d) \/ RivalInDuel(d)
      PROVE  StepOK
  <2>1. /\ \A status \in Statuses : Bump(d, status) \in Seq(Row) /\ DOMAIN Bump(d, status) = Known
        /\ Readied(d, "rival") \in Seq(Row) /\ DOMAIN Readied(d, "rival") = Known
    BY <1>0, BumpOK, ReadiedOK DEF Known
  <2>2. duels' \in Seq(Row) /\ Known \subseteq Known'
    BY <1>0, <1>2, <2>1 DEF RivalInHandoff, CountdownEnds, RivalInDuel, Known, Statuses
  <2>3. page' = page /\ answers' = answers /\ asked' = asked
    BY <1>2 DEF RivalInHandoff, CountdownEnds, RivalInDuel
  <2> QED BY <2>2, <2>3, Steady
<1> QED BY <1>1, <1>2 DEF Rival

LEMMA LobbyOK ==
  ASSUME IInv, Lobby
  PROVE  StepOK
<1>0. duels \in Seq(Row)
  BY DEF IInv
<1>1. CASE ReadLobby
  <2> DEFINE m == IF Live = {} THEN NoDuel ELSE MatchOf(CHOOSE d \in Live : TRUE)
  <2>1. m \in Shown(Known)
    <3>1. Live # {} => (CHOOSE d \in Live : TRUE) \in Known
      BY DEF Live, Known
    <3> QED BY <1>0, <3>1, MatchOfOK DEF Shown
  <2>2. m \in Shown(Known)' /\ Known' = Known
    BY <1>1, <2>1 DEF ReadLobby, Known, Shown, MatchIn
  <2>3. Ask("lobby", m) /\ duels' = duels /\ page' = page
    BY <1>1 DEF ReadLobby
  <2> HIDE DEF m
  <2>4. asked' \in {asked, asked + 1} /\ \A a \in answers' : a \in answers \/ NewAnswer(a)
    BY <2>2, <2>3, AskOK, PageTypes
  <2> QED BY <1>0, <2>2, <2>3, <2>4, Steady
<1>2. CASE AcceptChallenge
  <2> DEFINE m == [d |-> Len(duels'), rev |-> 0, status |-> "starting", you |-> FALSE]
  <2>1. duels' \in Seq(Row) /\ Known \subseteq Known' /\ Len(duels') \in Known' /\ Known' \in SUBSET Nat
    BY <1>0, <1>2, MadeDuelOK DEF AcceptChallenge, Known
  <2>2. m \in MatchIn(Known)'
    BY <2>1 DEF MatchIn, Statuses
  <2>3. Ask("accept", m) /\ page' = page
    BY <1>2 DEF AcceptChallenge
  <2> HIDE DEF m
  <2>4. asked' \in {asked, asked + 1} /\ \A a \in answers' : a \in answers \/ NewAnswer(a)
    BY <2>1, <2>2, <2>3, AskOK
  <2> QED BY <2>1, <2>3, <2>4, Steady
<1>3. CASE OpenFromMenu
  <2> DEFINE p == EnterMatch(page, page.lobby)
  <2>1. page.lobby \in MatchIn(Known) /\ Tidy(page)
    BY <1>3, PageTypes DEF OpenFromMenu, Shown, IInv
  <2>2. p \in Page(Known) /\ Tidy(p) /\ Follows(page, p)
    BY <2>1, EnterMatchOK, PageTypes
  <2>3. page.screen = NoDuel
    BY <1>3, <2>1 DEF OpenFromMenu, Tidy
  <2>4. page' = Rerendered(p) /\ UNCHANGED <<duels, answers, asked>>
    BY <1>3 DEF OpenFromMenu
  <2> HIDE DEF p
  <2>5. IInv' /\ Board
    BY <2>2, <2>3, <2>4, Navigated DEF Follows
  <2> QED BY <1>3, <2>5 DEF StepOK, Reopening
<1> QED BY <1>1, <1>2, <1>3 DEF Lobby

LEMMA SyncAsksOK ==
  ASSUME IInv, SyncAsks
  PROVE  StepOK
<1> DEFINE d == page.sync.d
           m == [d |-> d, rev |-> duels'[d].rev, status |-> duels'[d].status, you |-> duels'[d].you]
           a == [n |-> asked + 1, kind |-> "sync", match |-> m]
           s == [page.sync EXCEPT !.st = IF @ = "due" THEN "asked" ELSE "recovering", !.n = asked + 1]
<1>0. duels \in Seq(Row) /\ asked + 1 \in Nat \ {0} /\ Known \in SUBSET (Nat \ {0})
  BY PageTypes DEF IInv
<1>1. d \in Known /\ page.sync \in SyncIn(Known) /\ page.sync # NoSync
  BY PageTypes DEF SyncAsks, SyncIn, NoSync
<1>2. duels' \in Seq(Row) /\ Known' = Known
  BY <1>0, <1>1, ReadiedOK DEF SyncAsks, Known
<1>3. m \in MatchIn(Known)
  <2>1. duels'[d] \in Row
    BY <1>1, <1>2 DEF Known
  <2> QED BY <1>1, <2>1 DEF MatchIn, Row
<1>4. s \in SyncIn(Known) /\ s.d = d /\ s.n = asked + 1
  BY <1>0, <1>1 DEF SyncIn, NoSync
<1>5. page' = [page EXCEPT !.sync = s] /\ answers' = answers \cup {a} /\ asked' = asked + 1
  BY DEF SyncAsks
<1> HIDE DEF s, m
<1>6. /\ page' \in Page(Known) /\ page'.sync = s /\ page'.screen = page.screen
      /\ page'.handoff = page.handoff /\ page'.tomb = page.tomb /\ page'.over = page.over
      /\ page'.view = page.view
  BY <1>4, <1>5, PageTypes DEF Page
<1>7. a \in AnswerIn(Known) /\ a.n = asked + 1 /\ (a.match.d = d)
  BY <1>0, <1>3 DEF AnswerIn, m
<1> HIDE DEF a, d
<1>8. NewAnswer(a)
  BY <1>2, <1>4, <1>5, <1>6, <1>7 DEF NewAnswer, Addressed, AnswerIn, Shown, MatchIn
<1>9. page' \in Page(Known)' /\ Tidy(page)' /\ SameSync
  <2>1. Tidy(page)'
    BY <1>4, <1>6 DEF Tidy, IInv, d
  <2>2. SameSync
    BY <1>4, <1>6 DEF SameSync
  <2> QED BY <1>2, <1>6, <2>1, <2>2 DEF Page, Shown, MatchIn, SyncIn
<1>10. IInv'
  BY <1>2, <1>5, <1>8, <1>9, Preserved
<1> QED BY <1>6, <1>10, Still DEF StepOK

LEMMA SyncFailsOK ==
  ASSUME IInv, SyncFails
  PROVE  StepOK
<1> DEFINE s == [page.sync EXCEPT !.st = IF @ = "asked" THEN "failed" ELSE "due"]
<1>1. page.sync \in SyncIn(Known) /\ page.sync # NoSync
  BY PageTypes DEF SyncFails, NoSync
<1>2. s \in SyncIn(Known) /\ s.d = page.sync.d /\ s.n = page.sync.n
  BY <1>1 DEF SyncIn, NoSync
<1>3. page' = [page EXCEPT !.sync = s] /\ answers' \subseteq answers /\ UNCHANGED <<duels, asked>>
  BY DEF SyncFails
<1> HIDE DEF s
<1>4. /\ page' \in Page(Known) /\ page'.sync = s /\ page'.screen = page.screen
      /\ page'.handoff = page.handoff /\ page'.tomb = page.tomb /\ page'.over = page.over
      /\ page'.view = page.view
  BY <1>2, <1>3, PageTypes DEF Page
<1>5. Tidy(page)' /\ SameSync
  BY <1>1, <1>2, <1>4 DEF Tidy, IInv, SameSync
<1>6. page' \in Page(Known)' /\ Known' = Known /\ duels' \in Seq(Row)
  BY <1>3, <1>4 DEF Page, Shown, MatchIn, SyncIn, Known, IInv
<1>7. IInv'
  BY <1>3, <1>5, <1>6, Preserved
<1> QED BY <1>4, <1>7, Still DEF StepOK

\* Leaving the handoff or the screen, knowing the duel m that was there.
LEMMA LeftOK ==
  ASSUME IInv, NEW m \in Shown(Known), m # NoDuel,
         NEW p \in {page, Terminal(page, m)}
  PROVE  \A q \in {LeftHandoff(p), [LeftHandoff(p) EXCEPT !.match = NoDuel]} :
           /\ q \in Page(Known) /\ Tidy(q) /\ q.sync = NoSync
           /\ q.handoff.d = 0 /\ q.screen.d = 0
<1>1. m.d \in Nat
  BY PageTypes, ShownType
<1>2. p = page \/ p = [page EXCEPT !.tomb = m.d, !.over = m.d]
  BY DEF Terminal, Buried
<1>3. p \in Page(Known) /\ p.tomb = p.over
  BY <1>1, <1>2, PageTypes DEF Page, IInv, Tidy
<1>4. NoDuel \in Shown(Known) /\ NoSync \in SyncIn(Known) /\ NoDuel.d = 0 /\ NoSync.d = 0
  BY DEF Shown, SyncIn, NoDuel, NoSync
<1> DEFINE q == LeftHandoff(p)
<1>5. /\ q \in Page(Known) /\ q.tomb = q.over /\ q.sync = NoSync
      /\ q.handoff = NoDuel /\ q.screen = NoDuel /\ q.view = "menu"
  BY <1>3, <1>4 DEF LeftHandoff, Page
<1> DEFINE r == [q EXCEPT !.match = NoDuel]
<1> HIDE DEF q
<1>6. /\ r \in Page(Known) /\ r.tomb = r.over /\ r.sync = NoSync
      /\ r.handoff = NoDuel /\ r.screen = NoDuel /\ r.view = "menu"
  BY <1>4, <1>5 DEF Page
<1> HIDE DEF r
<1>7. Tidy(q) /\ Tidy(r)
  BY <1>4, <1>5, <1>6 DEF Tidy
<1> QED BY <1>4, <1>5, <1>6, <1>7 DEF q, r

LEMMA CancelHandoffOK ==
  ASSUME IInv, CancelHandoff
  PROVE  StepOK
<1> DEFINE d == page.handoff.d
           m == [d |-> d, ok |-> duels'[d].status = "cancelled"]
<1>1. duels \in Seq(Row) /\ page.handoff \in MatchIn(Known) /\ d \in Known /\ Known \in SUBSET (Nat \ {0})
  BY PageTypes DEF CancelHandoff, Shown, MatchIn, IInv
<1>2. duels' \in Seq(Row) /\ Known' = Known
  <2>1. Bump(d, "cancelled") \in Seq(Row) /\ DOMAIN Bump(d, "cancelled") = Known
    BY <1>1, BumpOK DEF Statuses
  <2> QED BY <1>1, <2>1 DEF CancelHandoff, Known
<1>3. Ask("cancel", m) /\ m \in [d : Known', ok : BOOLEAN]
  BY <1>1, <1>2 DEF CancelHandoff
<1>4. page' = [page EXCEPT !.tomb = d, !.over = d]
  BY DEF CancelHandoff, Buried
<1> HIDE DEF m, d
<1>5. asked' \in {asked, asked + 1} /\ \A a \in answers' : a \in answers \/ NewAnswer(a)
  BY <1>1, <1>2, <1>3, AskOK
<1>6. /\ page' \in Page(Known) /\ page'.sync = page.sync /\ page'.screen = page.screen
      /\ page'.handoff = page.handoff /\ page'.tomb = page'.over /\ page'.view = page.view
  BY <1>1, <1>4, PageTypes DEF Page
<1>7. page' \in Page(Known)' /\ Tidy(page)' /\ SameSync
  BY <1>2, <1>6 DEF Page, Shown, MatchIn, SyncIn, Tidy, IInv, SameSync
<1>8. IInv'
  BY <1>2, <1>5, <1>7, Preserved
<1> QED BY <1>6, <1>8, Still DEF StepOK

LEMMA HandoffOK ==
  ASSUME IInv, Handoff
  PROVE  StepOK
<1>1. CASE CompleteHandoff
  <2> DEFINE p == Entered(page, page.handoff)
  <2>1. page.handoff \in MatchIn(Known) /\ Tidy(page) /\ 0 \notin Known
    BY <1>1, PageTypes DEF CompleteHandoff, Shown, IInv
  <2>2. p \in Page(Known) /\ Tidy(p) /\ Follows(page, p) /\ Opens(page, p, {page.handoff.d})
    BY <2>1, EnterMatchOK, PageTypes
  <2>3. page.screen # NoDuel => p.view = "duel" /\ p.screen = page.screen
    BY <2>1, PageTypes DEF Tidy, Entered, Page
  <2>4. page' = Rerendered(p) /\ UNCHANGED <<duels, answers, asked>>
    BY <1>1 DEF CompleteHandoff
  <2> HIDE DEF p
  <2>5. page.screen # NoDuel => p.view = "duel" /\ p.screen.d = page.screen.d
                                   /\ p.screen.rev >= page.screen.rev
    BY <2>3, PageTypes
  <2>6. {p.handoff.d, p.screen.d} \subseteq {page.handoff.d, page.screen.d, 0}
    BY <2>2 DEF Opens
  <2> QED BY <2>2, <2>4, <2>5, <2>6, Navigated DEF StepOK, Follows
<1>2. CASE DismissHandoff
  <2> DEFINE p == LeftHandoff(Terminal(page, page.handoff))
  <2>1. page.handoff \in Shown(Known) /\ page.handoff # NoDuel
    BY <1>2, PageTypes DEF DismissHandoff
  <2>2. p \in Page(Known) /\ Tidy(p) /\ p.sync = NoSync /\ p.handoff.d = 0 /\ p.screen.d = 0
    BY <2>1, LeftOK
  <2>3. page' = Rerendered(p) /\ UNCHANGED <<duels, answers, asked>> /\ Unmounts
    BY <1>2 DEF DismissHandoff, Unmounts
  <2> HIDE DEF p
  <2> QED BY <2>2, <2>3, Navigated DEF StepOK
<1> QED BY <1>1, <1>2, SyncAsksOK, SyncFailsOK, CancelHandoffOK DEF Handoff

LEMMA ScreenOK ==
  ASSUME IInv, Screen
  PROVE  StepOK
<1>0. duels \in Seq(Row) /\ asked + 1 \in Nat \ {0} /\ Known \in SUBSET (Nat \ {0})
  BY PageTypes DEF IInv
<1>1. ASSUME Playing
      PROVE  page.screen.d \in Known
  BY <1>1, PageTypes DEF Playing, Shown, MatchIn, NoDuel
<1>2. CASE Poll
  <2> DEFINE a == [n |-> asked + 1, kind |-> "poll", match |-> MatchOf(page.screen.d)]
  <2>1. MatchOf(page.screen.d) \in MatchIn(Known)
    BY <1>0, <1>1, <1>2, MatchOfOK DEF Poll
  <2>2. a \in AnswerIn(Known) /\ a.n = asked + 1 /\ a.kind # "sync"
    BY <1>0, <2>1 DEF AnswerIn
  <2>3. /\ UNCHANGED <<duels, page>> /\ asked' = asked + 1
        /\ answers' \subseteq answers \cup {a}
    BY <1>2 DEF Poll
  <2> HIDE DEF a
  <2>4. NewAnswer(a)
    BY <2>2, <2>3 DEF NewAnswer, Addressed, AnswerIn, Shown, MatchIn, Known
  <2>5. \A b \in answers' : b \in answers \/ NewAnswer(b)
    BY <2>3, <2>4
  <2>6. duels' \in Seq(Row) /\ Known \subseteq Known' /\ asked' \in {asked, asked + 1} /\ page' = page
    BY <1>0, <2>3 DEF Known
  <2> QED BY <2>5, <2>6, Steady
<1>3. CASE SubmitMove \/ ConfirmResign
  <2> DEFINE d == page.screen.d
             m == [d |-> d, rev |-> duels'[d].rev, status |-> duels'[d].status, you |-> TRUE]
  <2>0. PICK kind \in {"move", "resign"} :
          /\ Playing /\ duels' \in {duels, Bump(d, "active"), Bump(d, "finished")}
          /\ Ask(kind, m) /\ page' = page
    BY <1>3 DEF SubmitMove, ConfirmResign, Mutate, Accepted
  <2>1. d \in Known
    BY <1>1, <2>0
  <2>2. duels' \in Seq(Row) /\ Known' = Known
    <3>1. \A status \in Statuses : Bump(d, status) \in Seq(Row) /\ DOMAIN Bump(d, status) = Known
      BY <1>0, <2>1, BumpOK
    <3> QED BY <1>0, <2>0, <3>1 DEF Known, Statuses
  <2>3. m \in MatchIn(Known)'
    <3>1. duels'[d] \in Row
      BY <2>1, <2>2 DEF Known
    <3>2. m \in MatchIn(Known)
      BY <2>1, <3>1 DEF MatchIn, Row
    <3> QED BY <2>2, <3>2 DEF MatchIn
  <2> HIDE DEF m
  <2>5. asked' \in {asked, asked + 1} /\ \A a \in answers' : a \in answers \/ NewAnswer(a)
    BY <1>0, <2>0, <2>2, <2>3, AskOK
  <2> QED BY <2>0, <2>2, <2>5, Steady
<1>4. CASE ExitMatch
  <2> DEFINE p == [LeftHandoff(Terminal(page, page.screen)) EXCEPT !.match = NoDuel]
  <2>1. page.screen \in Shown(Known) /\ page.screen # NoDuel
    BY <1>4, PageTypes DEF ExitMatch, IInv, Tidy
  <2>2. p \in Page(Known) /\ Tidy(p) /\ p.sync = NoSync /\ p.handoff.d = 0 /\ p.screen.d = 0
    BY <2>1, LeftOK
  <2>3. page' = Rerendered(p) /\ UNCHANGED <<duels, answers, asked>> /\ Unmounts
    BY <1>4 DEF ExitMatch, LeftHandoff, Unmounts
  <2> HIDE DEF p
  <2> QED BY <2>2, <2>3, Navigated DEF StepOK
<1> QED BY <1>2, <1>3, <1>4 DEF Screen

\* What an answer on its way carries.
LEMMA AnswerOK ==
  ASSUME IInv, NEW a \in answers
  PROVE  /\ a.kind = "lobby" => a.match \in Shown(Known)
         /\ a.kind \in {"accept", "sync", "poll", "move", "resign"} => a.match \in MatchIn(Known)
         /\ Addressed(page, a) /\ a.n \in Nat \ {0}
BY DEF IInv, AnswerIn

\* applySnapshot on the handoff that waits for it.
LEMMA SyncArrivesOK ==
  ASSUME IInv, NEW a \in answers, SyncArrives(a)
  PROVE  StepOK
<1>0. /\ duels' = duels /\ asked' = asked /\ answers' \subseteq answers
      /\ a.kind = "sync" /\ a.match \in MatchIn(Known)
  BY AnswerOK DEF SyncArrives, Take
<1>1. duels' \in Seq(Row) /\ Known' = Known /\ asked' \in {asked, asked + 1}
  BY <1>0 DEF IInv, Known
<1>2. CASE page' = page
  BY <1>0, <1>1, <1>2, Steady
<1>3. CASE page' # page
  <2> DEFINE s == [page.sync EXCEPT !.sent = @ \/ a.match.you \/ page.sync.st = "asked",
                     !.st = IF a.match.status = "starting" THEN "due" ELSE "stopped"]
             p == [page EXCEPT !.handoff = a.match, !.sync = s]
  <2>1. page.sync # NoSync /\ page.sync.n = a.n
    BY <1>3 DEF SyncArrives
  <2>2. page.sync \in SyncIn(Known) /\ page.sync.sent \in BOOLEAN /\ a.match.you \in BOOLEAN
    BY <1>0, <2>1, PageTypes DEF SyncIn, MatchIn
  <2>3. s \in SyncIn(Known) /\ s.d = page.sync.d /\ s.n = page.sync.n
    BY <2>1, <2>2 DEF SyncIn
  <2>4. a.match.d = page.sync.d /\ page.sync.d = page.handoff.d /\ a.match.d \in Nat
    BY <1>0, <2>1, AnswerOK, PageTypes DEF Addressed, IInv, Tidy, MatchIn
  <2>5. page' = Terminal(p, a.match)
    BY <2>1 DEF SyncArrives
  <2> HIDE DEF s
  <2>6. /\ p \in Page(Known) /\ p.sync = s /\ p.handoff = a.match /\ p.screen = page.screen
        /\ p.view = page.view /\ p.tomb = p.over
    BY <1>0, <2>3, PageTypes DEF Page, Shown, IInv, Tidy
  <2>7. page' = p \/ page' = [p EXCEPT !.tomb = a.match.d, !.over = a.match.d]
    BY <2>5 DEF Terminal, Buried
  <2> HIDE DEF p
  <2>8. /\ page' \in Page(Known) /\ page'.sync = s /\ page'.handoff = a.match
        /\ page'.screen = page.screen /\ page'.view = page.view /\ page'.tomb = page'.over
    BY <2>4, <2>6, <2>7 DEF Page
  <2>9. Tidy(page)' /\ SameSync /\ page' \in Page(Known)'
    BY <1>1, <2>1, <2>3, <2>4, <2>8 DEF Tidy, IInv, SameSync, Page, Shown, MatchIn, SyncIn
  <2>10. IInv'
    BY <1>0, <1>1, <2>9, Preserved
  <2> QED BY <2>4, <2>8, <2>10, Still DEF StepOK
<1> QED BY <1>2, <1>3

\* A match that the screen is given.
LEMMA GivenOK ==
  ASSUME IInv, NEW m \in MatchIn(Known), page' = Rerendered(Authoritative(page, m)),
         UNCHANGED <<duels, asked>>, answers' \subseteq answers
  PROVE  StepOK
<1> DEFINE p == Authoritative(page, m)
<1>1. /\ p \in Page(Known) /\ Tidy(p) /\ p.sync = page.sync /\ p.handoff = page.handoff
      /\ p.view = page.view /\ p.screen.d = page.screen.d /\ p.screen.rev >= page.screen.rev
  BY AuthoritativeOK, PageTypes DEF IInv
<1>2. page.screen # NoDuel => page.view = "duel"
  BY PageTypes DEF IInv, Tidy
<1> HIDE DEF p
<1> QED BY <1>1, <1>2, Navigated DEF p, StepOK

LEMMA ArrivalOK ==
  ASSUME IInv, Arrival
  PROVE  StepOK
<1> SUFFICES ASSUME NEW a \in answers,
                    \/ LobbyArrives(a) \/ AcceptArrives(a) \/ SyncArrives(a) \/ CancelArrives(a)
                    \/ PollArrives(a) \/ MoveArrives(a) \/ Lost(a)
             PROVE  StepOK
  BY DEF Arrival
<1>0. UNCHANGED <<duels, asked>> /\ answers' \subseteq answers
  BY DEF LobbyArrives, AcceptArrives, SyncArrives, CancelArrives, PollArrives, MoveArrives, Lost, Take
<1>1. Tidy(page) /\ page \in Page(Known) /\ (page.screen # NoDuel => page.view = "duel")
  BY PageTypes DEF IInv, Tidy
<1>2. page' = page => StepOK
  <2>1. duels' \in Seq(Row) /\ Known \subseteq Known' /\ asked' \in {asked, asked + 1}
    BY <1>0 DEF IInv, Known
  <2> QED BY <1>0, <2>1, Steady
<1>3. CASE LobbyArrives(a)
  <2> DEFINE p == [page EXCEPT !.lobby = a.match]
  <2>1. a.match \in Shown(Known) /\ page' = Rerendered(p)
    BY <1>3, AnswerOK DEF LobbyArrives
  <2>2. /\ p \in Page(Known) /\ Tidy(p) /\ p.sync = page.sync /\ p.view = page.view
        /\ p.screen = page.screen /\ p.handoff = page.handoff
    BY <1>1, <2>1 DEF Page, Tidy
  <2> HIDE DEF p
  <2>3. page.screen # NoDuel => p.view = "duel" /\ p.screen.d = page.screen.d
                                   /\ p.screen.rev >= page.screen.rev
    BY <1>1, <2>2, PageTypes
  <2> QED BY <1>0, <2>1, <2>2, <2>3, Navigated DEF StepOK
<1>4. CASE AcceptArrives(a)
  <2> DEFINE p == InHandoff(page, a.match)
  <2>1. a.match \in MatchIn(Known) /\ page' = Rerendered(p)
    BY <1>4, AnswerOK DEF AcceptArrives
  <2>2. p \in Page(Known) /\ Tidy(p) /\ Follows(page, p)
    BY <1>1, <2>1, EnterMatchOK, PageTypes
  <2>3. p.screen = page.screen /\ p.view = page.view
    BY <1>1 DEF InHandoff, Page
  <2> HIDE DEF p
  <2>4. page.screen # NoDuel => p.view = "duel" /\ p.screen.d = page.screen.d
                                   /\ p.screen.rev >= page.screen.rev
    BY <1>1, <2>3, PageTypes
  <2>5. IInv' /\ Board
    BY <1>0, <2>1, <2>2, <2>4, Navigated DEF Follows
  <2>6. Reopening
    BY <1>4 DEF Reopening
  <2> QED BY <2>5, <2>6 DEF StepOK
<1>5. CASE CancelArrives(a)
  <2> DEFINE p == LeftHandoff(page)
  <2>1. CASE a.match.ok
    <3>1. p \in Page(Known) /\ Tidy(p) /\ p.sync = NoSync /\ p.handoff.d = 0 /\ p.screen.d = 0
      BY <1>1 DEF LeftHandoff, Page, Tidy, Shown, SyncIn, NoSync, NoDuel
    <3>2. page' = Rerendered(p) /\ Unmounts
      BY <1>5, <2>1 DEF CancelArrives, Unmounts
    <3> HIDE DEF p
    <3> QED BY <1>0, <3>1, <3>2, Navigated DEF StepOK
  <2> QED BY <1>2, <1>5, <2>1 DEF CancelArrives
<1>6. CASE PollArrives(a)
  <2>1. a.match \in MatchIn(Known)
    BY <1>6, AnswerOK DEF PollArrives
  <2> QED BY <1>0, <1>2, <1>6, <2>1, GivenOK DEF PollArrives
<1>7. CASE MoveArrives(a)
  <2>1. a.match \in MatchIn(Known) /\ page' = Rerendered(Authoritative(page, a.match))
    BY <1>7, AnswerOK DEF MoveArrives
  <2> QED BY <1>0, <2>1, GivenOK
<1>8. CASE Lost(a)
  BY <1>2, <1>8 DEF Lost
<1> QED BY <1>3, <1>4, <1>5, <1>6, <1>7, <1>8, SyncArrivesOK

-----------------------------------------------------------------------------
LEMMA StepsOK == IInv /\ [PlayerNext]_playerVars => IInv' /\ [StepOK]_playerVars
<1>1. IInv /\ PlayerNext => StepOK
  BY RivalOK, LobbyOK, HandoffOK, ScreenOK, ArrivalOK DEF PlayerNext
<1>2. IInv /\ UNCHANGED playerVars => IInv'
  BY DEF IInv, playerVars, Known, Addressed, Tidy, Page, Shown, MatchIn, SyncIn, AnswerIn
<1> QED BY <1>1, <1>2 DEF StepOK

LEMMA Starts == PlayerInit => IInv
<1> SUFFICES ASSUME PlayerInit PROVE IInv
  OBVIOUS
<1>1. NoDuel \in Shown(Known) /\ NoSync \in SyncIn(Known) /\ NoSync.d = NoDuel.d
  BY DEF Shown, SyncIn, NoSync, NoDuel
<1>2. page \in Page(Known) /\ Tidy(page)
  BY <1>1 DEF PlayerInit, Page, Tidy
<1> QED BY <1>2 DEF PlayerInit, IInv

LEMMA Always == PlayerSpec => []IInv /\ [][StepOK]_playerVars
BY Starts, StepsOK, PTL DEF PlayerSpec

\* While a duel's screen is mounted its board never goes back, whatever the
\* order of the answers of polls, moves, resignations, handoffs and lobbies:
\* mergeNewerMatch is enough, for any number of duels and requests.
THEOREM BoardNeverGoesBack == PlayerSpec => ScreenNeverGoesBack
BY Always, PTL DEF ScreenNeverGoesBack, StepOK, Board

\* Only the player brings back a duel that ended or was given up last: the
\* tombstone of usePvpAppFlow.js survives every answer that is on its way.
THEOREM EndedDuelsStayClosed == PlayerSpec => LobbyNeverReopens
BY Always, PTL DEF LobbyNeverReopens, StepOK, Reopening
=============================================================================
