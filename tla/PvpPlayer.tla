------------------------------ MODULE PvpPlayer ------------------------------
(***************************************************************************)
(* One player's page through duels: the lobby's snapshots, the handoff     *)
(* that waits for both players, the duel screen, and back to the menu      *)
(* (usePvpAppFlow.js, usePvpRosterPresence.js, PvpGameScreen.jsx).  Every  *)
(* request is read and applied by the server at one moment and answered at *)
(* another: its answer carries the match as it was in between.             *)
(*                                                                         *)
(* The match is its status and revision; PvpMatch has the rest.            *)
(***************************************************************************)
EXTENDS Integers, Sequences

CONSTANTS
  MaxDuels,      \* bound on the duels of this player
  MaxRevision,   \* bound on a match's revision
  MaxAnswers     \* bound on the requests of the page

VARIABLES
  duels,     \* pvp_matches, in the order they are made
  begun,     \* the duels whose starts_at has passed
  page,      \* the page
  answers,   \* answers on their way to it
  asked      \* requests so far

playerVars == <<duels, begun, page, answers, asked>>

NoDuel == [d |-> 0, rev |-> 0, status |-> "none", you |-> FALSE]
IsLive(status) == status \in {"starting", "active"}
Live == {d \in DOMAIN duels : IsLive(duels[d].status)}

\* A match as an answer carries it.
MatchOf(d) == [d |-> d, rev |-> duels[d].rev, status |-> duels[d].status, you |-> duels[d].you]

-----------------------------------------------------------------------------
(* The server and the rival.                                               *)

MadeDuel == Append(duels, [rev |-> 0, status |-> "starting", you |-> FALSE, rival |-> FALSE])

\* The rival accepts a challenge of this player.
RivalAccepts ==
  /\ Live = {} /\ Len(duels) < MaxDuels
  /\ duels' = MadeDuel
  /\ UNCHANGED <<begun, page, answers, asked>>

Bump(d, status) == [duels EXCEPT ![d].rev = @ + 1, ![d].status = status]

\* ReadyMatch by either player; the second confirmation starts the countdown.
Readied(d, who) ==
  LET other == IF who = "you" THEN "rival" ELSE "you"
  IN IF duels[d].status # "starting" \/ duels[d][who] THEN duels
     ELSE [Bump(d, IF duels[d][other] THEN "active" ELSE "starting") EXCEPT ![d][who] = TRUE]

\* The rival confirms, or cancels the handoff, or nobody does in time.
RivalInHandoff(d) ==
  /\ duels[d].status = "starting"
  /\ duels' \in {Readied(d, "rival"), Bump(d, "cancelled")} \ {duels}
  /\ UNCHANGED <<begun, page, answers, asked>>

CountdownEnds(d) ==
  /\ duels[d].status \in {"active", "finished"} /\ d \notin begun
  /\ begun' = begun \cup {d}
  /\ UNCHANGED <<duels, page, answers, asked>>

\* The rival plays or resigns, or somebody's time or absence ends the duel.
RivalInDuel(d) ==
  /\ duels[d].status = "active" /\ duels[d].rev < MaxRevision
  /\ duels' \in (IF d \in begun THEN {Bump(d, "active")} ELSE {}) \cup {Bump(d, "finished")}
  /\ UNCHANGED <<begun, page, answers, asked>>

-----------------------------------------------------------------------------
(* Requests.  kind says whose answer it is; one asked for without a signal *)
(* comes however late, and in any order.                                   *)

Ask(kind, match) ==
  /\ asked < MaxAnswers
  /\ asked' = asked + 1
  /\ answers' = answers \cup {[n |-> asked + 1, kind |-> kind, match |-> match]}

Take(a) == answers' = answers \ {a} /\ UNCHANGED <<duels, begun, asked>>

NoSync == [d |-> 0, st |-> "none"]
SyncOf(m) == [d |-> m.d, entered |-> m.status, st |-> "due", sent |-> FALSE, n |-> 0]

\* enterPreparedMatch.  A screen that is mounted keeps the match it has.
Entered(p, m) ==
  [p EXCEPT !.match = m, !.handoff = NoDuel, !.sync = NoSync, !.view = "duel",
            !.screen = IF p.view = "duel" THEN @ ELSE m]

\* setHandoffMatch; the effect that synchronises follows the match's id.
InHandoff(p, m) ==
  [p EXCEPT !.handoff = m, !.sync = IF p.handoff.d = m.d THEN @ ELSE SyncOf(m)]

\* enterMatch.
EnterMatch(p, m) ==
  IF m.status = "starting" \/ m.d \notin begun THEN InHandoff(p, m) ELSE Entered(p, m)

Noticed_Cleared(p) ==
  IF p.lobby = NoDuel THEN [p EXCEPT !.tomb = 0]
  ELSE IF p.lobby.d \in {p.tomb, p.match.d, p.handoff.d} THEN p ELSE EnterMatch(p, p.lobby)

\* The effect on the lobby's active match: not one known to be over, nor the
\* one the page is at.
Noticed(p) ==
  IF p.lobby = NoDuel \/ p.lobby.d \in {p.tomb, p.match.d, p.handoff.d} THEN p
  ELSE EnterMatch(p, p.lobby)

\* It runs again when the match, the handoff or the lobby's match has changed.
Rerendered(p) ==
  IF p.lobby # page.lobby \/ p.match.d # page.match.d \/ p.handoff.d # page.handoff.d
    THEN Noticed(p) ELSE p

\* tomb is terminalHandoffIdRef; over is what it was last set to.
Buried(p, d) == [p EXCEPT !.tomb = d, !.over = d]
Terminal(p, m) == IF IsLive(m.status) THEN p ELSE Buried(p, m.d)

\* GET /lobby, polled and asked for in the menu.
ReadLobby ==
  /\ page.view = "menu" /\ ~IsLive(page.handoff.status)
  /\ Ask("lobby", IF Live = {} THEN NoDuel ELSE MatchOf(CHOOSE d \in Live : TRUE))
  /\ UNCHANGED <<duels, begun, page>>

LobbyArrives(a) ==
  /\ a.kind = "lobby"
  /\ page' = Rerendered([page EXCEPT !.lobby = a.match])
  /\ Take(a)

\* acceptIncoming: a challenge of a rival becomes a duel.
AcceptChallenge ==
  /\ page.view = "menu" /\ page.handoff = NoDuel
  /\ Live = {} /\ Len(duels) < MaxDuels
  /\ duels' = MadeDuel
  /\ Ask("accept", [d |-> Len(duels'), rev |-> 0, status |-> "starting", you |-> FALSE])
  /\ UNCHANGED <<begun, page>>

\* The menu's own way to the duel that the lobby shows.
OpenFromMenu ==
  /\ page.view = "menu" /\ page.handoff = NoDuel /\ page.lobby # NoDuel
  /\ page' = Rerendered(EnterMatch(page, page.lobby))
  /\ UNCHANGED <<duels, begun, answers, asked>>

AcceptArrives(a) ==
  /\ a.kind = "accept"
  /\ page' = Rerendered(InHandoff(page, a.match))
  /\ Take(a)

-----------------------------------------------------------------------------
(* The handoff.                                                            *)

\* Confirm once, then read.  A failure is followed by a read.
SyncAsks ==
  /\ page.handoff # NoDuel /\ page.sync.st \in {"due", "failed"}
  /\ LET d == page.sync.d
     IN /\ duels' = IF page.sync.st = "due" /\ ~page.sync.sent /\ page.sync.entered = "starting"
                      THEN Readied(d, "you") ELSE duels
        /\ asked < MaxAnswers /\ asked' = asked + 1
        /\ answers' = answers \cup {[n |-> asked + 1, kind |-> "sync",
             match |-> [d |-> d, rev |-> duels'[d].rev, status |-> duels'[d].status, you |-> duels'[d].you]]}
  /\ page' = [page EXCEPT !.sync.st = IF @ = "due" THEN "asked" ELSE "recovering",
                          !.sync.n = asked + 1]
  /\ UNCHANGED begun

SyncFails ==
  /\ page.sync.st \in {"asked", "recovering"}
  /\ page' = [page EXCEPT !.sync.st = IF @ = "asked" THEN "failed" ELSE "due"]
  /\ answers' = {a \in answers : a.kind # "sync" \/ a.n # page.sync.n}
  /\ UNCHANGED <<duels, begun, asked>>

\* applySnapshot.
SyncArrives(a) ==
  /\ a.kind = "sync"
  /\ page' = IF page.sync = NoSync \/ page.sync.n # a.n THEN page
             ELSE Terminal([page EXCEPT !.handoff = a.match,
                    !.sync.sent = @ \/ a.match.you \/ page.sync.st = "asked",
                    !.sync.st = IF a.match.status = "starting" THEN "due" ELSE "stopped"], a.match)
  /\ Take(a)

\* The countdown of PvpHandoffModal is over.
CompleteHandoff ==
  /\ page.handoff # NoDuel /\ page.handoff.status = "active" /\ page.handoff.d \in begun
  /\ page' = Rerendered(Entered(page, page.handoff))
  /\ UNCHANGED <<duels, begun, answers, asked>>

LeftHandoff(p) ==
  [p EXCEPT !.handoff = NoDuel, !.sync = NoSync, !.view = "menu", !.screen = NoDuel]

\* cancelHandoff of a duel that is starting; the server's answer decides.
CancelHandoff ==
  /\ page.handoff # NoDuel /\ page.handoff.status = "starting"
  /\ LET d == page.handoff.d
     IN /\ duels' = IF duels[d].status = "starting" THEN Bump(d, "cancelled") ELSE duels
        /\ Ask("cancel", [d |-> d, ok |-> duels'[d].status = "cancelled"])
        /\ page' = Buried(page, d)
  /\ UNCHANGED begun

CancelArrives(a) ==
  /\ a.kind = "cancel"
  /\ page' = IF a.match.ok THEN Rerendered(LeftHandoff(page)) ELSE page
  /\ Take(a)

\* cancelHandoff of one that was cancelled.
DismissHandoff ==
  /\ page.handoff # NoDuel /\ page.handoff.status = "cancelled"
  /\ page' = Rerendered(LeftHandoff(Terminal(page, page.handoff)))
  /\ UNCHANGED <<duels, begun, answers, asked>>

-----------------------------------------------------------------------------
(* The duel screen.                                                        *)

Merged_Any(current, next) == next

\* mergeNewerMatch.
Merged(current, next) ==
  IF current.d = next.d /\ next.rev < current.rev THEN current ELSE next

\* applyAuthoritativeMatch and updateMatch.
Authoritative(p, m) ==
  Terminal([p EXCEPT !.screen = IF p.screen.d = m.d THEN Merged(@, m) ELSE @,
                     !.match = Merged(@, m)], m)

Playing == page.view = "duel" /\ page.screen.status = "active"

\* A full read.  A new poll aborts the one before.
Poll ==
  /\ Playing
  /\ asked < MaxAnswers /\ asked' = asked + 1
  /\ answers' = {a \in answers : a.kind # "poll"} \cup
       {[n |-> asked + 1, kind |-> "poll", match |-> MatchOf(page.screen.d)]}
  /\ UNCHANGED <<duels, begun, page>>

PollArrives(a) ==
  /\ a.kind = "poll"
  /\ page' = IF Playing /\ page.screen.d = a.match.d
               THEN Rerendered(Authoritative(page, a.match)) ELSE page
  /\ Take(a)

\* What the server makes of a move or a resignation it accepts.
Accepted(d, status) ==
  IF duels[d].status = "active" /\ duels[d].rev < MaxRevision THEN {Bump(d, status)} ELSE {}

\* One of each kind is under way at a time for the duel on the screen: busy and
\* resigning are flags of their own.
Mutate(kind, outcomes) ==
  /\ Playing
  /\ \A a \in answers : a.kind = kind => a.match.d # page.screen.d
  /\ duels' \in outcomes
  /\ Ask(kind, [d |-> page.screen.d, rev |-> duels'[page.screen.d].rev,
                status |-> duels'[page.screen.d].status, you |-> TRUE])
  /\ UNCHANGED <<begun, page>>

\* Whether the move is applied, refused or lost, what comes back is the match:
\* by its own answer or by the read that follows a failure.
SubmitMove == Mutate("move", {duels} \cup Accepted(page.screen.d, "active"))

\* A resignation that fails brings nothing back.
ConfirmResign == Mutate("resign", Accepted(page.screen.d, "finished"))

\* It may come when the screen is gone.
MoveArrives(a) ==
  /\ a.kind \in {"move", "resign"}
  /\ page' = Rerendered(Authoritative(page, a.match))
  /\ Take(a)

Lost(a) ==
  /\ a.kind \in {"lobby", "accept", "cancel", "poll", "move", "resign"}
  /\ Take(a) /\ UNCHANGED page

\* exitMatch, offered when the duel is over.
ExitMatch ==
  /\ page.view = "duel" /\ ~IsLive(page.screen.status)
  /\ page' = Rerendered([Terminal(page, page.screen) EXCEPT
       !.match = NoDuel, !.handoff = NoDuel, !.sync = NoSync, !.view = "menu", !.screen = NoDuel])
  /\ UNCHANGED <<duels, begun, answers, asked>>

-----------------------------------------------------------------------------
PlayerInit ==
  /\ duels = <<>> /\ begun = {} /\ answers = {} /\ asked = 0
  /\ page = [view |-> "menu", lobby |-> NoDuel, handoff |-> NoDuel, sync |-> NoSync,
             match |-> NoDuel, screen |-> NoDuel, tomb |-> 0, over |-> 0]

Rival ==
  RivalAccepts \/ \E d \in DOMAIN duels : RivalInHandoff(d) \/ CountdownEnds(d) \/ RivalInDuel(d)

Lobby == ReadLobby \/ AcceptChallenge \/ OpenFromMenu

Handoff == SyncAsks \/ SyncFails \/ CompleteHandoff \/ CancelHandoff \/ DismissHandoff

Screen == Poll \/ SubmitMove \/ ConfirmResign \/ ExitMatch

Arrival == \E a \in answers :
  LobbyArrives(a) \/ AcceptArrives(a) \/ SyncArrives(a) \/ CancelArrives(a)
    \/ PollArrives(a) \/ MoveArrives(a) \/ Lost(a)

PlayerNext == Rival \/ Lobby \/ Handoff \/ Screen \/ Arrival

PlayerSpec == PlayerInit /\ [][PlayerNext]_playerVars

-----------------------------------------------------------------------------
Unmounts == DismissHandoff \/ ExitMatch \/ \E a \in answers : CancelArrives(a)

\* While its screen is mounted the board of a duel never goes back to an earlier
\* position, in whatever order the answers of polls, moves and resignations, of
\* this duel and of earlier ones, come (mergeNewerMatch).
ScreenNeverGoesBack ==
  [][page.screen # NoDuel /\ page'.screen.d = page.screen.d =>
       page'.screen.rev >= page.screen.rev \/ Unmounts]_playerVars

Opened == {page'.handoff.d, page'.screen.d} \ {page.handoff.d, page.screen.d, 0}

\* A lobby snapshot never brings back by itself the duel that ended or was
\* given up last, however old it is and whatever snapshots came before it (the
\* comment on the local tombstone in usePvpAppFlow.js).
LobbyNeverReopens ==
  [][page'.over \in Opened => OpenFromMenu \/ \E a \in answers : AcceptArrives(a)]_playerVars
=============================================================================
