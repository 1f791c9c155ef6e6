---------------------------- MODULE ProfileSync ----------------------------
(***************************************************************************)
(* The profile of a player: the document with a revision per key, patched  *)
(* by compare-and-swap, and one page that works on a local copy, journals  *)
(* the keys it edits and pushes them.  Other devices patch the same        *)
(* document, and another tab of the browser may log somebody else in.      *)
(***************************************************************************)
EXTENDS Integers, Sequences, FiniteSets

CONSTANTS
  ProfileKeys,     \* PROFILE_STORAGE_KEYS
  Users,
  FirstUser,       \* who is logged in at first
  PatchAttempts,   \* patchAttempts of the store
  Limits           \* bounds, one of which a behaviour starts with: values
                   \* written by anybody (edits), pushes the page queues
                   \* (pushes), PATCHes (reqs), reloads, changes of account

ASSUME ProfileAssumption ==
  FirstUser \in Users /\ "nobody" \notin Users /\ PatchAttempts \in Nat \ {0}

VARIABLES
  prof,      \* profiles documents: data, revisions, write_revision
  patches,   \* PATCH requests the server has not finished
  dev,       \* the page and the browser's local storage
  stored,    \* every value a document ever held
  spent,     \* how much of each limit is used
  limit      \* the limits of this behaviour

profileVars == <<prof, patches, dev, stored, spent, limit>>

\* A value remembers who wrote it; no two edits write the same one.
None == [by |-> "nobody", n |-> 0]

-----------------------------------------------------------------------------
(* The store: Patch.  A missing document is the one with write 0, and the  *)
(* insert that requires it to be missing is its compare-and-swap.          *)

Payload(u) == [data |-> prof[u].data, rev |-> prof[u].rev]

Conflicts(p) == {k \in DOMAIN p.patch : p.want[k] # prof[p.user].rev[k]}

AnswerPatch(p, kind, payload) ==
  /\ patches' = patches \ {p}
  /\ dev' = IF dev.job.st = "patching" /\ dev.job.req = p.id
              THEN [dev EXCEPT !.job.ans = [kind |-> kind, payload |-> payload]]
              ELSE dev
  /\ UNCHANGED spent

PatchConflict(p) ==
  /\ p.st = "sent" /\ Conflicts(p) # {}
  /\ AnswerPatch(p, "conflict", Payload(p.user))
  /\ UNCHANGED <<prof, stored>>

PatchRead(p) ==
  /\ p.st = "sent" /\ Conflicts(p) = {}
  /\ patches' = (patches \ {p}) \cup {[p EXCEPT !.st = "read", !.base = prof[p.user]]}
  /\ UNCHANGED <<prof, dev, stored, spent>>

\* The document made from what was read and the patch.
Patched(base, patch) ==
  [data  |-> [k \in ProfileKeys |-> IF k \in DOMAIN patch THEN patch[k] ELSE base.data[k]],
   rev   |-> [k \in ProfileKeys |-> IF k \in DOMAIN patch THEN base.rev[k] + 1 ELSE base.rev[k]],
   write |-> base.write + 1]

Unwritten_Unchecked(p) == TRUE

Unwritten(p) == prof[p.user].write = p.base.write

PatchWrite(p) ==
  /\ p.st = "read" /\ Unwritten(p)
  /\ prof' = [prof EXCEPT ![p.user] = Patched(p.base, p.patch)]
  /\ stored' = stored \cup {p.patch[k] : k \in DOMAIN p.patch}
  /\ AnswerPatch(p, "ok", [data |-> prof'[p.user].data, rev |-> prof'[p.user].rev])

PatchLost(p) ==
  /\ p.st = "read" /\ ~Unwritten(p)
  /\ IF p.tries < PatchAttempts
       THEN /\ patches' = (patches \ {p}) \cup {[p EXCEPT !.st = "sent", !.tries = @ + 1]}
            /\ UNCHANGED <<dev, spent>>
       ELSE AnswerPatch(p, "unavailable", Payload(p.user))
  /\ UNCHANGED <<prof, stored>>

\* Another device of the user changes a key.
OtherDevice(u, k) ==
  /\ spent.edits < limit.edits
  /\ LET v == [by |-> u, n |-> spent.edits + 1]
     IN /\ prof' = [prof EXCEPT ![u] = Patched(prof[u], [x \in {k} |-> v])]
        /\ stored' = stored \cup {v}
  /\ spent' = [spent EXCEPT !.edits = @ + 1]
  /\ UNCHANGED <<patches, dev>>

-----------------------------------------------------------------------------
(* The page: profileBackup.js over profileKeys.js.  user and local, the    *)
(* browser's storage, are shared with the other tab; bound is the identity *)
(* the page was loaded for.                                                *)

NoJob == [st |-> "none"]
NothingSynced == [user |-> "nobody"]
Empty == [k \in ProfileKeys |-> None]

\* setProfileStorageItem.
Edit(k) ==
  /\ dev.ready /\ dev.bound = dev.user
  /\ spent.edits < limit.edits
  /\ dev' = [dev EXCEPT !.local[k] = [by |-> dev.user, n |-> spent.edits + 1],
                        !.dirty = @ \cup {k}]
  /\ spent' = [spent EXCEPT !.edits = @ + 1]
  /\ UNCHANGED <<prof, patches, stored>>

\* pushProfileToServer, on a change of view, 300 ms after an edit or when the
\* page is hidden: what to save is fixed when the push is queued.
Push ==
  /\ dev.ready /\ spent.pushes < limit.pushes
  /\ dev' = [dev EXCEPT !.queue = Append(@, [user |-> dev.user, snap |-> dev.local, dirty |-> dev.dirty])]
  /\ spent' = [spent EXCEPT !.pushes = @ + 1]
  /\ UNCHANGED <<prof, patches, stored>>

Job(kind, save) ==
  [kind |-> kind, user |-> save.user, login |-> spent.logins, snap |-> save.snap, dirty |-> save.dirty,
   st |-> IF kind = "push" /\ dev.synced.user = save.user THEN "planning" ELSE "getting",
   again |-> FALSE, req |-> 0, ans |-> [kind |-> "none"]]

RunSave ==
  /\ dev.job = NoJob /\ dev.queue # <<>>
  /\ dev' = [dev EXCEPT !.job = Job("push", Head(dev.queue)), !.queue = Tail(@)]
  /\ UNCHANGED <<prof, patches, stored, spent>>

\* pullProfileFromServer, before the application is mounted.
Pull ==
  /\ ~dev.ready /\ dev.job = NoJob
  /\ dev' = [dev EXCEPT !.job = Job("pull", [user |-> dev.user, snap |-> dev.local, dirty |-> dev.dirty])]
  /\ UNCHANGED <<prof, patches, stored, spent>>

GetProfile ==
  /\ dev.job.st = "getting"
  /\ dev' = [dev EXCEPT !.job.st = "got", !.job.ans = [kind |-> "ok", payload |-> Payload(dev.job.user)]]
  /\ UNCHANGED <<prof, patches, stored, spent>>

Synced(payload) == [user |-> dev.job.user, data |-> payload.data, rev |-> payload.rev]

IdentityStillCurrent_Assumed == TRUE

\* The user name and the token, one per login, are those the pull began with.
IdentityStillCurrent == dev.user = dev.job.user /\ dev.job.login = spent.logins

\* importProfile with replace, and the journal cleared.
Imported(d, payload) ==
  [d EXCEPT !.local = payload.data, !.dirty = {}, !.ready = TRUE, !.job = NoJob]

Dropped(d) == [d EXCEPT !.job = NoJob]

\* resolveAuthenticatedBootstrap: nothing is imported, but the application starts.
Superseded(d) == [Dropped(d) EXCEPT !.ready = TRUE]

Recovers_Never == FALSE

\* The pull found a journal, which is pushed before anything is imported.
Recovers == dev.job.dirty # {}

GotProfile ==
  /\ dev.job.st = "got"
  /\ LET remembered == [dev EXCEPT !.synced = Synced(dev.job.ans.payload)]
     IN dev' = IF dev.job.kind = "pull" /\ ~IdentityStillCurrent THEN Superseded(remembered)
               ELSE IF dev.job.kind = "pull" /\ ~Recovers
                 THEN Imported(remembered, dev.job.ans.payload)
               ELSE [remembered EXCEPT !.job.st = "planning"]
  /\ UNCHANGED <<prof, patches, stored, spent>>

\* patchForSnapshot: the journal's keys, or without a journal whatever differs
\* from the last profile the server sent.
KeysToSend ==
  IF dev.job.dirty # {} THEN dev.job.dirty
  ELSE {k \in ProfileKeys : dev.job.snap[k] # dev.synced.data[k]}

SendPatch ==
  /\ dev.job.st = "planning" /\ KeysToSend # {}
  /\ spent.reqs < limit.reqs
  /\ patches' = patches \cup
       {[id |-> spent.reqs + 1, user |-> dev.job.user, st |-> "sent", tries |-> 1,
         patch |-> [k \in KeysToSend |-> dev.job.snap[k]],
         want |-> [k \in KeysToSend |-> dev.synced.rev[k]],
         journal |-> dev.job.dirty, base |-> [write |-> 0]]}
  /\ dev' = [dev EXCEPT !.job.st = "patching", !.job.req = spent.reqs + 1,
                        !.job.ans = [kind |-> "none"]]
  /\ spent' = [spent EXCEPT !.reqs = @ + 1]
  /\ UNCHANGED <<prof, stored>>

ConfirmedPush_ClearsAll(d) == [Dropped(d) EXCEPT !.dirty = IF d.user = d.job.user THEN {} ELSE @]

\* A confirmed push clears the journal unless something was edited since.
ConfirmedPush(d) ==
  [Dropped(d) EXCEPT !.dirty = IF d.user = d.job.user /\ d.local = d.job.snap THEN {} ELSE @]

NothingToSend ==
  /\ dev.job.st = "planning" /\ KeysToSend = {}
  /\ dev' = ConfirmedPush(dev)
  /\ UNCHANGED <<prof, patches, stored, spent>>

PatchDone ==
  /\ dev.job.st = "patching" /\ dev.job.ans.kind = "ok"
  /\ LET remembered == [dev EXCEPT !.synced = Synced(dev.job.ans.payload)]
     IN dev' = IF dev.job.kind = "push" THEN ConfirmedPush(remembered)
               ELSE IF ~IdentityStillCurrent THEN Superseded(remembered)
               ELSE Imported(remembered, dev.job.ans.payload)
  /\ UNCHANGED <<prof, patches, stored, spent>>

\* The first 409 carries the profile to try again from.
PatchRefused ==
  /\ dev.job.st = "patching" /\ dev.job.ans.kind = "conflict" /\ ~dev.job.again
  /\ dev' = [dev EXCEPT !.synced = Synced(dev.job.ans.payload),
               !.job.st = "planning", !.job.again = TRUE]
  /\ UNCHANGED <<prof, patches, stored, spent>>

\* A lost answer, a timeout, a second 409 or an error: the journal stays.
SaveFails ==
  /\ dev.job.st \in {"getting", "got", "patching"}
  /\ dev' = IF dev.job.kind = "pull" /\ ~IdentityStillCurrent THEN Superseded(dev) ELSE Dropped(dev)
  /\ UNCHANGED <<prof, patches, stored, spent>>

ReloadPage ==
  /\ spent.reloads < limit.reloads
  /\ dev' = [dev EXCEPT !.ready = FALSE, !.bound = dev.user, !.job = NoJob, !.queue = <<>>,
                        !.synced = NothingSynced]
  /\ spent' = [spent EXCEPT !.reloads = @ + 1]
  /\ UNCHANGED <<prof, patches, stored>>

\* saveSession in another tab.  This page reloads only if the user is another,
\* and when the event arrives, which it has done before anybody logs in again.
LoginElsewhere(u) ==
  /\ dev.user = dev.bound /\ spent.logins < limit.logins
  /\ dev' = [dev EXCEPT !.user = u, !.local = Empty, !.dirty = {}]
  /\ spent' = [spent EXCEPT !.logins = @ + 1]
  /\ UNCHANGED <<prof, patches, stored>>

-----------------------------------------------------------------------------
ProfileInit ==
  /\ prof = [u \in Users |-> [data |-> Empty, rev |-> [k \in ProfileKeys |-> 0], write |-> 0]]
  /\ patches = {}
  /\ dev = [user |-> FirstUser, bound |-> FirstUser, ready |-> FALSE, local |-> Empty,
            dirty |-> {}, synced |-> NothingSynced, queue |-> <<>>, job |-> NoJob]
  /\ stored = {None}
  /\ spent = [edits |-> 0, pushes |-> 0, reqs |-> 0, reloads |-> 0, logins |-> 0]
  /\ limit \in Limits

ProfileServer == \E p \in patches :
  PatchConflict(p) \/ PatchRead(p) \/ PatchWrite(p) \/ PatchLost(p)

Saving == RunSave \/ Pull \/ GetProfile \/ GotProfile \/ SendPatch \/ NothingToSend
            \/ PatchDone \/ PatchRefused \/ SaveFails

ProfileNext ==
  /\ \/ ProfileServer
     \/ \E u \in Users, k \in ProfileKeys : OtherDevice(u, k)
     \/ \E k \in ProfileKeys : Edit(k)
     \/ Push \/ Saving \/ ReloadPage
     \/ \E u \in Users : LoginElsewhere(u)
  /\ UNCHANGED limit

ProfileSpec == ProfileInit /\ [][ProfileNext]_profileVars

-----------------------------------------------------------------------------
\* A key leaves the journal only after the store has held the value that the
\* page shows: no failure, reload, retry or edit made during a save loses an
\* edit without trace (pushProfileToServer's comparison with its snapshot,
\* pullProfileFromServer's recovery of the journal).
NoEditForgotten == \A k \in ProfileKeys : dev.local[k] \in stored \/ k \in dev.dirty

\* What the page shows is replaced, by an import or in any way but an edit or a
\* new login, which clears the storage on purpose, only when the store has held
\* it (wasDirty in pullProfileFromServer).
NoEditOverwritten ==
  [][\A k \in ProfileKeys : dev'.local[k] # dev.local[k] =>
       \/ dev.local[k] \in stored
       \/ Edit(k)
       \/ \E u \in Users : LoginElsewhere(u)]_profileVars

\* What another account left in flight in this page never reaches the storage
\* or the document of the account logged in since.
OwnValuesOnly ==
  /\ \A k \in ProfileKeys : dev.local[k] = None \/ dev.local[k].by = dev.user
  /\ \A u \in Users, k \in ProfileKeys : prof[u].data[k] = None \/ prof[u].data[k].by = u

\* A PATCH changes the keys it names, each from the revision its page knew, and
\* puts no other key back to what it was when the handler read the profile.
NoBlindWrite ==
  [][\A u \in Users, k \in ProfileKeys : prof'[u].data[k] # prof[u].data[k] /\ spent' = spent =>
       \E p \in patches \ patches' : p.user = u /\ k \in DOMAIN p.patch
         /\ prof'[u].data[k] = p.patch[k] /\ p.want[k] = prof[u].rev[k]]_profileVars

\* A revision of a key stands for one value of it: a profile that the page or
\* an unfinished PATCH holds is never ahead of the document, and agrees with it
\* on every key whose revision is still the same.  So a PATCH that no 409
\* refuses (want != actual in Patch) replaces the value that came with the
\* revision it names, whoever else writes: the last one received, or that of the
\* 409 before its retry, which sends the same edit whatever that value is.
Agrees(u, profile) ==
  \A k \in ProfileKeys :
    /\ profile.rev[k] <= prof[u].rev[k]
    /\ profile.rev[k] = prof[u].rev[k] => profile.data[k] = prof[u].data[k]

RevisionPinsValue ==
  /\ dev.synced # NothingSynced => Agrees(dev.synced.user, dev.synced)
  /\ dev.job # NoJob /\ dev.job.ans.kind # "none" => Agrees(dev.job.user, dev.job.ans.payload)
  /\ \A p \in patches : p.st = "read" => Agrees(p.user, p.base)

\* The header of profileBackup.js: tabs that touch different things are
\* merged, and only the keys a page really changed are written.
OnlyEditedKeysAreWritten ==
  [][\A p \in patches : PatchWrite(p) => DOMAIN p.patch \subseteq p.journal]_profileVars
=============================================================================
