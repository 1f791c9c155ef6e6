--------------------------- MODULE ProfileSyncProofs ---------------------------
(***************************************************************************)
(* What the profile keeps for any users, keys, edits, pushes and requests:  *)
(* nothing edited is forgotten, accounts do not mix, and no PATCH writes a   *)
(* key that it did not name and know.                                       *)
(***************************************************************************)
EXTENDS ProfileSync, TLAPS

\* Values of u, and those that a store which has held S may give out.
Val(u) == {None} \cup [by : {u}, n : Nat]
Data(u) == [ProfileKeys -> Val(u)]
Held(u, S) == [ProfileKeys -> Val(u) \cap S]
Revs == [ProfileKeys -> Nat]
PayloadIn(u, S) == [data : Held(u, S), rev : Revs]
DocIn(u, S) == [data : Held(u, S), rev : Revs, write : Nat]

\* What is not in the journal has been stored.
Journaled(snap, dirty, S) == \A k \in ProfileKeys : snap[k] \in S \/ k \in dirty

SaveOf(u, S) ==
  {s \in [user : {u}, snap : Data(u), dirty : SUBSET ProfileKeys] : Journaled(s.snap, s.dirty, S)}
SaveIn(S) == UNION {SaveOf(u, S) : u \in Users}

SyncedOf(u, S) == [user : {u}, data : Held(u, S), rev : Revs]
SyncedIn(S) == {NothingSynced} \cup UNION {SyncedOf(u, S) : u \in Users}

AnswerOf(u, S) ==
  {[kind |-> "none"]} \cup [kind : {"ok", "conflict", "unavailable"}, payload : PayloadIn(u, S)]

JobOf(u, S) ==
  {j \in [kind : {"push", "pull"}, user : {u}, login : Nat, snap : Data(u), dirty : SUBSET ProfileKeys,
          st : {"getting", "got", "planning", "patching"}, again : BOOLEAN, req : Nat,
          ans : AnswerOf(u, S)] : Journaled(j.snap, j.dirty, S)}
JobIn(S) == {NoJob} \cup UNION {JobOf(u, S) : u \in Users}

PageOf(u, S) ==
  [user : {u}, bound : Users, ready : BOOLEAN, local : Data(u), dirty : SUBSET ProfileKeys,
   synced : SyncedIn(S), queue : Seq(SaveIn(S)), job : JobIn(S)]

Portions(V) == UNION {[K -> V] : K \in SUBSET ProfileKeys}

PatchOf(u, S) ==
  [id : Nat, user : {u}, st : {"sent", "read"}, tries : Nat, patch : Portions(Val(u)),
   want : Portions(Nat), journal : SUBSET ProfileKeys, base : {[write |-> 0]} \cup DocIn(u, S)]

\* What a PATCH that has read the document knows of it.
Informed(p, doc, S) ==
  /\ p.base \in DocIn(p.user, S)
  /\ p.base.write <= doc.write
  /\ p.base.write = doc.write => p.base = doc
  /\ \A k \in DOMAIN p.patch : p.want[k] = p.base.rev[k]

PatchOK(p, pr, S, r) ==
  /\ p.user \in Users /\ p \in PatchOf(p.user, S) /\ p.id <= r
  /\ p.st = "read" => Informed(p, pr[p.user], S)

\* The PATCH that a save waits for carries its journal.
Serves(p, j) ==
  p.user = j.user /\ \A k \in j.dirty : k \in DOMAIN p.patch /\ p.patch[k] = j.snap[k]

JobOK(j, y, ps, S, r) ==
  /\ j.st \in {"planning", "patching"} => y.user = j.user
  /\ j.st = "got" => j.ans.kind = "ok"
  /\ j.st = "patching" =>
       /\ j.req <= r
       /\ j.ans.kind = "ok" => \A k \in ProfileKeys : j.snap[k] \in S
       /\ \A p \in ps : p.id = j.req => Serves(p, j)

PageOK(d, ps, S, r) ==
  /\ d.user \in Users /\ d \in PageOf(d.user, S)
  /\ Journaled(d.local, d.dirty, S)
  /\ JobOK(d.job, d.synced, ps, S, r)

ProfOK(pr, S) == DOMAIN pr = Users /\ \A u \in Users : pr[u] \in DocIn(u, S)

Spending == [edits : Nat, pushes : Nat, reqs : Nat, reloads : Nat, logins : Nat]

IInv ==
  /\ spent \in Spending /\ None \in stored
  /\ ProfOK(prof, stored)
  /\ \A p \in patches : PatchOK(p, prof, stored, spent.reqs)
  /\ PageOK(dev, patches, stored, spent.reqs)

-----------------------------------------------------------------------------
(* The store only learns values.                                           *)

LEMMA Wider ==
  ASSUME NEW S, NEW T, S \subseteq T
  PROVE  /\ \A u \in Users : /\ PayloadIn(u, S) \subseteq PayloadIn(u, T)
                             /\ DocIn(u, S) \subseteq DocIn(u, T)
                             /\ PatchOf(u, S) \subseteq PatchOf(u, T)
         /\ \A u \in Users : PageOf(u, S) \subseteq PageOf(u, T)
         /\ \A f, d : Journaled(f, d, S) => Journaled(f, d, T)
<1>1. \A f, d : Journaled(f, d, S) => Journaled(f, d, T)
  BY DEF Journaled
<1>2. ASSUME NEW u \in Users
      PROVE  /\ PayloadIn(u, S) \subseteq PayloadIn(u, T)
             /\ DocIn(u, S) \subseteq DocIn(u, T)
             /\ SyncedOf(u, S) \subseteq SyncedOf(u, T)
             /\ SaveOf(u, S) \subseteq SaveOf(u, T)
             /\ AnswerOf(u, S) \subseteq AnswerOf(u, T)
  <2>1. Held(u, S) \subseteq Held(u, T)
    BY DEF Held
  <2>2. PayloadIn(u, S) \subseteq PayloadIn(u, T) /\ DocIn(u, S) \subseteq DocIn(u, T)
          /\ SyncedOf(u, S) \subseteq SyncedOf(u, T)
    BY <2>1 DEF PayloadIn, DocIn, SyncedOf
  <2>3. SaveOf(u, S) \subseteq SaveOf(u, T)
    BY <1>1 DEF SaveOf
  <2> QED BY <2>2, <2>3 DEF AnswerOf
<1>3. ASSUME NEW u \in Users PROVE JobOf(u, S) \subseteq JobOf(u, T)
  BY <1>1, <1>2 DEF JobOf
<1>4. SaveIn(S) \subseteq SaveIn(T) /\ SyncedIn(S) \subseteq SyncedIn(T) /\ JobIn(S) \subseteq JobIn(T)
  BY <1>2, <1>3 DEF SaveIn, SyncedIn, JobIn
<1>5. Seq(SaveIn(S)) \subseteq Seq(SaveIn(T))
  BY <1>4
<1>6. \A u \in Users : PageOf(u, S) \subseteq PageOf(u, T)
  BY <1>4, <1>5 DEF PageOf
<1>7. \A u \in Users : PatchOf(u, S) \subseteq PatchOf(u, T)
  BY <1>2 DEF PatchOf
<1> QED BY <1>1, <1>2, <1>6, <1>7

\* The page does not notice what the server makes of its requests, nor what
\* others write.
LEMMA PageStays ==
  ASSUME NEW d, NEW ps, NEW S, NEW r \in Nat, PageOK(d, ps, S, r),
         NEW qs, NEW T, NEW n \in Nat, S \subseteq T, r <= n,
         \A q \in qs : \E p \in ps : q.id = p.id /\ q.user = p.user /\ q.patch = p.patch
  PROVE  PageOK(d, qs, T, n)
<1>1. d \in PageOf(d.user, T) /\ Journaled(d.local, d.dirty, T)
  BY Wider DEF PageOK
<1>2. d.job.st = "patching" => d.job.req \in Nat
  <2>1. d.job \in JobIn(S)
    BY DEF PageOK, PageOf
  <2> QED BY <2>1 DEF JobIn, JobOf, NoJob
<1>3. JobOK(d.job, d.synced, qs, T, n)
  BY <1>2 DEF PageOK, JobOK, Serves
<1> QED BY <1>1, <1>3 DEF PageOK

-----------------------------------------------------------------------------
(* The server.                                                             *)

LEMMA AnsweredOK ==
  ASSUME IInv, NEW p \in patches, NEW kind \in {"ok", "conflict", "unavailable"}, NEW payload,
         AnswerPatch(p, kind, payload),
         stored \subseteq stored', payload \in PayloadIn(p.user, stored'),
         kind = "ok" => \A k \in DOMAIN p.patch : p.patch[k] \in stored'
  PROVE  PageOK(dev, patches, stored, spent.reqs)'
<1>1. PageOK(dev, patches, stored, spent.reqs) /\ spent.reqs \in Nat /\ patches' \subseteq patches
      /\ spent' = spent
  BY DEF IInv, Spending, AnswerPatch
<1>2. PageOK(dev, patches', stored', spent'.reqs)
  BY <1>1, PageStays
<1>3. CASE ~(dev.job.st = "patching" /\ dev.job.req = p.id)
  BY <1>2, <1>3 DEF AnswerPatch
<1>4. CASE dev.job.st = "patching" /\ dev.job.req = p.id
  <2> DEFINE j == dev.job
             a == [kind |-> kind, payload |-> payload]
             q == [j EXCEPT !.ans = a]
  <2>1. Serves(p, j)
    BY <1>1, <1>4 DEF PageOK, JobOK
  <2>2. dev' = [dev EXCEPT !.job = q]
    BY <1>4 DEF AnswerPatch
  <2>3. dev \in PageOf(dev.user, stored') /\ j \in JobIn(stored') /\ j # NoJob
    BY <1>2, <1>4 DEF PageOK, PageOf, NoJob
  <2>4. PICK u \in Users : j \in JobOf(u, stored')
    BY <2>3 DEF JobIn
  <2>5. j.user = u /\ p.user = u
    BY <2>1, <2>4 DEF JobOf, Serves
  <2>6. a \in AnswerOf(u, stored') /\ a.kind = kind
    BY <2>5 DEF AnswerOf
  <2> HIDE DEF a
  <2>7. /\ q \in JobOf(u, stored') /\ q.ans = a /\ q.st = "patching" /\ q.req = j.req
        /\ q.user = j.user /\ q.snap = j.snap /\ q.dirty = j.dirty
    BY <1>4, <2>4, <2>6 DEF JobOf
  <2>8. kind = "ok" => \A k \in ProfileKeys : q.snap[k] \in stored'
    <3>1. Journaled(j.snap, j.dirty, stored')
      BY <2>4 DEF JobOf
    <3> QED BY <2>1, <2>7, <3>1 DEF Journaled, Serves
  <2> HIDE DEF q
  <2>9. /\ dev' \in PageOf(dev.user, stored') /\ dev'.job = q /\ dev'.synced = dev.synced
        /\ dev'.user = dev.user /\ dev'.local = dev.local /\ dev'.dirty = dev.dirty
    <3>1. q \in JobIn(stored')
      BY <2>7 DEF JobIn
    <3> QED BY <2>2, <2>3, <3>1 DEF PageOf
  <2> HIDE DEF j
  <2>10. JobOK(q, dev.synced, patches', stored', spent'.reqs)
    <3>1. JobOK(j, dev.synced, patches', stored', spent'.reqs)
      BY <1>2 DEF PageOK, j
    <3> QED BY <1>4, <2>6, <2>7, <2>8, <3>1 DEF JobOK, Serves, j
  <2> QED BY <1>2, <2>9, <2>10 DEF PageOK
<1> QED BY <1>3, <1>4

\* PATCHes of which each has the identity and the keys of one there was.
LEMMA StoreStays ==
  ASSUME IInv, UNCHANGED <<prof, stored, spent>>,
         PageOK(dev, patches, stored, spent.reqs)',
         \A p \in patches' : p \in patches \/ PatchOK(p, prof, stored, spent.reqs)
  PROVE  IInv'
<1>1. \A p \in patches' : PatchOK(p, prof', stored', spent'.reqs)
  BY DEF IInv
<1>2. \A p \in patches' : PatchOK(p, prof, stored, spent.reqs)'
  BY <1>1 DEF PatchOK, Informed, PatchOf, DocIn, Held
<1> QED BY <1>2 DEF IInv, ProfOK, DocIn, Held

LEMMA RefusedOK ==
  ASSUME IInv, NEW p \in patches,
         PatchConflict(p) \/ (PatchLost(p) /\ ~(p.tries < PatchAttempts))
  PROVE  IInv'
<1>1. p.user \in Users /\ UNCHANGED <<prof, stored, spent>> /\ patches' \subseteq patches
  BY DEF IInv, PatchOK, PatchConflict, PatchLost, AnswerPatch
<1>2. Payload(p.user) \in PayloadIn(p.user, stored')
  BY <1>1 DEF IInv, ProfOK, Payload, PayloadIn, DocIn
<1>3. AnswerPatch(p, "conflict", Payload(p.user)) \/ AnswerPatch(p, "unavailable", Payload(p.user))
  BY DEF PatchConflict, PatchLost
<1>4. PageOK(dev, patches, stored, spent.reqs)'
  BY <1>1, <1>2, <1>3, AnsweredOK
<1> QED BY <1>1, <1>4, StoreStays

\* A PATCH that goes on.
LEMMA MovedOK ==
  ASSUME IInv, NEW p \in patches, NEW q, patches' = (patches \ {p}) \cup {q},
         UNCHANGED <<prof, dev, stored, spent>>,
         PatchOK(q, prof, stored, spent.reqs), q.id = p.id, q.user = p.user, q.patch = p.patch
  PROVE  IInv'
<1>1. PageOK(dev, patches, stored, spent.reqs) /\ spent.reqs \in Nat
  BY DEF IInv, Spending
<1>2. \A x \in patches' : \E y \in patches : x.id = y.id /\ x.user = y.user /\ x.patch = y.patch
  OBVIOUS
<1>3. PageOK(dev, patches', stored, spent.reqs)
  BY <1>1, <1>2, PageStays
<1>4. PageOK(dev, patches, stored, spent.reqs)'
  BY <1>3 DEF PageOK, PageOf, JobOK, Serves
<1> QED BY <1>4, StoreStays

LEMMA ReadOK ==
  ASSUME IInv, NEW p \in patches, PatchRead(p)
  PROVE  IInv'
<1> DEFINE doc == prof[p.user]
           q == [p EXCEPT !.st = "read", !.base = doc]
<1>1. p.user \in Users /\ p \in PatchOf(p.user, stored) /\ p.id <= spent.reqs
  BY DEF IInv, PatchOK
<1>2. doc \in DocIn(p.user, stored) /\ doc.write \in Nat
  BY <1>1 DEF IInv, ProfOK, DocIn
<1>3. \A k \in DOMAIN p.patch : p.want[k] = doc.rev[k]
  BY DEF PatchRead, Conflicts
<1>4. patches' = (patches \ {p}) \cup {q} /\ UNCHANGED <<prof, dev, stored, spent>>
  BY DEF PatchRead
<1> HIDE DEF doc
<1>5. /\ q \in PatchOf(p.user, stored) /\ q.id = p.id /\ q.user = p.user /\ q.patch = p.patch
      /\ q.want = p.want /\ q.base = doc
  BY <1>1, <1>2 DEF PatchOf
<1> HIDE DEF q
<1>6. Informed(q, doc, stored)
  BY <1>2, <1>3, <1>5 DEF Informed
<1>7. PatchOK(q, prof, stored, spent.reqs)
  BY <1>1, <1>5, <1>6 DEF PatchOK, doc
<1> QED BY <1>4, <1>5, <1>7, MovedOK

LEMMA RetriedOK ==
  ASSUME IInv, NEW p \in patches, PatchLost(p), p.tries < PatchAttempts
  PROVE  IInv'
<1> DEFINE q == [p EXCEPT !.st = "sent", !.tries = @ + 1]
<1>1. p.user \in Users /\ p \in PatchOf(p.user, stored) /\ p.id <= spent.reqs
  BY DEF IInv, PatchOK
<1>2. patches' = (patches \ {p}) \cup {q} /\ UNCHANGED <<prof, dev, stored, spent>>
  BY DEF PatchLost
<1>3. /\ q \in PatchOf(p.user, stored) /\ q.id = p.id /\ q.user = p.user /\ q.patch = p.patch
      /\ q.st = "sent"
  <2>1. p.tries + 1 \in Nat
    BY <1>1 DEF PatchOf
  <2> DEFINE n == p.tries + 1
  <2> HIDE DEF n
  <2>2. q = [p EXCEPT !.st = "sent", !.tries = n]
    BY DEF n
  <2> QED BY <1>1, <2>1, <2>2 DEF PatchOf, n
<1> HIDE DEF q
<1>4. PatchOK(q, prof, stored, spent.reqs)
  BY <1>1, <1>3 DEF PatchOK
<1> QED BY <1>2, <1>3, <1>4, MovedOK

-----------------------------------------------------------------------------
(* Writes of the document.                                                 *)

\* The document made from doc by writing values of u that are stored now.
LEMMA PatchedOK ==
  ASSUME NEW u \in Users, NEW S, NEW doc \in DocIn(u, S), NEW K \in SUBSET ProfileKeys,
         NEW patch \in [K -> Val(u)], \A k \in K : patch[k] \in S
  PROVE  LET new == Patched(doc, patch)
         IN /\ new \in DocIn(u, S) /\ new.write = doc.write + 1
            /\ \A k \in ProfileKeys : new.data[k] = IF k \in K THEN patch[k] ELSE doc.data[k]
<1>1. doc.data \in Held(u, S) /\ doc.rev \in Revs /\ doc.write \in Nat
  BY DEF DocIn
<1>2. [k \in ProfileKeys |-> IF k \in DOMAIN patch THEN patch[k] ELSE doc.data[k]] \in Held(u, S)
  BY <1>1 DEF Held
<1>3. [k \in ProfileKeys |-> IF k \in DOMAIN patch THEN doc.rev[k] + 1 ELSE doc.rev[k]] \in Revs
  BY <1>1 DEF Revs
<1> QED BY <1>1, <1>2, <1>3 DEF Patched, DocIn

\* A document that has moved on leaves the PATCHes of everybody informed.
LEMMA Overtaken ==
  ASSUME IInv, NEW u \in Users, NEW T, stored \subseteq T, NEW new \in DocIn(u, T),
         new.write = prof[u].write + 1, NEW r \in Nat, spent.reqs <= r, NEW p \in patches
  PROVE  PatchOK(p, [prof EXCEPT ![u] = new], T, r)
<1>1. PatchOK(p, prof, stored, spent.reqs) /\ spent.reqs \in Nat /\ p.id \in Nat
  BY DEF IInv, Spending, PatchOK, PatchOf
<1>2. p.user \in Users /\ p \in PatchOf(p.user, T) /\ p.id <= r
  <2>1. p.user \in Users /\ p \in PatchOf(p.user, stored) /\ p.id <= spent.reqs
    BY <1>1 DEF PatchOK
  <2>2. p \in PatchOf(p.user, T)
    BY <2>1, Wider
  <2>3. p.id <= r
    BY <1>1, <2>1
  <2> QED BY <2>1, <2>2, <2>3
<1> DEFINE doc == [prof EXCEPT ![u] = new][p.user]
<1>3. p.st = "read" => Informed(p, doc, T)
  <2>1. SUFFICES ASSUME p.st = "read" PROVE Informed(p, doc, T)
    OBVIOUS
  <2>2. Informed(p, prof[p.user], stored) /\ p.base \in DocIn(p.user, T)
    BY <1>1, <1>2, <2>1, Wider DEF PatchOK, Informed
  <2>3. CASE p.user # u
    <3>1. doc = prof[p.user]
      BY <1>2, <2>3 DEF IInv, ProfOK
    <3> QED BY <2>2, <3>1 DEF Informed
  <2>4. CASE p.user = u
    <3>1. doc = new /\ prof[u].write \in Nat /\ p.base.write \in Nat
      BY <2>2, <2>4 DEF IInv, ProfOK, DocIn
    <3>2. p.base.write <= prof[u].write
      BY <2>2, <2>4 DEF Informed
    <3>3. p.base.write <= new.write /\ p.base.write # new.write
      BY <3>1, <3>2
    <3> QED BY <2>2, <3>1, <3>3 DEF Informed
  <2> QED BY <2>3, <2>4
<1> QED BY <1>2, <1>3 DEF PatchOK

LEMMA ReplacedOK ==
  ASSUME IInv, NEW u \in Users, stored \subseteq stored', NEW new \in DocIn(u, stored'),
         new.write = prof[u].write + 1, prof' = [prof EXCEPT ![u] = new],
         spent' \in Spending, spent.reqs <= spent'.reqs, patches' \subseteq patches,
         PageOK(dev, patches, stored, spent.reqs)'
  PROVE  IInv'
<1>1. ProfOK(prof', stored')
  BY Wider DEF IInv, ProfOK
<1>2. spent'.reqs \in Nat
  BY DEF Spending
<1>3. \A p \in patches' : PatchOK(p, prof', stored', spent'.reqs)
  BY <1>2, Overtaken
<1>4. \A p \in patches' : PatchOK(p, prof, stored, spent.reqs)'
  BY <1>3 DEF PatchOK, Informed, PatchOf, DocIn, Held
<1> QED BY <1>1, <1>4 DEF IInv, ProfOK, DocIn, Held

NotBlind ==
  \A u \in Users, k \in ProfileKeys : prof'[u].data[k] # prof[u].data[k] /\ spent' = spent =>
    \E p \in patches \ patches' : p.user = u /\ k \in DOMAIN p.patch
      /\ prof'[u].data[k] = p.patch[k] /\ p.want[k] = prof[u].rev[k]

LEMMA WriteOK ==
  ASSUME IInv, NEW p \in patches, PatchWrite(p)
  PROVE  IInv' /\ NotBlind
<1> DEFINE u == p.user
           new == Patched(p.base, p.patch)
<1>1. u \in Users /\ p \in PatchOf(u, stored) /\ Informed(p, prof[u], stored)
  BY DEF IInv, PatchOK, PatchWrite
<1>2. p.base = prof[u] /\ prof[u] \in DocIn(u, stored) /\ p.base \in DocIn(u, stored')
  <2>1. p.base = prof[u]
    BY <1>1 DEF Informed, PatchWrite, Unwritten
  <2>2. prof[u] \in DocIn(u, stored) /\ stored \subseteq stored'
    BY <1>1 DEF IInv, ProfOK, PatchWrite
  <2> QED BY <1>1, <2>1, <2>2, Wider
<1>3. PICK K \in SUBSET ProfileKeys : p.patch \in [K -> Val(u)]
  BY <1>1 DEF PatchOf, Portions
<1>4. \A k \in DOMAIN p.patch : p.patch[k] \in stored'
  BY DEF PatchWrite
<1>5. /\ new \in DocIn(u, stored') /\ new.write = prof[u].write + 1
      /\ \A k \in ProfileKeys : new.data[k] = IF k \in K THEN p.patch[k] ELSE prof[u].data[k]
  <2>1. \A k \in K : p.patch[k] \in stored'
    BY <1>3, <1>4
  <2>2. LET q == Patched(p.base, p.patch)
        IN /\ q \in DocIn(u, stored') /\ q.write = p.base.write + 1
           /\ \A k \in ProfileKeys : q.data[k] = IF k \in K THEN p.patch[k] ELSE p.base.data[k]
    <3> DEFINE doc == p.base
               patch == p.patch
               S == stored'
    <3>1. u \in Users /\ doc \in DocIn(u, S) /\ patch \in [K -> Val(u)] /\ \A k \in K : patch[k] \in S
      BY <1>1, <1>2, <1>3, <2>1
    <3> HIDE DEF u, doc, patch, S
    <3>2. LET q == Patched(doc, patch)
          IN /\ q \in DocIn(u, S) /\ q.write = doc.write + 1
             /\ \A k \in ProfileKeys : q.data[k] = IF k \in K THEN patch[k] ELSE doc.data[k]
      BY <3>1, PatchedOK
    <3> QED BY <3>2 DEF doc, patch, S
  <2> QED BY <1>2, <2>2
<1>6. prof' = [prof EXCEPT ![u] = new] /\ stored \subseteq stored' /\ DOMAIN prof = Users
  BY DEF PatchWrite, IInv, ProfOK
<1> HIDE DEF new
<1>7. prof'[u] = new /\ \A x \in Users : x # u => prof'[x] = prof[x]
  BY <1>1, <1>6
<1>8. /\ AnswerPatch(p, "ok", [data |-> new.data, rev |-> new.rev])
      /\ patches' = patches \ {p} /\ spent' = spent
  BY <1>7 DEF PatchWrite, AnswerPatch
<1>9. PageOK(dev, patches, stored, spent.reqs)'
  <2>1. [data |-> new.data, rev |-> new.rev] \in PayloadIn(u, stored')
    BY <1>5 DEF DocIn, PayloadIn
  <2> QED BY <1>4, <1>6, <1>8, <2>1, AnsweredOK
<1>10. IInv'
  <2>1. spent' \in Spending /\ spent.reqs <= spent'.reqs
    BY <1>8 DEF IInv, Spending
  <2> QED BY <1>1, <1>5, <1>6, <1>8, <1>9, <2>1, ReplacedOK
<1>11. NotBlind
  <2> SUFFICES ASSUME NEW x \in Users, NEW k \in ProfileKeys, prof'[x].data[k] # prof[x].data[k]
               PROVE  \E q \in patches \ patches' : q.user = x /\ k \in DOMAIN q.patch
                        /\ prof'[x].data[k] = q.patch[k] /\ q.want[k] = prof[x].rev[k]
    BY DEF NotBlind
  <2>1. x = u /\ k \in K
    BY <1>5, <1>7
  <2>2. k \in DOMAIN p.patch /\ prof'[x].data[k] = p.patch[k]
    BY <1>3, <1>5, <1>7, <2>1
  <2>3. p.want[k] = prof[x].rev[k]
    BY <1>1, <1>2, <2>1, <2>2 DEF Informed
  <2> QED BY <1>8, <2>1, <2>2, <2>3
<1> QED BY <1>10, <1>11

LEMMA DeviceOK ==
  ASSUME IInv, NEW u \in Users, NEW k \in ProfileKeys, OtherDevice(u, k)
  PROVE  IInv' /\ NotBlind
<1> DEFINE v == [by |-> u, n |-> spent.edits + 1]
           patch == [x \in {k} |-> v]
           new == Patched(prof[u], patch)
<1>1. spent \in Spending /\ spent.edits \in Nat /\ spent.edits + 1 \in Nat
      /\ spent.reqs \in Nat
  BY DEF IInv, Spending
<1>2. v \in Val(u) /\ stored' = stored \cup {v} /\ prof' = [prof EXCEPT ![u] = new]
      /\ patches' = patches /\ dev' = dev /\ spent' = [spent EXCEPT !.edits = @ + 1]
  BY <1>1 DEF OtherDevice, Val
<1> HIDE DEF v
<1>3. patch \in [{k} -> Val(u)] /\ \A x \in {k} : patch[x] \in stored'
  BY <1>2
<1>4. prof[u] \in DocIn(u, stored')
  BY <1>2, Wider DEF IInv, ProfOK
<1>5. new \in DocIn(u, stored') /\ new.write = prof[u].write + 1
  <2> HIDE DEF patch
  <2>1. {k} \in SUBSET ProfileKeys
    OBVIOUS
  <2> QED BY <1>3, <1>4, <2>1, PatchedOK
<1> HIDE DEF new
<1>6. spent' \in Spending /\ spent'.reqs = spent.reqs /\ spent' # spent
  <2>1. spent.edits + 1 # spent.edits
    BY <1>1
  <2>2. ASSUME NEW n \in Nat, n # spent.edits, spent' = [spent EXCEPT !.edits = n]
        PROVE  spent' \in Spending /\ spent'.reqs = spent.reqs /\ spent' # spent
    BY <1>1, <2>2 DEF Spending
  <2> QED BY <1>1, <1>2, <2>1, <2>2
<1>7. PageOK(dev, patches, stored, spent.reqs)'
  <2>1. PageOK(dev, patches, stored', spent.reqs)
    BY <1>1, <1>2, PageStays DEF IInv
  <2> QED BY <1>2, <1>6, <2>1
<1>8. IInv'
  <2>1. stored \subseteq stored' /\ patches' \subseteq patches /\ spent.reqs <= spent'.reqs
    BY <1>1, <1>2, <1>6
  <2>2. prof' = [prof EXCEPT ![u] = new]
    BY <1>2
  <2> QED BY <1>5, <1>6, <1>7, <2>1, <2>2, ReplacedOK
<1> QED BY <1>6, <1>8 DEF NotBlind

LEMMA ServerOK ==
  ASSUME IInv, ProfileServer
  PROVE  IInv' /\ NotBlind
<1> PICK p \in patches : PatchConflict(p) \/ PatchRead(p) \/ PatchWrite(p) \/ PatchLost(p)
  BY DEF ProfileServer
<1>1. prof' = prof => NotBlind
  BY DEF NotBlind
<1>2. CASE PatchWrite(p)
  BY <1>2, WriteOK
<1>3. CASE PatchConflict(p)
  BY <1>1, <1>3, RefusedOK DEF PatchConflict
<1>4. CASE PatchRead(p)
  BY <1>1, <1>4, ReadOK DEF PatchRead
<1>5. CASE PatchLost(p)
  <2>1. prof' = prof
    BY <1>5 DEF PatchLost
  <2> QED BY <1>1, <1>5, <2>1, RetriedOK, RefusedOK
<1> QED BY <1>2, <1>3, <1>4, <1>5

-----------------------------------------------------------------------------
(* The page.                                                               *)

LEMMA JobTypes ==
  ASSUME NEW S, NEW j \in JobIn(S), j # NoJob
  PROVE  /\ j.user \in Users /\ j \in JobOf(j.user, S)
         /\ j.snap \in Data(j.user) /\ j.dirty \in SUBSET ProfileKeys
         /\ Journaled(j.snap, j.dirty, S)
         /\ j.st \in {"getting", "got", "planning", "patching"}
         /\ j.ans \in AnswerOf(j.user, S)
         /\ j.ans.kind # "none" => j.ans.payload \in PayloadIn(j.user, S)
<1>1. PICK u \in Users : j \in JobOf(u, S)
  BY DEF JobIn
<1>2. j.user = u /\ j.ans \in AnswerOf(u, S)
  BY <1>1 DEF JobOf
<1>3. j.ans.kind # "none" => j.ans.payload \in PayloadIn(u, S)
  BY <1>2 DEF AnswerOf
<1> QED BY <1>1, <1>2, <1>3 DEF JobOf

LEMMA PageChanged ==
  ASSUME NEW d, NEW ps, NEW S, NEW r, PageOK(d, ps, S, r),
         NEW y \in SyncedIn(S), NEW j \in JobIn(S), JobOK(j, y, ps, S, r)
  PROVE  /\ PageOK([d EXCEPT !.synced = y, !.job = j], ps, S, r)
         /\ d.synced = y => PageOK([d EXCEPT !.job = j], ps, S, r)
<1>0. d \in PageOf(d.user, S)
  BY DEF PageOK
<1> DEFINE e == [d EXCEPT !.synced = y, !.job = j]
<1>1. /\ e \in PageOf(d.user, S) /\ e.user = d.user /\ e.local = d.local /\ e.dirty = d.dirty
      /\ e.synced = y /\ e.job = j
  BY <1>0 DEF PageOf
<1>2. d.synced = y => [d EXCEPT !.job = j] = e
  BY <1>0 DEF PageOf
<1> HIDE DEF e
<1>3. PageOK(e, ps, S, r)
  BY <1>1 DEF PageOK
<1> QED BY <1>2, <1>3 DEF e

LEMMA DroppedOK ==
  ASSUME NEW d, NEW ps, NEW S, NEW r, PageOK(d, ps, S, r)
  PROVE  PageOK(Dropped(d), ps, S, r)
<1>1. NoJob \in JobIn(S) /\ JobOK(NoJob, d.synced, ps, S, r) /\ d.synced \in SyncedIn(S)
  BY DEF JobIn, JobOK, NoJob, PageOK, PageOf
<1> QED BY <1>1, PageChanged DEF Dropped

LEMMA SupersededOK ==
  ASSUME NEW d, NEW ps, NEW S, NEW r, PageOK(d, ps, S, r)
  PROVE  PageOK(Superseded(d), ps, S, r)
<1> DEFINE e == Dropped(d)
           f == [e EXCEPT !.ready = TRUE]
<1>1. PageOK(e, ps, S, r)
  BY DroppedOK
<1> HIDE DEF e
<1>2. /\ f \in PageOf(e.user, S) /\ f.user = e.user /\ f.local = e.local /\ f.dirty = e.dirty
      /\ f.synced = e.synced /\ f.job = e.job
  BY <1>1 DEF PageOK, PageOf
<1> HIDE DEF f
<1>3. PageOK(f, ps, S, r)
  BY <1>1, <1>2 DEF PageOK
<1> QED BY <1>3 DEF Superseded, e, f

\* A page whose storage shows what the store has, and nothing unsaved.
LEMMA CleanOK ==
  ASSUME NEW d, NEW ps, NEW S, NEW r, PageOK(d, ps, S, r),
         \A k \in ProfileKeys : d.local[k] \in S
  PROVE  PageOK([d EXCEPT !.dirty = {}], ps, S, r)
<1> DEFINE e == [d EXCEPT !.dirty = {}]
<1>1. /\ e \in PageOf(d.user, S) /\ e.user = d.user /\ e.local = d.local
      /\ e.synced = d.synced /\ e.job = d.job
  BY DEF PageOK, PageOf
<1> HIDE DEF e
<1> QED BY <1>1 DEF PageOK, Journaled, e

LEMMA ConfirmedOK ==
  ASSUME NEW d, NEW ps, NEW S, NEW r, PageOK(d, ps, S, r),
         \A k \in ProfileKeys : d.job.snap[k] \in S
  PROVE  PageOK(ConfirmedPush(d), ps, S, r)
<1> DEFINE e == Dropped(d)
<1>0. d \in PageOf(d.user, S)
  BY DEF PageOK
<1>1. e \in PageOf(e.user, S) /\ PageOK(e, ps, S, r) /\ e.local = d.local
  BY <1>0, DroppedOK DEF Dropped, PageOK, PageOf
<1> HIDE DEF e
<1>2. CASE d.user = d.job.user /\ d.local = d.job.snap
  <2>1. PageOK([e EXCEPT !.dirty = {}], ps, S, r)
    BY <1>1, <1>2, CleanOK
  <2> QED BY <1>2, <2>1 DEF ConfirmedPush, e
<1>3. CASE ~(d.user = d.job.user /\ d.local = d.job.snap)
  <2>1. ConfirmedPush(d) = [e EXCEPT !.dirty = e.dirty]
    BY <1>3 DEF ConfirmedPush, e
  <2>2. [e EXCEPT !.dirty = e.dirty] = e
    BY <1>1 DEF PageOf
  <2> QED BY <1>1, <2>1, <2>2
<1> QED BY <1>2, <1>3

LEMMA ImportedOK ==
  ASSUME NEW d, NEW ps, NEW S, NEW r, PageOK(d, ps, S, r), NEW payload \in PayloadIn(d.user, S)
  PROVE  PageOK(Imported(d, payload), ps, S, r)
<1> DEFINE e == Imported(d, payload)
<1>1. payload.data \in Data(d.user) /\ \A k \in ProfileKeys : payload.data[k] \in S
  BY DEF PayloadIn, Held, Data
<1>2. d \in PageOf(d.user, S) /\ NoJob \in JobIn(S) /\ d.user \in Users
  BY DEF PageOK, JobIn
<1>3. /\ e \in PageOf(d.user, S) /\ e.user = d.user /\ e.local = payload.data /\ e.dirty = {}
      /\ e.job = NoJob
  BY <1>1, <1>2 DEF Imported, PageOf
<1>4. Journaled(e.local, e.dirty, S) /\ JobOK(e.job, e.synced, ps, S, r)
  BY <1>1, <1>3 DEF Journaled, JobOK, NoJob
<1> HIDE DEF e
<1> QED BY <1>2, <1>3, <1>4 DEF PageOK, e

\* lastSyncedRevisionedProfile.
LEMMA RememberedOK ==
  ASSUME IInv, dev.job # NoJob, NEW payload \in PayloadIn(dev.job.user, stored)
  PROVE  LET e == [dev EXCEPT !.synced = Synced(payload)]
         IN /\ PageOK(e, patches, stored, spent.reqs)
            /\ Synced(payload) \in SyncedIn(stored) /\ Synced(payload).user = dev.job.user
            /\ e.job = dev.job /\ e.user = dev.user
<1> DEFINE y == Synced(payload)
           e == [dev EXCEPT !.synced = y]
<1>1. /\ PageOK(dev, patches, stored, spent.reqs) /\ dev \in PageOf(dev.user, stored)
      /\ dev.job \in JobIn(stored)
  BY DEF IInv, PageOK, PageOf
<1>2. dev.job.user \in Users
  BY <1>1, JobTypes
<1>3. y \in SyncedIn(stored) /\ y.user = dev.job.user
  <2>1. y \in SyncedOf(dev.job.user, stored)
    BY DEF Synced, SyncedOf, PayloadIn
  <2> QED BY <1>2, <2>1 DEF SyncedIn, SyncedOf
<1> HIDE DEF y
<1>4. JobOK(dev.job, y, patches, stored, spent.reqs)
  BY <1>1, <1>3 DEF PageOK, JobOK
<1>5. e = [dev EXCEPT !.synced = y, !.job = dev.job] /\ e.job = dev.job /\ e.user = dev.user
  BY <1>1 DEF PageOf
<1> HIDE DEF e
<1>6. PageOK([dev EXCEPT !.synced = y, !.job = dev.job], patches, stored, spent.reqs)
  BY <1>1, <1>3, <1>4, PageChanged
<1> QED BY <1>3, <1>5, <1>6 DEF e, y

\* A step of the page alone.
LEMMA PageStep ==
  ASSUME IInv, UNCHANGED <<prof, patches, stored>>, spent' \in Spending, spent'.reqs = spent.reqs,
         PageOK(dev', patches, stored, spent.reqs)
  PROVE  IInv' /\ NotBlind
<1>1. PageOK(dev', patches', stored', spent'.reqs)
  OBVIOUS
<1>2. PageOK(dev, patches, stored, spent.reqs)'
  BY <1>1 DEF PageOK, PageOf, JobOK, Serves
<1>3. \A p \in patches' : PatchOK(p, prof, stored, spent.reqs)'
  BY DEF IInv, PatchOK, Informed, PatchOf, DocIn, Held
<1> QED BY <1>2, <1>3 DEF IInv, ProfOK, DocIn, Held, NotBlind

-----------------------------------------------------------------------------
(* Its actions.                                                            *)

LEMMA PageFacts ==
  ASSUME IInv
  PROVE  /\ spent \in Spending /\ spent.reqs \in Nat
         /\ PageOK(dev, patches, stored, spent.reqs)
         /\ dev.user \in Users /\ dev \in PageOf(dev.user, stored)
         /\ dev.local \in Data(dev.user) /\ dev.dirty \in SUBSET ProfileKeys
         /\ Journaled(dev.local, dev.dirty, stored)
         /\ dev.synced \in SyncedIn(stored) /\ dev.job \in JobIn(stored)
         /\ dev.queue \in Seq(SaveIn(stored))
         /\ JobOK(dev.job, dev.synced, patches, stored, spent.reqs)
BY DEF IInv, Spending, PageOK, PageOf

LEMMA EditOK ==
  ASSUME IInv, NEW k \in ProfileKeys, Edit(k)
  PROVE  IInv' /\ NotBlind
<1> DEFINE n == spent.edits + 1
           v == [by |-> dev.user, n |-> n]
           f == [dev.local EXCEPT ![k] = v]
           D == dev.dirty \cup {k}
<1>1. n \in Nat
  BY DEF IInv, Spending
<1>2. /\ UNCHANGED <<prof, patches, stored>> /\ spent' = [spent EXCEPT !.edits = n]
      /\ dev' = [dev EXCEPT !.local = f, !.dirty = D]
  BY DEF Edit
<1>3. f \in Data(dev.user) /\ D \in SUBSET ProfileKeys /\ Journaled(f, D, stored)
  <2>1. v \in Val(dev.user)
    BY <1>1 DEF Val
  <2> HIDE DEF v
  <2> QED BY <2>1, PageFacts DEF Data, Journaled
<1> HIDE DEF n, f, D
<1>4. spent' \in Spending /\ spent'.reqs = spent.reqs
  BY <1>1, <1>2, PageFacts DEF Spending
<1>5. PageOK(dev', patches, stored, spent.reqs)
  <2>1. /\ dev' \in PageOf(dev.user, stored) /\ dev'.user = dev.user /\ dev'.local = f
        /\ dev'.dirty = D /\ dev'.synced = dev.synced /\ dev'.job = dev.job
    BY <1>2, <1>3, PageFacts DEF PageOf
  <2> QED BY <1>3, <2>1, PageFacts DEF PageOK
<1> QED BY <1>2, <1>4, <1>5, PageStep

LEMMA PushOK ==
  ASSUME IInv, Push
  PROVE  IInv' /\ NotBlind
<1> DEFINE s == [user |-> dev.user, snap |-> dev.local, dirty |-> dev.dirty]
           n == spent.pushes + 1
<1>1. s \in SaveIn(stored) /\ n \in Nat
  <2>1. s \in SaveOf(dev.user, stored)
    BY PageFacts DEF SaveOf
  <2> QED BY <2>1, PageFacts DEF SaveIn, Spending
<1>2. /\ UNCHANGED <<prof, patches, stored>> /\ spent' = [spent EXCEPT !.pushes = n]
      /\ dev' = [dev EXCEPT !.queue = Append(@, s)]
  BY DEF Push
<1> HIDE DEF s, n
<1>3. spent' \in Spending /\ spent'.reqs = spent.reqs
  BY <1>1, <1>2, PageFacts DEF Spending
<1>4. PageOK(dev', patches, stored, spent.reqs)
  <2>1. Append(dev.queue, s) \in Seq(SaveIn(stored))
    BY <1>1, PageFacts
  <2>2. /\ dev' \in PageOf(dev.user, stored) /\ dev'.user = dev.user /\ dev'.local = dev.local
        /\ dev'.dirty = dev.dirty /\ dev'.synced = dev.synced /\ dev'.job = dev.job
    BY <1>2, <2>1, PageFacts DEF PageOf
  <2> QED BY <2>2, PageFacts DEF PageOK
<1> QED BY <1>2, <1>3, <1>4, PageStep

LEMMA JobStarts ==
  ASSUME IInv, NEW kind \in {"push", "pull"}, NEW s \in SaveIn(stored)
  PROVE  Job(kind, s) \in JobIn(stored) /\ JobOK(Job(kind, s), dev.synced, patches, stored, spent.reqs)
<1> DEFINE j == Job(kind, s)
<1>1. PICK u \in Users : s \in SaveOf(u, stored)
  BY DEF SaveIn
<1>2. s.user = u /\ s.snap \in Data(u) /\ s.dirty \in SUBSET ProfileKeys /\ Journaled(s.snap, s.dirty, stored)
  BY <1>1 DEF SaveOf
<1>3. j \in JobOf(u, stored)
  BY <1>2 DEF Job, JobOf, AnswerOf, IInv, Spending
<1>4. JobOK(j, dev.synced, patches, stored, spent.reqs)
  BY DEF Job, JobOK
<1> QED BY <1>3, <1>4 DEF JobIn

LEMMA StartsOK ==
  ASSUME IInv, RunSave \/ Pull
  PROVE  IInv' /\ NotBlind
<1>0. UNCHANGED <<prof, patches, stored, spent>> /\ dev.synced \in SyncedIn(stored)
  BY PageFacts DEF RunSave, Pull
<1>1. CASE RunSave
  <2> DEFINE j == Job("push", Head(dev.queue))
             d == [dev EXCEPT !.queue = Tail(@)]
  <2>1. Head(dev.queue) \in SaveIn(stored) /\ Tail(dev.queue) \in Seq(SaveIn(stored))
    BY <1>1, PageFacts DEF RunSave
  <2>2. j \in JobIn(stored) /\ JobOK(j, dev.synced, patches, stored, spent.reqs)
    BY <2>1, JobStarts
  <2>3. dev' = [d EXCEPT !.job = j]
    BY <1>1 DEF RunSave
  <2>4. PageOK(d, patches, stored, spent.reqs) /\ d.synced = dev.synced
    <3>1. /\ d \in PageOf(dev.user, stored) /\ d.user = dev.user /\ d.local = dev.local
          /\ d.dirty = dev.dirty /\ d.synced = dev.synced /\ d.job = dev.job
      BY <2>1, PageFacts DEF PageOf
    <3> HIDE DEF d
    <3> QED BY <3>1, PageFacts DEF PageOK
  <2> HIDE DEF j, d
  <2>5. PageOK(dev', patches, stored, spent.reqs)
    BY <1>0, <2>2, <2>3, <2>4, PageChanged
  <2> QED BY <1>0, <2>5, PageFacts, PageStep
<1>2. CASE Pull
  <2> DEFINE s == [user |-> dev.user, snap |-> dev.local, dirty |-> dev.dirty]
             j == Job("pull", s)
  <2>1. s \in SaveIn(stored)
    <3>1. s \in SaveOf(dev.user, stored)
      BY PageFacts DEF SaveOf
    <3> QED BY <3>1, PageFacts DEF SaveIn
  <2>2. dev' = [dev EXCEPT !.job = j]
    BY <1>2 DEF Pull
  <2> HIDE DEF s
  <2>3. j \in JobIn(stored) /\ JobOK(j, dev.synced, patches, stored, spent.reqs)
    BY <2>1, JobStarts
  <2> HIDE DEF j
  <2>4. PageOK(dev', patches, stored, spent.reqs)
    BY <1>0, <2>2, <2>3, PageFacts, PageChanged
  <2> QED BY <1>0, <2>4, PageFacts, PageStep
<1> QED BY <1>1, <1>2

LEMMA GetOK ==
  ASSUME IInv, GetProfile
  PROVE  IInv' /\ NotBlind
<1> DEFINE u == dev.job.user
           a == [kind |-> "ok", payload |-> Payload(u)]
           j == [dev.job EXCEPT !.st = "got", !.ans = a]
<1>0. dev.job # NoJob /\ UNCHANGED <<prof, patches, stored, spent>> /\ dev' = [dev EXCEPT !.job = j]
  <2>1. dev.job # NoJob /\ UNCHANGED <<prof, patches, stored, spent>>
    BY DEF GetProfile, NoJob
  <2>2. dev' = [dev EXCEPT !.job.st = "got", !.job.ans = a]
    BY DEF GetProfile
  <2> HIDE DEF a
  <2>3. dev' = [dev EXCEPT !.job = [dev.job EXCEPT !.st = "got", !.ans = a]]
    BY <2>2, PageFacts DEF PageOf
  <2> QED BY <2>1, <2>3
<1>1. u \in Users /\ dev.job \in JobOf(u, stored)
  BY <1>0, PageFacts, JobTypes
<1>2. a \in AnswerOf(u, stored) /\ a.kind = "ok"
  <2>1. Payload(u) \in PayloadIn(u, stored)
    BY <1>1 DEF IInv, ProfOK, Payload, PayloadIn, DocIn
  <2> QED BY <2>1 DEF AnswerOf
<1> HIDE DEF u, a
<1>3. j \in JobOf(u, stored) /\ j.st = "got" /\ j.ans = a
  BY <1>1, <1>2 DEF JobOf
<1> HIDE DEF j
<1>4. j \in JobIn(stored) /\ JobOK(j, dev.synced, patches, stored, spent.reqs)
  BY <1>1, <1>2, <1>3 DEF JobIn, JobOK
<1>5. PageOK(dev', patches, stored, spent.reqs)
  BY <1>0, <1>4, PageFacts, PageChanged
<1> QED BY <1>0, <1>5, PageFacts, PageStep

LEMMA GotOK ==
  ASSUME IInv, GotProfile
  PROVE  IInv' /\ NotBlind
<1> DEFINE payload == dev.job.ans.payload
           y == Synced(payload)
           e == [dev EXCEPT !.synced = y]
           j == [dev.job EXCEPT !.st = "planning"]
<1>0. dev.job # NoJob /\ dev.job.ans.kind = "ok" /\ UNCHANGED <<prof, patches, stored, spent>>
  BY PageFacts DEF GotProfile, NoJob, JobOK
<1>1. payload \in PayloadIn(dev.job.user, stored) /\ dev.job \in JobOf(dev.job.user, stored)
      /\ dev.job.user \in Users
  BY <1>0, PageFacts, JobTypes
<1>2. /\ PageOK(e, patches, stored, spent.reqs) /\ y \in SyncedIn(stored) /\ y.user = dev.job.user
      /\ e.job = dev.job /\ e.user = dev.user
  BY <1>0, <1>1, RememberedOK
<1>3. \/ dev' = Superseded(e)
      \/ dev.user = dev.job.user /\ dev' = Imported(e, payload)
      \/ dev' = [e EXCEPT !.job.st = "planning"]
  BY DEF GotProfile, IdentityStillCurrent
<1>4. CASE dev' = Superseded(e)
  BY <1>0, <1>2, <1>4, SupersededOK, PageFacts, PageStep
<1>5. CASE dev.user = dev.job.user /\ dev' = Imported(e, payload)
  <2>1. PageOK(Imported(e, payload), patches, stored, spent.reqs)
    BY <1>1, <1>2, <1>5, ImportedOK
  <2> QED BY <1>0, <1>5, <2>1, PageFacts, PageStep
<1>6. CASE dev' = [e EXCEPT !.job.st = "planning"]
  <2>1. e \in PageOf(dev.user, stored) /\ e.synced = y
    BY <1>2, PageFacts DEF PageOf
  <2>2. /\ j \in JobOf(dev.job.user, stored) /\ j.st = "planning" /\ j.user = dev.job.user
        /\ dev' = [e EXCEPT !.job = j]
    BY <1>1, <1>2, <1>6, <2>1 DEF JobOf, PageOf
  <2> HIDE DEF j, e, y, payload
  <2>3. j \in JobIn(stored) /\ JobOK(j, y, patches, stored, spent.reqs)
    BY <1>1, <1>2, <2>2 DEF JobIn, JobOK
  <2>4. PageOK(dev', patches, stored, spent.reqs)
    BY <1>2, <2>1, <2>2, <2>3, PageChanged
  <2> QED BY <1>0, <2>4, PageFacts, PageStep
<1> QED BY <1>3, <1>4, <1>5, <1>6

LEMMA NothingOK ==
  ASSUME IInv, NothingToSend
  PROVE  IInv' /\ NotBlind
<1>1. dev.job # NoJob /\ UNCHANGED <<prof, patches, stored, spent>> /\ dev' = ConfirmedPush(dev)
  BY DEF NothingToSend, NoJob
<1>2. dev.job.dirty = {}
  BY DEF NothingToSend, KeysToSend
<1>3. \A k \in ProfileKeys : dev.job.snap[k] \in stored
  BY <1>1, <1>2, PageFacts, JobTypes DEF Journaled
<1>4. PageOK(dev', patches, stored, spent.reqs)
  BY <1>1, <1>3, PageFacts, ConfirmedOK
<1> QED BY <1>1, <1>4, PageFacts, PageStep

LEMMA DoneOK ==
  ASSUME IInv, PatchDone
  PROVE  IInv' /\ NotBlind
<1> DEFINE payload == dev.job.ans.payload
           e == [dev EXCEPT !.synced = Synced(payload)]
<1>0. dev.job # NoJob /\ dev.job.ans.kind = "ok" /\ dev.job.st = "patching"
      /\ UNCHANGED <<prof, patches, stored, spent>>
  BY DEF PatchDone, NoJob
<1>1. payload \in PayloadIn(dev.job.user, stored)
  BY <1>0, PageFacts, JobTypes
<1>2. PageOK(e, patches, stored, spent.reqs) /\ e.job = dev.job /\ e.user = dev.user
  BY <1>0, <1>1, RememberedOK
<1>3. \A k \in ProfileKeys : dev.job.snap[k] \in stored
  BY <1>0, PageFacts DEF JobOK
<1>4. \/ dev' = ConfirmedPush(e) \/ dev' = Superseded(e)
      \/ dev.user = dev.job.user /\ dev' = Imported(e, payload)
  BY DEF PatchDone, IdentityStillCurrent
<1> HIDE DEF e, payload
<1>5. PageOK(dev', patches, stored, spent.reqs)
  BY <1>1, <1>2, <1>3, <1>4, ConfirmedOK, SupersededOK, ImportedOK
<1> QED BY <1>0, <1>5, PageFacts, PageStep

LEMMA ConflictOK ==
  ASSUME IInv, PatchRefused
  PROVE  IInv' /\ NotBlind
<1> DEFINE payload == dev.job.ans.payload
           y == Synced(payload)
           j == [dev.job EXCEPT !.st = "planning", !.again = TRUE]
<1>0. dev.job # NoJob /\ dev.job.ans.kind = "conflict" /\ UNCHANGED <<prof, patches, stored, spent>>
  BY DEF PatchRefused, NoJob
<1>1. payload \in PayloadIn(dev.job.user, stored) /\ dev.job \in JobOf(dev.job.user, stored)
      /\ dev.job.user \in Users
  BY <1>0, PageFacts, JobTypes
<1>2. y \in SyncedIn(stored) /\ y.user = dev.job.user
  BY <1>0, <1>1, RememberedOK
<1>3. dev' = [dev EXCEPT !.synced = y, !.job.st = "planning", !.job.again = TRUE]
  BY DEF PatchRefused
<1> HIDE DEF y, payload
<1>4. dev' = [dev EXCEPT !.synced = y, !.job = j]
  BY <1>3, PageFacts DEF PageOf
<1>5. j \in JobOf(dev.job.user, stored) /\ j.st = "planning" /\ j.user = dev.job.user
  BY <1>1 DEF JobOf
<1> HIDE DEF j
<1>6. j \in JobIn(stored) /\ JobOK(j, y, patches, stored, spent.reqs)
  BY <1>1, <1>2, <1>5 DEF JobIn, JobOK
<1>7. PageOK(dev', patches, stored, spent.reqs)
  BY <1>2, <1>4, <1>6, PageFacts, PageChanged
<1> QED BY <1>0, <1>7, PageFacts, PageStep

LEMMA LeavesOK ==
  ASSUME IInv, SaveFails \/ ReloadPage \/ \E u \in Users : LoginElsewhere(u)
  PROVE  IInv' /\ NotBlind
<1>1. CASE SaveFails
  BY <1>1, DroppedOK, SupersededOK, PageFacts, PageStep DEF SaveFails
<1>2. CASE ReloadPage
  <2>1. /\ UNCHANGED <<prof, patches, stored>> /\ spent' = [spent EXCEPT !.reloads = @ + 1]
        /\ dev' = [dev EXCEPT !.ready = FALSE, !.bound = dev.user, !.job = NoJob, !.queue = <<>>,
                               !.synced = NothingSynced]
    BY <1>2 DEF ReloadPage
  <2>2. spent' \in Spending /\ spent'.reqs = spent.reqs
    <3>1. spent.reloads + 1 \in Nat
      BY PageFacts DEF Spending
    <3>2. ASSUME NEW n \in Nat, spent' = [spent EXCEPT !.reloads = n]
          PROVE  spent' \in Spending /\ spent'.reqs = spent.reqs
      BY <3>2, PageFacts DEF Spending
    <3> QED BY <2>1, <3>1, <3>2
  <2>3. NoJob \in JobIn(stored) /\ NothingSynced \in SyncedIn(stored) /\ <<>> \in Seq(SaveIn(stored))
    BY DEF JobIn, SyncedIn
  <2>4. /\ dev' \in PageOf(dev.user, stored) /\ dev'.user = dev.user /\ dev'.local = dev.local
        /\ dev'.dirty = dev.dirty /\ dev'.job = NoJob
    BY <2>1, <2>3, PageFacts DEF PageOf
  <2>5. PageOK(dev', patches, stored, spent.reqs)
    BY <2>4, PageFacts DEF PageOK, JobOK, NoJob
  <2> QED BY <2>1, <2>2, <2>5, PageStep
<1>3. ASSUME NEW u \in Users, LoginElsewhere(u)
      PROVE  IInv' /\ NotBlind
  <2>1. /\ UNCHANGED <<prof, patches, stored>> /\ spent' = [spent EXCEPT !.logins = @ + 1]
        /\ dev' = [dev EXCEPT !.user = u, !.local = Empty, !.dirty = {}]
    BY <1>3 DEF LoginElsewhere
  <2>2. spent' \in Spending /\ spent'.reqs = spent.reqs
    <3>1. spent.logins + 1 \in Nat
      BY PageFacts DEF Spending
    <3>2. ASSUME NEW n \in Nat, spent' = [spent EXCEPT !.logins = n]
          PROVE  spent' \in Spending /\ spent'.reqs = spent.reqs
      BY <3>2, PageFacts DEF Spending
    <3> QED BY <2>1, <3>1, <3>2
  <2>3. Empty \in Data(u) /\ \A k \in ProfileKeys : Empty[k] \in stored
    BY DEF Empty, Data, Val, IInv
  <2>4. /\ dev' \in PageOf(u, stored) /\ dev'.user = u /\ dev'.local = Empty
        /\ dev'.dirty = {} /\ dev'.job = dev.job /\ dev'.synced = dev.synced
    BY <2>1, <2>3, PageFacts DEF PageOf
  <2>5. PageOK(dev', patches, stored, spent.reqs)
    BY <2>3, <2>4, PageFacts DEF PageOK, Journaled
  <2> QED BY <2>1, <2>2, <2>5, PageStep
<1> QED BY <1>1, <1>2, <1>3

LEMMA SendOK ==
  ASSUME IInv, SendPatch
  PROVE  IInv' /\ NotBlind
<1> DEFINE u == dev.job.user
           K == KeysToSend
           n == spent.reqs + 1
           none == [kind |-> "none"]
           j == [dev.job EXCEPT !.st = "patching", !.req = n, !.ans = none]
           patch == [k \in K |-> dev.job.snap[k]]
           want == [k \in K |-> dev.synced.rev[k]]
           q == [id |-> n, user |-> u, st |-> "sent", tries |-> 1, patch |-> patch, want |-> want,
                 journal |-> dev.job.dirty, base |-> [write |-> 0]]
<1>0. /\ dev.job # NoJob /\ UNCHANGED <<prof, stored>> /\ patches' = patches \cup {q}
      /\ spent' = [spent EXCEPT !.reqs = @ + 1] /\ dev.job.st = "planning"
      /\ dev' = [dev EXCEPT !.job.st = "patching", !.job.req = n, !.job.ans = none]
  BY DEF SendPatch, NoJob
<1>1. /\ u \in Users /\ dev.job \in JobOf(u, stored) /\ dev.job.snap \in Data(u)
      /\ dev.job.dirty \in SUBSET ProfileKeys /\ n \in Nat
  BY <1>0, PageFacts, JobTypes
<1>2. dev.synced.rev \in Revs
  <2>1. dev.synced.user = u
    BY <1>0, PageFacts DEF JobOK
  <2>2. dev.synced # NothingSynced
    BY <1>1, <2>1, ProfileAssumption DEF NothingSynced
  <2> QED BY <2>2, PageFacts DEF SyncedIn, SyncedOf
<1>3. K \in SUBSET ProfileKeys /\ dev.job.dirty \subseteq K
  BY <1>1 DEF KeysToSend
<1> HIDE DEF K, n, u, none
<1>4. spent' \in Spending /\ spent'.reqs = n /\ spent.reqs <= n /\ spent.reqs # n /\ spent.reqs \in Nat
  <2>1. spent.reqs \in Nat /\ spent' = [spent EXCEPT !.reqs = n]
    BY <1>0, PageFacts DEF n
  <2>2. spent' \in Spending /\ spent'.reqs = n
    BY <1>1, <2>1, PageFacts DEF Spending
  <2> QED BY <2>1, <2>2 DEF n
<1>5. PatchOK(q, prof, stored, n)
  <2>1. patch \in Portions(Val(u)) /\ want \in Portions(Nat)
    BY <1>1, <1>2, <1>3 DEF Portions, Data, Revs
  <2> HIDE DEF patch, want
  <2> QED BY <1>1, <2>1 DEF PatchOf, PatchOK
<1>6. Serves(q, j)
  BY <1>1, <1>3 DEF Serves, u, JobOf
<1>7. dev' = [dev EXCEPT !.job = j]
  BY <1>0, PageFacts DEF PageOf
<1>8. /\ j \in JobOf(u, stored) /\ j.st = "patching" /\ j.req = n /\ j.ans.kind = "none"
      /\ j.user = u
  BY <1>1 DEF JobOf, AnswerOf, none
<1>9. JobOK(j, dev.synced, patches', stored, n)
  <2>1. \A p \in patches : p.id # n
    <3>1. \A p \in patches : p.id \in Nat /\ p.id <= spent.reqs
      BY DEF IInv, PatchOK, PatchOf
    <3> QED BY <1>1, <1>4, <3>1
  <2>2. \A p \in patches' : p.id = j.req => Serves(p, j)
    BY <1>0, <1>6, <1>8, <2>1
  <2>3. dev.synced.user = u
    BY <1>0, PageFacts DEF JobOK, u
  <2> HIDE DEF j
  <2> QED BY <1>1, <1>8, <2>2, <2>3 DEF JobOK
<1> HIDE DEF j, q
<1>10. PageOK(dev, patches', stored, n)
  <2>1. dev.job.st \notin {"patching"}
    BY <1>0
  <2> QED BY <2>1, PageFacts DEF PageOK, JobOK
<1>11. PageOK(dev', patches', stored, n)
  <2>1. j \in JobIn(stored)
    BY <1>1, <1>8 DEF JobIn
  <2> QED BY <1>7, <1>9, <1>10, <2>1, PageFacts, PageChanged
<1>12. PageOK(dev, patches, stored, spent.reqs)'
  BY <1>0, <1>4, <1>11 DEF PageOK, PageOf, JobOK
<1>13. \A p \in patches' : PatchOK(p, prof, stored, spent.reqs)'
  <2>1. \A p \in patches : p.id \in Nat
    BY DEF IInv, PatchOK, PatchOf
  <2>2. \A p \in patches' : PatchOK(p, prof, stored, n)
    BY <1>0, <1>1, <1>4, <1>5, <2>1 DEF IInv, PatchOK
  <2> QED BY <1>0, <1>4, <2>2 DEF PatchOK, Informed, PatchOf, DocIn, Held
<1> QED BY <1>0, <1>4, <1>12, <1>13 DEF IInv, ProfOK, DocIn, Held, NotBlind

-----------------------------------------------------------------------------
(* A page that pulls has not changed anything since it began.              *)

Pulling ==
  dev.job # NoJob /\ dev.job.kind = "pull" =>
    /\ ~dev.ready
    /\ dev.job.login <= spent.logins
    /\ IdentityStillCurrent => dev.local = dev.job.snap /\ dev.dirty = dev.job.dirty

Overwriting ==
  \A k \in ProfileKeys : dev'.local[k] # dev.local[k] =>
    \/ dev.local[k] \in stored
    \/ Edit(k)
    \/ \E u \in Users : LoginElsewhere(u)

\* What an import replaces is in the store.
LEMMA ImportReplaces ==
  ASSUME IInv, Pulling, dev.job # NoJob, dev.job.kind = "pull", IdentityStillCurrent,
         \/ dev.job.dirty = {}
         \/ dev.job.st = "patching" /\ dev.job.ans.kind = "ok"
  PROVE  \A k \in ProfileKeys : dev.local[k] \in stored
<1>1. dev.local = dev.job.snap /\ dev.dirty = dev.job.dirty
  BY DEF Pulling
<1> QED BY <1>1, PageFacts DEF Journaled, JobOK

LEMMA LoginsCount ==
  ASSUME IInv
  PROVE  spent.logins \in Nat /\ (dev.job # NoJob => dev.job.login \in Nat)
<1>1. dev.job # NoJob => dev.job.login \in Nat
  BY PageFacts, JobTypes DEF JobOf
<1> QED BY <1>1 DEF IInv, Spending

LEMMA PullKept ==
  ASSUME IInv, Pulling,
         \/ dev' = dev /\ spent'.logins = spent.logins
         \/ Push \/ RunSave \/ Pull \/ ReloadPage \/ \E k \in ProfileKeys : Edit(k)
         \/ \E u \in Users : LoginElsewhere(u)
  PROVE  Pulling' /\ Overwriting
<1>0. dev \in PageOf(dev.user, stored) /\ spent \in Spending
  BY PageFacts DEF IInv
<1>1. CASE dev' = dev /\ spent'.logins = spent.logins
  BY <1>1 DEF Pulling, Overwriting, IdentityStillCurrent
<1>2. CASE Push
  BY <1>0, <1>2 DEF Push, Pulling, Overwriting, PageOf, IdentityStillCurrent, Spending
<1>3. CASE RunSave
  BY <1>0, <1>3 DEF RunSave, Pulling, Overwriting, PageOf, Job
<1>4. CASE Pull
  <2> DEFINE j == Job("pull", [user |-> dev.user, snap |-> dev.local, dirty |-> dev.dirty])
  <2>1. /\ ~dev.ready /\ dev' = [dev EXCEPT !.job = j] /\ spent' = spent
        /\ j.snap = dev.local /\ j.dirty = dev.dirty /\ j.login = spent.logins
    BY <1>4 DEF Pull, Job
  <2> HIDE DEF j
  <2>2. /\ dev'.job = j /\ dev'.local = dev.local /\ dev'.dirty = dev.dirty /\ dev'.ready = dev.ready
    BY <1>0, <2>1 DEF PageOf
  <2> QED BY <2>1, <2>2, LoginsCount DEF Pulling, Overwriting
<1>5. CASE ReloadPage
  BY <1>0, <1>5 DEF ReloadPage, Pulling, Overwriting, PageOf
<1>6. ASSUME NEW k \in ProfileKeys, Edit(k)
      PROVE  Pulling' /\ Overwriting
  <2> DEFINE f == [dev.local EXCEPT ![k] = [by |-> dev.user, n |-> spent.edits + 1]]
             D == dev.dirty \cup {k}
  <2>1. dev' = [dev EXCEPT !.local = f, !.dirty = D] /\ dev.ready
    BY <1>6 DEF Edit
  <2>2. \A x \in ProfileKeys : x # k => f[x] = dev.local[x]
    BY PageFacts DEF Data
  <2> HIDE DEF f, D
  <2>3. dev'.job = dev.job /\ dev'.local = f
    BY <1>0, <2>1 DEF PageOf
  <2> QED BY <1>6, <2>1, <2>2, <2>3 DEF Pulling, Overwriting
<1>7. ASSUME NEW u \in Users, LoginElsewhere(u)
      PROVE  Pulling' /\ Overwriting
  <2>1. /\ dev' = [dev EXCEPT !.user = u, !.local = Empty, !.dirty = {}]
        /\ spent' = [spent EXCEPT !.logins = @ + 1]
    BY <1>7 DEF LoginElsewhere
  <2>2. dev'.job = dev.job /\ dev'.ready = dev.ready /\ spent'.logins = spent.logins + 1
    BY <1>0, <2>1 DEF PageOf, Spending
  <2>3. dev.job # NoJob /\ dev.job.kind = "pull" =>
          dev'.job.login <= spent'.logins /\ dev'.job.login # spent'.logins
    BY <2>2, LoginsCount DEF Pulling
  <2>4. Pulling'
    BY <2>2, <2>3 DEF Pulling, IdentityStillCurrent
  <2> QED BY <1>7, <2>4 DEF Overwriting
<1> QED BY <1>1, <1>2, <1>3, <1>4, <1>5, <1>6, <1>7

\* A save that goes on, and one that ends.
SaveGoesOn ==
  /\ dev.job # NoJob
  /\ dev'.user = dev.user /\ dev'.bound = dev.bound /\ dev'.ready = dev.ready
  /\ dev'.local = dev.local /\ dev'.dirty = dev.dirty /\ spent'.logins = spent.logins
  /\ dev'.job.kind = dev.job.kind /\ dev'.job.user = dev.job.user /\ dev'.job.login = dev.job.login
  /\ dev'.job.snap = dev.job.snap /\ dev'.job.dirty = dev.job.dirty

LEMMA GoesOnKept == Pulling /\ SaveGoesOn => Pulling' /\ Overwriting
BY DEF SaveGoesOn, Pulling, Overwriting, IdentityStillCurrent

LEMMA JobChanges ==
  ASSUME IInv, dev.job # NoJob, NEW st, NEW again, NEW req, NEW a, NEW y,
         spent'.logins = spent.logins,
         \/ dev' = [dev EXCEPT !.job.ans = a]
         \/ dev' = [dev EXCEPT !.job.st = st, !.job.ans = a]
         \/ dev' = [dev EXCEPT !.job.st = st, !.job.req = req, !.job.ans = a]
         \/ dev' = [dev EXCEPT !.synced = y, !.job.st = st, !.job.again = again]
         \/ dev' = [[dev EXCEPT !.synced = y] EXCEPT !.job.st = st]
  PROVE  SaveGoesOn
<1>1. dev \in PageOf(dev.user, stored) /\ dev.job \in JobOf(dev.job.user, stored)
  BY PageFacts, JobTypes
<1>2. /\ dev'.user = dev.user /\ dev'.bound = dev.bound /\ dev'.ready = dev.ready
      /\ dev'.local = dev.local /\ dev'.dirty = dev.dirty
  BY <1>1 DEF PageOf
<1>3. \/ dev'.job = [dev.job EXCEPT !.ans = a]
      \/ dev'.job = [dev.job EXCEPT !.st = st, !.ans = a]
      \/ dev'.job = [dev.job EXCEPT !.st = st, !.req = req, !.ans = a]
      \/ dev'.job = [dev.job EXCEPT !.st = st, !.again = again]
      \/ dev'.job = [dev.job EXCEPT !.st = st]
  BY <1>1 DEF PageOf
<1>4. /\ dev'.job.kind = dev.job.kind /\ dev'.job.user = dev.job.user
      /\ dev'.job.login = dev.job.login
      /\ dev'.job.snap = dev.job.snap /\ dev'.job.dirty = dev.job.dirty
  BY <1>1, <1>3 DEF JobOf
<1> QED BY <1>2, <1>4 DEF SaveGoesOn

LEMMA SaveEnds ==
  ASSUME dev'.job = NoJob, dev'.local = dev.local \/ \A k \in ProfileKeys : dev.local[k] \in stored
  PROVE  Pulling' /\ Overwriting
BY DEF Pulling, Overwriting

LEMMA SaveKept ==
  ASSUME IInv, Pulling, ProfileServer \/ Saving
  PROVE  Pulling' /\ Overwriting
<1>0. dev \in PageOf(dev.user, stored) /\ dev.job \in JobIn(stored)
  BY PageFacts
<1>1. CASE dev' = dev /\ spent'.logins = spent.logins
  BY <1>1, PullKept
<1>2. CASE RunSave \/ Pull
  BY <1>2, PullKept
<1> DEFINE J == dev.job
<1>3. J # NoJob => J \in JobOf(J.user, stored)
  BY <1>0, JobTypes
<1>4. CASE ProfileServer
  <2>1. ASSUME NEW p, NEW kind, NEW payload, AnswerPatch(p, kind, payload)
        PROVE  Pulling' /\ Overwriting
    <3>1. CASE J.st = "patching" /\ J.req = p.id
      <4> DEFINE a == [kind |-> kind, payload |-> payload]
      <4>1. J # NoJob /\ dev' = [dev EXCEPT !.job.ans = a] /\ spent'.logins = spent.logins
        BY <2>1, <3>1 DEF AnswerPatch, NoJob
      <4> HIDE DEF a
      <4> QED BY <4>1, JobChanges, GoesOnKept
    <3> QED BY <1>1, <2>1, <3>1 DEF AnswerPatch
  <2> QED BY <1>1, <1>4, <2>1 DEF ProfileServer, PatchConflict, PatchRead, PatchWrite, PatchLost
<1>5. CASE GetProfile \/ SendPatch \/ PatchRefused
  <2>1. J # NoJob
    BY <1>5 DEF GetProfile, SendPatch, PatchRefused, NoJob
  <2>2. CASE GetProfile
    <3> DEFINE a == [kind |-> "ok", payload |-> Payload(J.user)]
    <3>1. dev' = [dev EXCEPT !.job.st = "got", !.job.ans = a] /\ spent'.logins = spent.logins
      BY <2>2 DEF GetProfile
    <3> HIDE DEF a
    <3> QED BY <2>1, <3>1, JobChanges, GoesOnKept
  <2>3. CASE SendPatch
    <3> DEFINE a == [kind |-> "none"]
               n == spent.reqs + 1
    <3>1. dev' = [dev EXCEPT !.job.st = "patching", !.job.req = n, !.job.ans = a]
          /\ spent' = [spent EXCEPT !.reqs = n]
      BY <2>3 DEF SendPatch
    <3> HIDE DEF a, n
    <3>2. spent'.logins = spent.logins
      BY <3>1 DEF IInv, Spending
    <3> QED BY <2>1, <3>1, <3>2, JobChanges, GoesOnKept
  <2>4. CASE PatchRefused
    <3> DEFINE y == Synced(J.ans.payload)
    <3>1. dev' = [dev EXCEPT !.synced = y, !.job.st = "planning", !.job.again = TRUE]
          /\ spent'.logins = spent.logins
      BY <2>4 DEF PatchRefused
    <3> HIDE DEF y
    <3> QED BY <2>1, <3>1, JobChanges, GoesOnKept
  <2> QED BY <1>5, <2>2, <2>3, <2>4
<1>6. CASE NothingToSend \/ SaveFails
  <2>1. dev'.job = NoJob /\ dev'.local = dev.local
    BY <1>0, <1>6 DEF NothingToSend, SaveFails, ConfirmedPush, Superseded, Dropped, PageOf
  <2> QED BY <2>1, SaveEnds
<1>7. CASE GotProfile \/ PatchDone
  <2> DEFINE y == Synced(J.ans.payload)
             e == [dev EXCEPT !.synced = y]
  <2>1. /\ e.local = dev.local /\ e.job = J /\ e.user = dev.user
        /\ e \in [user : {dev.user}, bound : Users, ready : BOOLEAN, local : Data(dev.user),
                    dirty : SUBSET ProfileKeys, synced : {y}, queue : Seq(SaveIn(stored)),
                    job : JobIn(stored)]
    BY <1>0 DEF PageOf
  <2>2. J # NoJob
    BY <1>7 DEF GotProfile, PatchDone, NoJob
  <2>3. \/ dev' = Superseded(e) \/ dev' = ConfirmedPush(e)
        \/ dev' = Imported(e, J.ans.payload) /\ \A k \in ProfileKeys : dev.local[k] \in stored
        \/ dev' = [e EXCEPT !.job.st = "planning"]
    <3>1. J.kind \in {"push", "pull"}
      BY <1>3, <2>2 DEF JobOf
    <3>2. CASE GotProfile
      BY <2>2, <3>2, ImportReplaces DEF GotProfile, Recovers
    <3>3. CASE PatchDone
      BY <2>2, <3>1, <3>3, ImportReplaces DEF PatchDone
    <3> QED BY <1>7, <3>2, <3>3
  <2>4. CASE dev' = [e EXCEPT !.job.st = "planning"]
    <3>1. spent'.logins = spent.logins
      BY <1>7 DEF GotProfile, PatchDone
    <3> HIDE DEF y
    <3> QED BY <2>2, <2>4, <3>1, JobChanges, GoesOnKept
  <2> HIDE DEF e, y
  <2>5. CASE dev' = Superseded(e) \/ dev' = ConfirmedPush(e)
    <3>1. dev'.job = NoJob /\ dev'.local = dev.local
      BY <2>1, <2>5 DEF ConfirmedPush, Superseded, Dropped
    <3> QED BY <3>1, SaveEnds
  <2>6. CASE dev' = Imported(e, J.ans.payload) /\ \A k \in ProfileKeys : dev.local[k] \in stored
    <3>1. dev'.job = NoJob
      BY <2>1, <2>6 DEF Imported
    <3> QED BY <2>6, <3>1, SaveEnds
  <2> QED BY <2>3, <2>4, <2>5, <2>6
<1> QED BY <1>2, <1>4, <1>5, <1>6, <1>7 DEF Saving

-----------------------------------------------------------------------------
(* A revision of a key stands for one value.                               *)

AgreesIn(pr, u, x) ==
  \A k \in ProfileKeys :
    /\ x.rev[k] <= pr[u].rev[k]
    /\ x.rev[k] = pr[u].rev[k] => x.data[k] = pr[u].data[k]

Pinned(pr, d, ps) ==
  /\ d.synced # NothingSynced => AgreesIn(pr, d.synced.user, d.synced)
  /\ d.job # NoJob /\ d.job.ans.kind # "none" => AgreesIn(pr, d.job.user, d.job.ans.payload)
  /\ \A p \in ps : p.st = "read" => AgreesIn(pr, p.user, p.base)

PinsNow == Pinned(prof, dev, patches)

LEMMA PinsMeans == RevisionPinsValue <=> PinsNow
BY DEF RevisionPinsValue, PinsNow, Pinned, Agrees, AgreesIn

\* Somebody writes values of u on top of the whole document.
LEMMA AgreesAfterWrite ==
  ASSUME IInv, NEW u \in Users, NEW patch, prof' = [prof EXCEPT ![u] = Patched(prof[u], patch)],
         NEW v \in Users, NEW x, x.rev \in Revs, AgreesIn(prof, v, x)
  PROVE  AgreesIn(prof', v, x)
<1>1. prof[u] \in DocIn(u, stored) /\ DOMAIN prof = Users
  BY DEF IInv, ProfOK
<1>2. CASE v # u
  BY <1>1, <1>2 DEF AgreesIn
<1>3. CASE v = u
  <2> DEFINE new == Patched(prof[u], patch)
  <2>1. \A k \in ProfileKeys :
          \/ new.rev[k] = prof[u].rev[k] /\ new.data[k] = prof[u].data[k]
          \/ new.rev[k] = prof[u].rev[k] + 1
    BY DEF Patched
  <2>2. prof'[u] = new
    BY <1>1
  <2> HIDE DEF new
  <2>3. ASSUME NEW k \in ProfileKeys
        PROVE  /\ x.rev[k] <= new.rev[k]
               /\ x.rev[k] = new.rev[k] => x.data[k] = new.data[k]
    <3>1. x.rev[k] \in Nat /\ prof[u].rev[k] \in Nat
      BY <1>1 DEF DocIn, Revs
    <3>2. /\ x.rev[k] <= prof[u].rev[k]
          /\ x.rev[k] = prof[u].rev[k] => x.data[k] = prof[u].data[k]
      BY <1>3 DEF AgreesIn
    <3> QED BY <2>1, <3>1, <3>2
  <2> QED BY <1>3, <2>2, <2>3 DEF AgreesIn
<1> QED BY <1>2, <1>3

LEMMA CurrentAgrees ==
  ASSUME IInv, NEW u \in Users
  PROVE  AgreesIn(prof, u, prof[u]) /\ AgreesIn(prof, u, Payload(u))
<1>1. \A k \in ProfileKeys : prof[u].rev[k] \in Nat
  BY DEF IInv, ProfOK, DocIn, Revs
<1> QED BY <1>1 DEF AgreesIn, Payload

\* The kinds of what the page and the PATCHes hold.
LEMMA HeldTypes ==
  ASSUME IInv
  PROVE  /\ dev.synced # NothingSynced => dev.synced.user \in Users /\ dev.synced.rev \in Revs
         /\ dev.job # NoJob => dev.job.user \in Users
         /\ dev.job # NoJob /\ dev.job.ans.kind # "none" => dev.job.ans.payload.rev \in Revs
         /\ \A p \in patches : p.st = "read" => p.user \in Users /\ p.base.rev \in Revs
<1>1. dev.synced # NothingSynced => dev.synced.user \in Users /\ dev.synced.rev \in Revs
  BY PageFacts DEF SyncedIn, SyncedOf
<1>2. dev.job # NoJob => dev.job.user \in Users
        /\ (dev.job.ans.kind # "none" => dev.job.ans.payload.rev \in Revs)
  BY PageFacts, JobTypes DEF PayloadIn
<1>3. \A p \in patches : p.st = "read" => p.user \in Users /\ p.base.rev \in Revs
  BY DEF IInv, PatchOK, Informed, DocIn
<1> QED BY <1>1, <1>2, <1>3

\* What a step of the page may do to the profiles it holds.
LEMMA PinsPage ==
  ASSUME IInv, Pinned(prof, dev, patches), prof' = prof,
         \A p \in patches' : p \in patches \/ p.st = "sent",
         \/ dev'.synced \in {dev.synced, NothingSynced}
         \/ /\ dev.job # NoJob /\ dev.job.ans.kind # "none"
            /\ dev'.synced = Synced(dev.job.ans.payload),
         \/ dev'.job = NoJob
         \/ dev'.job.ans.kind = "none"
         \/ dev'.job = dev.job
         \/ dev.job # NoJob /\ dev'.job.user = dev.job.user /\ dev'.job.ans = dev.job.ans
         \/ dev'.job.user \in Users /\ dev'.job.ans.payload = Payload(dev'.job.user)
  PROVE  Pinned(prof', dev', patches')
<1>1. dev'.synced # NothingSynced => AgreesIn(prof, dev'.synced.user, dev'.synced)
  BY DEF Pinned, Synced, AgreesIn
<1>2. dev'.job # NoJob /\ dev'.job.ans.kind # "none" =>
        AgreesIn(prof, dev'.job.user, dev'.job.ans.payload)
  BY CurrentAgrees DEF Pinned
<1>3. \A p \in patches' : p.st = "read" => AgreesIn(prof, p.user, p.base)
  BY DEF Pinned
<1> QED BY <1>1, <1>2, <1>3 DEF Pinned

LEMMA PinsSaving ==
  ASSUME IInv, Pinned(prof, dev, patches), Saving
  PROVE  Pinned(prof', dev', patches')
<1> DEFINE J == dev.job
<1>0. dev \in PageOf(dev.user, stored) /\ (J # NoJob => J \in JobOf(J.user, stored) /\ J.user \in Users)
  BY PageFacts, JobTypes
<1>1. CASE RunSave \/ Pull
  <2>1. UNCHANGED <<prof, patches>> /\ dev'.synced = dev.synced /\ dev'.job.ans.kind = "none"
    <3> DEFINE v == IF RunSave THEN Job("push", Head(dev.queue))
                    ELSE Job("pull", [user |-> dev.user, snap |-> dev.local, dirty |-> dev.dirty])
    <3>1. \/ dev' = [dev EXCEPT !.job = v, !.queue = Tail(@)]
          \/ dev' = [dev EXCEPT !.job = v]
      BY <1>1 DEF Pull, RunSave
    <3>2. v.ans.kind = "none"
      BY DEF Job
    <3> HIDE DEF v
    <3>3. dev'.synced = dev.synced /\ dev'.job = v
      BY <1>0, <3>1 DEF PageOf
    <3> QED BY <1>1, <3>2, <3>3 DEF RunSave, Pull
  <2> QED BY <2>1, PinsPage
<1>2. CASE GetProfile
  <2>1. J # NoJob /\ UNCHANGED <<prof, patches>>
    BY <1>2 DEF GetProfile, NoJob
  <2> DEFINE a == [kind |-> "ok", payload |-> Payload(J.user)]
  <2>2. dev' = [dev EXCEPT !.job.st = "got", !.job.ans = a]
    BY <1>2 DEF GetProfile
  <2> HIDE DEF a
  <2>3. dev'.synced = dev.synced /\ dev'.job.user = J.user /\ dev'.job.ans = a
    BY <1>0, <2>1, <2>2 DEF PageOf, JobOf
  <2>4. dev'.job.user \in Users /\ dev'.job.ans.payload = Payload(dev'.job.user)
    BY <1>0, <2>1, <2>3 DEF a
  <2> QED BY <2>1, <2>3, <2>4, PinsPage
<1>3. CASE SendPatch
  <2>1. prof' = prof /\ J # NoJob /\ \A p \in patches' : p \in patches \/ p.st = "sent"
    BY <1>3 DEF SendPatch, NoJob
  <2> DEFINE a == [kind |-> "none"]
             n == spent.reqs + 1
  <2>2. dev' = [dev EXCEPT !.job.st = "patching", !.job.req = n, !.job.ans = a]
    BY <1>3 DEF SendPatch
  <2> HIDE DEF a, n
  <2>3. dev'.synced = dev.synced /\ dev'.job.ans = a
    BY <1>0, <2>1, <2>2 DEF PageOf, JobOf
  <2>4. dev'.job.ans.kind = "none"
    BY <2>3 DEF a
  <2> QED BY <2>1, <2>3, <2>4, PinsPage
<1>4. CASE NothingToSend \/ SaveFails
  <2>1. UNCHANGED <<prof, patches>> /\ dev'.synced = dev.synced /\ dev'.job = NoJob
    BY <1>0, <1>4 DEF NothingToSend, SaveFails, ConfirmedPush, Superseded, Dropped, PageOf
  <2> QED BY <2>1, PinsPage
<1>5. CASE PatchRefused
  <2> DEFINE y == Synced(J.ans.payload)
  <2>1. J # NoJob /\ J.ans.kind # "none" /\ UNCHANGED <<prof, patches>>
        /\ dev' = [dev EXCEPT !.synced = y, !.job.st = "planning", !.job.again = TRUE]
    BY <1>5 DEF PatchRefused, NoJob
  <2> HIDE DEF y
  <2>2. dev'.synced = y /\ dev'.job.user = J.user /\ dev'.job.ans = J.ans
    BY <1>0, <2>1 DEF PageOf, JobOf
  <2> QED BY <2>1, <2>2, PinsPage DEF y
<1>6. CASE GotProfile \/ PatchDone
  <2> DEFINE y == Synced(J.ans.payload)
             e == [dev EXCEPT !.synced = y]
  <2>1. J # NoJob /\ J.ans.kind # "none" /\ UNCHANGED <<prof, patches>>
    BY <1>6, PageFacts DEF GotProfile, PatchDone, NoJob, JobOK
  <2>2. \/ dev' = Superseded(e) \/ dev' = ConfirmedPush(e) \/ dev' = Imported(e, J.ans.payload)
        \/ dev' = [e EXCEPT !.job.st = "planning"]
    BY <1>6 DEF GotProfile, PatchDone
  <2> HIDE DEF y
  <2>3. e.synced = y /\ e.job = J
        /\ e \in [user : {dev.user}, bound : Users, ready : BOOLEAN, local : Data(dev.user),
                  dirty : SUBSET ProfileKeys, synced : {y}, queue : Seq(SaveIn(stored)),
                  job : JobIn(stored)]
    BY <1>0 DEF PageOf
  <2> HIDE DEF e
  <2>4. /\ dev'.synced = y
        /\ dev'.job = NoJob \/ (dev'.job.user = J.user /\ dev'.job.ans = J.ans)
    <3>1. CASE dev' = [e EXCEPT !.job.st = "planning"]
      BY <1>0, <2>1, <2>3, <3>1 DEF JobOf
    <3>2. CASE dev' = Superseded(e) \/ dev' = ConfirmedPush(e) \/ dev' = Imported(e, J.ans.payload)
      BY <2>3, <3>2 DEF Superseded, Dropped, ConfirmedPush, Imported
    <3> QED BY <2>2, <3>1, <3>2
  <2> QED BY <2>1, <2>4, PinsPage DEF y
<1> QED BY <1>1, <1>2, <1>3, <1>4, <1>5, <1>6 DEF Saving

\* The server answers: with the document as it is, or with what it wrote.
LEMMA PinsAnswer ==
  ASSUME IInv, Pinned(prof, dev, patches), NEW p \in patches, NEW kind, NEW payload,
         AnswerPatch(p, kind, payload),
         \A v, x : AgreesIn(prof, v, x) /\ v \in Users /\ x.rev \in Revs => AgreesIn(prof', v, x),
         AgreesIn(prof', p.user, payload)
  PROVE  Pinned(prof', dev', patches')
<1>1. dev.synced # NothingSynced => AgreesIn(prof', dev.synced.user, dev.synced)
  BY HeldTypes DEF Pinned
<1>2. \A q \in patches' : q.st = "read" => AgreesIn(prof', q.user, q.base)
  BY HeldTypes DEF Pinned, AnswerPatch
<1>3. CASE dev' = dev
  <2>1. dev.job # NoJob /\ dev.job.ans.kind # "none" =>
          AgreesIn(prof', dev.job.user, dev.job.ans.payload)
    BY HeldTypes DEF Pinned
  <2> QED BY <1>1, <1>2, <1>3, <2>1 DEF Pinned
<1>4. CASE dev' # dev
  <2> DEFINE a == [kind |-> kind, payload |-> payload]
  <2>1. /\ dev.job.st = "patching" /\ dev.job.req = p.id /\ dev.job # NoJob
        /\ dev' = [dev EXCEPT !.job.ans = a]
    BY <1>4 DEF AnswerPatch, NoJob
  <2>2. a.payload = payload
    OBVIOUS
  <2> HIDE DEF a
  <2>3. dev'.synced = dev.synced /\ dev'.job.user = dev.job.user /\ dev'.job.ans = a
    BY <2>1, PageFacts, JobTypes DEF PageOf, JobOf
  <2>4. p.user = dev.job.user
    BY <2>1 DEF IInv, PageOK, JobOK, Serves
  <2> QED BY <1>1, <1>2, <2>2, <2>3, <2>4 DEF Pinned
<1> QED BY <1>3, <1>4

LEMMA PinsServer ==
  ASSUME IInv, Pinned(prof, dev, patches), ProfileServer
  PROVE  Pinned(prof', dev', patches')
<1> SUFFICES ASSUME NEW p \in patches,
                    PatchConflict(p) \/ PatchRead(p) \/ PatchWrite(p) \/ PatchLost(p)
             PROVE  Pinned(prof', dev', patches')
  BY DEF ProfileServer
<1>1. p.user \in Users /\ p \in PatchOf(p.user, stored)
  BY DEF IInv, PatchOK
<1>2. CASE prof' = prof
  <2>1. AgreesIn(prof', p.user, Payload(p.user))
    BY <1>1, <1>2, CurrentAgrees
  <2>2. ASSUME NEW kind, AnswerPatch(p, kind, Payload(p.user))
        PROVE  Pinned(prof', dev', patches')
    BY <1>2, <2>1, <2>2, PinsAnswer
  <2>3. CASE PatchRead(p)
    <3> DEFINE q == [p EXCEPT !.st = "read", !.base = prof[p.user]]
    <3>1. q.user = p.user /\ q.base = prof[p.user]
      BY <1>1 DEF PatchOf
    <3>2. patches' = (patches \ {p}) \cup {q} /\ dev' = dev
      BY <2>3 DEF PatchRead
    <3> HIDE DEF q
    <3>3. AgreesIn(prof, q.user, q.base)
      BY <1>1, <3>1, CurrentAgrees
    <3> QED BY <1>2, <3>2, <3>3 DEF Pinned
  <2>4. CASE PatchLost(p) /\ p.tries < PatchAttempts
    <3> DEFINE q == [p EXCEPT !.st = "sent", !.tries = @ + 1]
    <3>1. q.st = "sent"
      BY <1>1 DEF PatchOf
    <3>2. patches' = (patches \ {p}) \cup {q} /\ dev' = dev
      BY <2>4 DEF PatchLost
    <3> HIDE DEF q
    <3> QED BY <1>2, <3>1, <3>2 DEF Pinned
  <2>5. CASE PatchWrite(p)
    <3> DEFINE payload == [data |-> prof'[p.user].data, rev |-> prof'[p.user].rev]
    <3>1. AnswerPatch(p, "ok", payload) /\ payload = Payload(p.user)
      BY <1>2, <2>5 DEF PatchWrite, Payload
    <3> QED BY <2>2, <3>1
  <2> QED BY <2>2, <2>3, <2>4, <2>5 DEF PatchConflict, PatchLost
<1>3. CASE PatchWrite(p)
  <2>1. p.base = prof[p.user]
    BY <1>3 DEF PatchWrite, Unwritten, IInv, PatchOK, Informed
  <2>2. prof' = [prof EXCEPT ![p.user] = Patched(prof[p.user], p.patch)]
    BY <1>3, <2>1 DEF PatchWrite
  <2>3. \A v, x : AgreesIn(prof, v, x) /\ v \in Users /\ x.rev \in Revs => AgreesIn(prof', v, x)
    BY <1>1, <2>2, AgreesAfterWrite
  <2> DEFINE payload == [data |-> prof'[p.user].data, rev |-> prof'[p.user].rev]
  <2>4. AnswerPatch(p, "ok", payload)
    BY <1>3 DEF PatchWrite
  <2>5. \A k \in ProfileKeys : prof'[p.user].rev[k] \in Nat
    <3>1. prof[p.user] \in DocIn(p.user, stored) /\ DOMAIN prof = Users
      BY <1>1 DEF IInv, ProfOK
    <3> QED BY <1>1, <2>2, <3>1 DEF DocIn, Revs, Patched
  <2>6. payload.data = prof'[p.user].data /\ payload.rev = prof'[p.user].rev
    OBVIOUS
  <2> HIDE DEF payload
  <2>7. \A k \in ProfileKeys :
          /\ payload.rev[k] <= prof'[p.user].rev[k]
          /\ payload.rev[k] = prof'[p.user].rev[k] => payload.data[k] = prof'[p.user].data[k]
    BY <2>5, <2>6
  <2> QED BY <2>3, <2>4, <2>7, PinsAnswer DEF AgreesIn
<1> QED BY <1>2, <1>3 DEF PatchConflict, PatchRead, PatchLost

LEMMA Pins ==
  ASSUME IInv, Pinned(prof, dev, patches), [ProfileNext]_profileVars
  PROVE  Pinned(prof', dev', patches')
<1>1. CASE UNCHANGED profileVars
  BY <1>1 DEF profileVars, Pinned
<1>2. ASSUME NEW u \in Users, NEW k \in ProfileKeys, OtherDevice(u, k)
      PROVE  Pinned(prof', dev', patches')
  <2> DEFINE patch == [x \in {k} |-> [by |-> u, n |-> spent.edits + 1]]
  <2>1. /\ prof' = [prof EXCEPT ![u] = Patched(prof[u], patch)]
        /\ dev' = dev /\ patches' = patches
    BY <1>2 DEF OtherDevice
  <2> HIDE DEF patch
  <2>2. \A v, x : AgreesIn(prof, v, x) /\ v \in Users /\ x.rev \in Revs => AgreesIn(prof', v, x)
    BY <2>1, AgreesAfterWrite
  <2>3. dev.synced # NothingSynced => AgreesIn(prof', dev.synced.user, dev.synced)
    BY <2>2, HeldTypes DEF Pinned
  <2>4. dev.job # NoJob /\ dev.job.ans.kind # "none" =>
          AgreesIn(prof', dev.job.user, dev.job.ans.payload)
    BY <2>2, HeldTypes DEF Pinned
  <2>5. \A q \in patches : q.st = "read" => AgreesIn(prof', q.user, q.base)
    BY <2>2, HeldTypes DEF Pinned
  <2> QED BY <2>1, <2>3, <2>4, <2>5 DEF Pinned
<1>3. CASE Push \/ (\E k \in ProfileKeys : Edit(k)) \/ ReloadPage \/ \E u \in Users : LoginElsewhere(u)
  <2>1. UNCHANGED <<prof, patches>> /\ dev'.synced \in {dev.synced, NothingSynced}
        /\ (dev'.job = NoJob \/ dev'.job = dev.job)
    BY <1>3, PageFacts DEF Push, Edit, ReloadPage, LoginElsewhere, PageOf
  <2> QED BY <2>1, PinsPage
<1> QED BY <1>1, <1>2, <1>3, PinsServer, PinsSaving DEF ProfileNext

-----------------------------------------------------------------------------
LEMMA Starts == ProfileInit => IInv /\ Pulling
<1> SUFFICES ASSUME ProfileInit PROVE IInv /\ Pulling
  OBVIOUS
<1>1. spent \in Spending /\ stored = {None} /\ patches = {}
  BY DEF ProfileInit, Spending
<1>2. Empty \in Held(FirstUser, stored) /\ Empty \in Data(FirstUser)
        /\ \A u \in Users : Empty \in Held(u, stored)
  BY <1>1 DEF Empty, Held, Data, Val
<1>3. ProfOK(prof, stored)
  <2>1. [k \in ProfileKeys |-> 0] \in Revs
    BY DEF Revs
  <2> QED BY <1>2, <2>1 DEF ProfileInit, ProfOK, DocIn
<1>4. PageOK(dev, patches, stored, spent.reqs)
  <2>1. NoJob \in JobIn(stored) /\ NothingSynced \in SyncedIn(stored) /\ <<>> \in Seq(SaveIn(stored))
    BY DEF JobIn, SyncedIn
  <2>2. /\ dev.user = FirstUser /\ dev \in PageOf(FirstUser, stored) /\ dev.local = Empty
        /\ dev.job = NoJob
    BY <1>2, <2>1, ProfileAssumption DEF ProfileInit, PageOf
  <2>3. Journaled(dev.local, dev.dirty, stored)
    BY <1>1, <2>2 DEF Journaled, Empty
  <2> QED BY <2>2, <2>3, ProfileAssumption DEF PageOK, JobOK, NoJob
<1>5. Pulling
  BY DEF ProfileInit, Pulling
<1> QED BY <1>1, <1>3, <1>4, <1>5 DEF IInv

StepOK == NotBlind /\ Overwriting

LEMMA Steps == IInv /\ Pulling /\ [ProfileNext]_profileVars => IInv' /\ Pulling' /\ [StepOK]_profileVars
<1> SUFFICES ASSUME IInv, Pulling, [ProfileNext]_profileVars
             PROVE  IInv' /\ Pulling' /\ [StepOK]_profileVars
  OBVIOUS
<1>1. CASE UNCHANGED profileVars
  <2>1. UNCHANGED <<prof, patches, stored, spent, dev>>
    BY <1>1 DEF profileVars
  <2>2. IInv'
    BY <2>1, PageFacts, PageStep
  <2>3. Pulling'
    BY <2>1, PullKept
  <2> QED BY <1>1, <2>2, <2>3
<1>2. ASSUME NEW u \in Users, NEW k \in ProfileKeys, OtherDevice(u, k)
      PROVE  IInv' /\ Pulling' /\ StepOK
  <2>1. dev' = dev /\ spent'.logins = spent.logins
    BY <1>2 DEF OtherDevice, IInv, Spending
  <2> QED BY <1>2, <2>1, DeviceOK, PullKept DEF StepOK
<1>3. ASSUME NEW k \in ProfileKeys, Edit(k)
      PROVE  IInv' /\ Pulling' /\ StepOK
  BY <1>3, EditOK, PullKept DEF StepOK
<1>4. CASE ProfileServer
  BY <1>4, ServerOK, SaveKept DEF StepOK
<1>5. CASE Push
  BY <1>5, PushOK, PullKept DEF StepOK
<1>6. CASE Saving
  <2>1. IInv' /\ NotBlind
    BY <1>6, StartsOK, GetOK, GotOK, SendOK, NothingOK, DoneOK, ConflictOK, LeavesOK DEF Saving
  <2> QED BY <1>6, <2>1, SaveKept DEF StepOK
<1>7. CASE ReloadPage \/ \E u \in Users : LoginElsewhere(u)
  BY <1>7, LeavesOK, PullKept DEF StepOK
<1> QED BY <1>1, <1>2, <1>3, <1>4, <1>5, <1>6, <1>7 DEF ProfileNext

LEMMA Always == ProfileSpec => []IInv /\ [][StepOK]_profileVars
BY Starts, Steps, PTL DEF ProfileSpec

\* A key leaves the journal only when the store has held what the page shows,
\* for any number of saves, conflicts, reloads and accounts: a push clears the
\* journal only if nothing changed since its snapshot (pushProfileToServer).
THEOREM EditsAreRemembered == ProfileSpec => []NoEditForgotten
<1>1. IInv => NoEditForgotten
  BY DEF IInv, PageOK, Journaled, NoEditForgotten
<1> QED BY Always, <1>1, PTL

\* No value of one account reaches the storage or the document of another,
\* whatever is in flight when somebody logs in (identityStillCurrent).
THEOREM AccountsStayApart == ProfileSpec => []OwnValuesOnly
<1>1. IInv => OwnValuesOnly
  <2> SUFFICES ASSUME IInv PROVE OwnValuesOnly
    OBVIOUS
  <2>1. \A k \in ProfileKeys : dev.local[k] = None \/ dev.local[k].by = dev.user
    BY PageFacts DEF Data, Val
  <2>2. \A u \in Users, k \in ProfileKeys : prof[u].data[k] = None \/ prof[u].data[k].by = u
    BY DEF IInv, ProfOK, DocIn, Held, Val
  <2> QED BY <2>1, <2>2 DEF OwnValuesOnly
<1> QED BY Always, <1>1, PTL

\* A PATCH writes the keys it names from the revisions its page knew and no
\* other: the compare-and-swap of the whole document is enough (Patch).
THEOREM PatchesAreInformed == ProfileSpec => NoBlindWrite
BY Always, PTL DEF NoBlindWrite, StepOK, NotBlind

\* The revision of a key pins its value, for any number of pages' saves and of
\* other writers: every copy that the page or a PATCH holds is an earlier state
\* of the document or this one, key by key, so that Patch's comparison of
\* revisions is a comparison of values.
THEOREM RevisionsPinValues == ProfileSpec => []RevisionPinsValue
<1>1. ProfileInit => PinsNow
  BY DEF ProfileInit, PinsNow, Pinned
<1>2. IInv /\ PinsNow /\ [ProfileNext]_profileVars => PinsNow'
  BY Pins DEF PinsNow
<1> QED BY Always, <1>1, <1>2, PinsMeans, PTL DEF ProfileSpec

\* An import replaces only what the store has held: pullProfileFromServer saves
\* the journal it found before it imports.
THEOREM ImportsLoseNothing == ProfileSpec => NoEditOverwritten
BY Always, PTL DEF NoEditOverwritten, StepOK, Overwriting
=============================================================================
