--------------------------- MODULE PublicProfile ---------------------------
(***************************************************************************)
(* One public profile and its copy in Redis: visitors served by            *)
(* ProfileService.getPublicProfile while its owner changes it in several   *)
(* browser sessions.  A visit that finds the key profile:<username> reads  *)
(* one value and changes nothing; the visits modelled are those that miss. *)
(***************************************************************************)
EXTENDS Naturals

CONSTANTS
  Visitor,     \* requests of GET /profiles/:username, each repeated at will
  Session,     \* the owner's sessions
  MaxChanges,  \* bound: requests of the owner
  Faults       \* may queries, Redis commands and processes fail

ASSUME ProfileAssumption == MaxChanges \in Nat /\ Faults \in BOOLEAN

Version == 0..MaxChanges
Row == [exists : BOOLEAN, isPublic : BOOLEAN, isPublished : BOOLEAN, body : Version]
Column == {"exists", "isPublic", "isPublished", "body"}
Entry == [kind : {"payload"}, body : Version, items : Nat]
           \cup {[kind |-> "none"], [kind |-> "notFound"]}

VARIABLES
  row,       \* the profile's row; body stands for its other columns
  items,     \* the rows of its sections: components, skills, education, ...
  cache,     \* the key profile:<username>
  lock,      \* does the key profile:lock:<username> exist
  vpc,       \* where each visit is
  seen,      \* what it has read: [body, items]
  holds,     \* its lockAcquired
  spc,       \* where each session's request is
  copy,      \* the entity it has read, with its changes applied
  loaded,    \* the row TypeORM's save() compares that entity with
  changes,   \* number of requests begun
  overtaken, \* visits during whose write of the payload the profile was hidden
  tainted    \* why the payload in the cache may be one of a hidden profile

store == <<row, items>>
visits == <<vpc, seen, holds>>
sessions == <<spc, copy, loaded, changes>>
vars == <<store, cache, lock, visits, sessions, overtaken, tainted>>

Visible(r) == r.exists /\ r.isPublic /\ r.isPublished
Nothing == [body |-> 0, items |-> 0]
Blank == [exists |-> FALSE, isPublic |-> FALSE, isPublished |-> FALSE, body |-> 0]
Empty == [kind |-> "none"]

TypeOK ==
  /\ row \in Row
  /\ items \in Nat
  /\ cache \in Entry
  /\ lock \in BOOLEAN
  /\ vpc \in [Visitor -> {"idle", "lock", "read", "notFound", "sections",
                          "recheck", "write", "release"}]
  /\ seen \in [Visitor -> [body : Version, items : Nat]]
  /\ holds \in [Visitor -> BOOLEAN]
  /\ spc \in [Session -> {"idle", "load", "save", "saveSection", "invalidate"}]
  /\ copy \in [Session -> Row]
  /\ loaded \in [Session -> Row]
  /\ changes \in Version
  /\ overtaken \subseteq Visitor
  /\ tainted \in BOOLEAN

Init ==
  /\ row = Blank
  /\ items = 0
  /\ cache = Empty
  /\ lock = FALSE
  /\ vpc = [v \in Visitor |-> "idle"]
  /\ seen = [v \in Visitor |-> Nothing]
  /\ holds = [v \in Visitor |-> FALSE]
  /\ spc = [s \in Session |-> "idle"]
  /\ copy = [s \in Session |-> Blank]
  /\ loaded = [s \in Session |-> Blank]
  /\ changes = 0
  /\ overtaken = {}
  /\ tainted = FALSE

VisitGoesTo(v, label) == vpc' = [vpc EXCEPT ![v] = label]

\* The visit leaves its `try` block; what it has read is of no use any more.
Leave(v) ==
  /\ VisitGoesTo(v, "release")
  /\ seen' = [seen EXCEPT ![v] = Nothing]

SessionGoesTo(s, label) == spc' = [spc EXCEPT ![s] = label]

(***************************************************************************)
(* getPublicProfile.                                                       *)
(***************************************************************************)

\* redisService.get finds nothing.
CacheMiss(v) ==
  /\ vpc[v] = "idle" /\ cache = Empty
  /\ VisitGoesTo(v, "lock")
  /\ UNCHANGED <<store, cache, lock, seen, holds, sessions, overtaken, tainted>>

\* SET NX on the lock key.  A visit that does not get it goes on all the same.
TryLock(v) ==
  /\ vpc[v] = "lock"
  /\ holds' = [holds EXCEPT ![v] = ~lock]
  /\ lock' = TRUE
  /\ VisitGoesTo(v, "read")
  /\ UNCHANGED <<store, cache, seen, sessions, overtaken, tainted>>

\* findOne finds a published, public row.
ReadProfile(v) ==
  /\ vpc[v] = "read" /\ Visible(row)
  /\ seen' = [seen EXCEPT ![v].body = row.body]
  /\ VisitGoesTo(v, "sections")
  /\ UNCHANGED <<store, cache, lock, holds, sessions, overtaken, tainted>>

ProfileMissing(v) ==
  /\ vpc[v] = "read" /\ ~Visible(row)
  /\ VisitGoesTo(v, "notFound")
  /\ UNCHANGED <<store, cache, lock, seen, holds, sessions, overtaken, tainted>>

\* { __notFound: true } for CACHE_404_TTL_SECONDS, then the 404.
WriteNotFound(v) ==
  /\ vpc[v] = "notFound"
  /\ cache' = [kind |-> "notFound"]
  /\ tainted' = FALSE
  /\ VisitGoesTo(v, "release")
  /\ UNCHANGED <<store, lock, seen, holds, sessions, overtaken>>

\* The Promise.all of the five section queries.
ReadSections(v) ==
  /\ vpc[v] = "sections"
  /\ seen' = [seen EXCEPT ![v].items = items]
  /\ VisitGoesTo(v, "recheck")
  /\ UNCHANGED <<store, cache, lock, holds, sessions, overtaken, tainted>>

\* Mutant: the flags are not read again.
SkipRecheck(v) ==
  /\ vpc[v] = "recheck"
  /\ VisitGoesTo(v, "write")
  /\ UNCHANGED <<store, cache, lock, seen, holds, sessions, overtaken, tainted>>

\* stillPublic
Recheck(v) ==
  /\ vpc[v] = "recheck"
  /\ \/ Visible(row) /\ VisitGoesTo(v, "write") /\ UNCHANGED seen
     \/ ~Visible(row) /\ Leave(v)
  /\ UNCHANGED <<store, cache, lock, holds, sessions, overtaken, tainted>>

\* Mutant: the payload in the cache lacks the sections.
WriteCacheBare(v) ==
  /\ vpc[v] = "write"
  /\ cache' = [kind |-> "payload", body |-> seen[v].body]
  /\ tainted' = (v \in overtaken)
  /\ overtaken' = overtaken \ {v}
  /\ Leave(v)
  /\ UNCHANGED <<store, lock, holds, sessions>>

\* The payload for CACHE_TTL_SECONDS.
WriteCache(v) ==
  /\ vpc[v] = "write"
  /\ cache' = [kind |-> "payload", body |-> seen[v].body, items |-> seen[v].items]
  /\ tainted' = (v \in overtaken)
  /\ overtaken' = overtaken \ {v}
  /\ Leave(v)
  /\ UNCHANGED <<store, lock, holds, sessions>>

\* `finally`: DEL of the lock by whoever set it, whether or not it is still his.
Release(v) ==
  /\ vpc[v] = "release"
  /\ lock' = (lock /\ ~holds[v])
  /\ holds' = [holds EXCEPT ![v] = FALSE]
  /\ VisitGoesTo(v, "idle")
  /\ UNCHANGED <<store, cache, seen, sessions, overtaken, tainted>>

\* A query or a SET of the `try` block throws.
VisitFails(v) ==
  /\ Faults
  /\ vpc[v] \in {"read", "notFound", "sections", "recheck", "write"}
  /\ overtaken' = overtaken \ {v}
  /\ Leave(v)
  /\ UNCHANGED <<store, cache, lock, holds, sessions, tainted>>

\* The SET NX or the DEL of the lock throws, or the process dies.
VisitDies(v) ==
  /\ Faults
  /\ vpc[v] # "idle"
  /\ seen' = [seen EXCEPT ![v] = Nothing]
  /\ holds' = [holds EXCEPT ![v] = FALSE]
  /\ overtaken' = overtaken \ {v}
  /\ VisitGoesTo(v, "idle")
  /\ UNCHANGED <<store, cache, lock, sessions, tainted>>

(***************************************************************************)
(* The owner's requests.  Those that save a profile read it first, outside *)
(* any transaction, and save the entity they have: TypeORM reads the row   *)
(* again and updates the columns that differ.                              *)
(***************************************************************************)
\* createProfile: one transaction, guarded by the unique index on the username.
\* The row is public, published unless the DTO says otherwise; no key is deleted.
CreateProfile ==
  /\ ~row.exists
  /\ \E isPublished \in BOOLEAN :
       row' = [exists |-> TRUE, isPublic |-> TRUE, isPublished |-> isPublished, body |-> 0]
  /\ UNCHANGED <<items, cache, lock, visits, sessions, overtaken, tainted>>

\* The entity is of no use any more.
Drop(s, label) ==
  /\ SessionGoesTo(s, label)
  /\ copy' = [copy EXCEPT ![s] = Blank]
  /\ loaded' = [loaded EXCEPT ![s] = Blank]

Start(s, label, entity) ==
  /\ spc[s] = "idle" /\ row.exists /\ changes < MaxChanges
  /\ changes' = changes + 1
  /\ copy' = [copy EXCEPT ![s] = entity]
  /\ SessionGoesTo(s, label)
  /\ UNCHANGED <<store, cache, lock, visits, loaded, overtaken, tainted>>

\* updateVisibility; nothing happens when the profile is as asked for.
UpdateVisibility(s, isPublic) ==
  /\ row.isPublic # isPublic
  /\ Start(s, "load", [row EXCEPT !.isPublic = isPublic])

UpdateProfile(s) == Start(s, "load", [row EXCEPT !.body = changes + 1])

\* publishProfile, of a draft
PublishProfile(s) ==
  Start(s, "load", [row EXCEPT !.isPublished = TRUE, !.body = changes + 1])

\* publishProfile, when there is no draft: only the cache is invalidated.
PublishNothing(s) == Start(s, "invalidate", Blank)

\* patchComponent, create, update, delete and reorder of sections
ChangeSection(s) == Start(s, "saveSection", Blank)

\* save(): the SELECT that finds out what to update.
LoadForSave(s) ==
  /\ spc[s] = "load"
  /\ loaded' = [loaded EXCEPT ![s] = row]
  /\ SessionGoesTo(s, "save")
  /\ UNCHANGED <<store, cache, lock, visits, copy, changes, overtaken, tainted>>

Saved(s) == [c \in Column |-> IF copy[s][c] # loaded[s][c] THEN copy[s][c] ELSE row[c]]

\* save(): the UPDATE commits.
SaveProfile(s) ==
  /\ spc[s] = "save"
  /\ row' = Saved(s)
  /\ overtaken' = IF Visible(row) /\ ~Visible(row')
                    THEN overtaken \cup {v \in Visitor : vpc[v] = "write"}
                    ELSE overtaken
  /\ Drop(s, "invalidate")
  /\ UNCHANGED <<items, cache, lock, visits, changes, tainted>>

SaveSection(s) ==
  /\ spc[s] = "saveSection"
  /\ items' = items + 1
  /\ SessionGoesTo(s, "invalidate")
  /\ UNCHANGED <<row, cache, lock, visits, copy, loaded, changes, overtaken, tainted>>

InvalidateCache(s) ==
  /\ spc[s] = "invalidate"
  /\ cache' = Empty
  /\ tainted' = FALSE
  /\ Drop(s, "idle")
  /\ UNCHANGED <<store, lock, visits, changes, overtaken>>

\* A query throws, or the process dies before the commit.
RequestFails(s) ==
  /\ Faults
  /\ spc[s] \in {"load", "save", "saveSection"}
  /\ Drop(s, "idle")
  /\ UNCHANGED <<store, cache, lock, visits, changes, overtaken, tainted>>

\* The DEL throws, or the process dies before it: the change stays.
InvalidateFails(s) ==
  /\ Faults
  /\ spc[s] = "invalidate"
  /\ tainted' = (cache.kind = "payload")
  /\ Drop(s, "idle")
  /\ UNCHANGED <<store, cache, lock, visits, changes, overtaken>>

(***************************************************************************)
(* Redis.                                                                  *)
(***************************************************************************)

\* Mutant: the payload is stored without a TTL.
NotFoundExpires ==
  /\ cache.kind = "notFound"
  /\ cache' = Empty
  /\ tainted' = FALSE
  /\ UNCHANGED <<store, lock, visits, sessions, overtaken>>

CacheExpires ==
  /\ cache # Empty
  /\ cache' = Empty
  /\ tainted' = FALSE
  /\ UNCHANGED <<store, lock, visits, sessions, overtaken>>

LockExpires ==
  /\ lock
  /\ lock' = FALSE
  /\ UNCHANGED <<store, cache, visits, sessions, overtaken, tainted>>

VisitStep(v) ==
  \/ TryLock(v) \/ ReadProfile(v) \/ ProfileMissing(v) \/ WriteNotFound(v)
  \/ ReadSections(v) \/ Recheck(v) \/ WriteCache(v) \/ Release(v)

RequestStep(s) ==
  LoadForSave(s) \/ SaveProfile(s) \/ SaveSection(s) \/ InvalidateCache(s)

Next ==
  \/ CreateProfile
  \/ \E v \in Visitor : CacheMiss(v) \/ VisitStep(v) \/ VisitFails(v) \/ VisitDies(v)
  \/ \E s \in Session :
       \/ \E isPublic \in BOOLEAN : UpdateVisibility(s, isPublic)
       \/ UpdateProfile(s) \/ PublishProfile(s) \/ PublishNothing(s) \/ ChangeSection(s)
       \/ RequestStep(s) \/ RequestFails(s) \/ InvalidateFails(s)
  \/ CacheExpires \/ LockExpires

\* Handlers run to their end or die; a key with a TTL expires.
Fairness ==
  /\ \A v \in Visitor : WF_vars(VisitStep(v))
  /\ \A s \in Session : WF_vars(RequestStep(s))
  /\ WF_vars(CacheExpires)

Spec == Init /\ [][Next]_vars
FairSpec == Spec /\ Fairness

(***************************************************************************)
(* Properties.                                                             *)
(***************************************************************************)

(***************************************************************************)
(* A hidden profile is in the cache only while the request that hid it has *)
(* yet to invalidate, or because its payload was written by a visit whose  *)
(* re-check came before the hiding commit and whose SET came after it, or  *)
(* because an invalidation failed.  No visit that read the profile earlier *)
(* and no racing save of the owner puts it there.                          *)
(***************************************************************************)
HiddenLeaksOnlyThroughGap ==
  (cache.kind = "payload" /\ ~Visible(row)) =>
    tainted \/ \E s \in Session : spc[s] = "invalidate"

(***************************************************************************)
(* Whatever visits, changes and failures overlapped: once the owner stops, *)
(* the key holds for good the current profile, a 404 of a hidden one, or   *)
(* nothing (the TTLs of getPublicProfile are what repairs it).             *)
(***************************************************************************)
CacheIsCurrent ==
  \/ cache = Empty
  \/ cache.kind = "notFound" /\ ~Visible(row)
  \/ /\ cache.kind = "payload" /\ Visible(row)
     /\ cache.body = row.body /\ cache.items = items

EventuallyCurrent == <>[]CacheIsCurrent

(***************************************************************************)
(* profile.controller.ts: "A private profile returns 404 [...] for every   *)
(* caller [...] effective immediately": when the owner's requests have     *)
(* been answered, a visit does not find a payload of a hidden profile.     *)
(***************************************************************************)
PrivateIsHidden ==
  ((\A s \in Session : spc[s] = "idle") /\ ~Visible(row)) => cache.kind # "payload"
=============================================================================
