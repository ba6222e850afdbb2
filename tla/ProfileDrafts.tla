--------------------------- MODULE ProfileDrafts ---------------------------
(***************************************************************************)
(* The draft of one profile and its publishing: upsertDraft,               *)
(* updateAppearance, getProfileContent and publishProfile of               *)
(* ProfileService, called from several sessions of the owner.  Content     *)
(* stands for the fields a PUT replaces as a whole; look, the appearance,  *)
(* is a set of edits: updateAppearance merges, each edit of it setting a   *)
(* key of its own, and a PUT that carries appearance replaces all of it.   *)
(***************************************************************************)
EXTENDS Naturals

CONSTANTS
  Session,    \* the owner's sessions, each with one request at a time
  MaxEdits,   \* bound: edits of the draft, a PUT of null among them
  MaxTime,    \* bound: the last millisecond
  NoDraft,    \* there is no row in profile_drafts
  NoSession,
  NoToken,    \* X-Draft-Version is not sent
  Null        \* a column of the draft that is not set

ASSUME DraftAssumption ==
  /\ MaxEdits \in Nat /\ MaxTime \in Nat \ {0}
  /\ NoSession \notin Session
  /\ NoToken \notin 0..MaxTime
  /\ Null \notin 0..MaxEdits /\ \A look \in SUBSET (1..MaxEdits) : look # Null

Time == 0..MaxTime
Content == 0..MaxEdits
Look == SUBSET (1..MaxEdits)
Profile == [content : Content, look : Look, updatedAt : Time]
Draft == [content : {Null} \cup Content, look : {Null} \cup Look, updatedAt : Time]

\* What a query has read of the one or the other.
ProfileColumns == [content : Content, look : Look]
DraftColumns == [content : {Null} \cup Content, look : {Null} \cup Look]

ASSUME NoDraftAssumption == \A d \in Draft \cup DraftColumns : d # NoDraft

VARIABLES
  now,
  profile,   \* the row of profiles: what is published
  draft,     \* the row of profile_drafts
  rowLock,   \* who has locked the profile's row in a transaction
  pc,        \* where each session's request is
  date,      \* the updatedAt it will write or, in a GET, has read
  found,     \* the draft its transaction has read
  copy,      \* the profile it has read
  loaded,    \* the profile that TypeORM's save() compares with
  token,     \* the updatedAt its browser got last
  shown,     \* the sessions whose browser has got all that the draft has
  edits,     \* number of edits so far: each has a number
  intact,    \* the edits that have to be in the draft or in the profile
  stamps,    \* the milliseconds in which a draft was saved or published
  crowded    \* those in which that happened twice

store == <<profile, draft>>
requests == <<pc, date, found, copy, loaded>>
browsers == <<token, shown>>
history == <<intact, stamps, crowded>>
vars == <<now, store, rowLock, requests, browsers, edits, history>>

ColumnsOf(row) == [content |-> row.content, look |-> row.look]

Blank == [content |-> 0, look |-> {}]

\* JavaScript's value ?? fallback
Or(value, fallback) == IF value # Null THEN value ELSE fallback

OrDraft(d, column) == IF d # NoDraft THEN d[column] ELSE Null

FoundIn(d) == IF d # NoDraft THEN ColumnsOf(d) ELSE NoDraft

TypeOK ==
  /\ now \in Time
  /\ profile \in Profile
  /\ draft \in {NoDraft} \cup Draft
  /\ rowLock \in Session \cup {NoSession}
  /\ pc \in [Session -> {"idle", "fetch", "put", "putChecked", "appearance",
                         "putting", "puttingChecked", "merging",
                         "publish", "validate", "save"}]
  /\ date \in [Session -> Time]
  /\ found \in [Session -> {NoDraft} \cup DraftColumns]
  /\ copy \in [Session -> ProfileColumns]
  /\ loaded \in [Session -> ProfileColumns]
  /\ token \in [Session -> Time \cup {NoToken}]
  /\ shown \subseteq Session
  /\ edits \in 0..MaxEdits
  /\ intact \in [content : {Null} \cup Content, look : Look]
  /\ stamps \subseteq Time /\ crowded \subseteq stamps

Init ==
  /\ now = 1
  /\ profile = [content |-> 0, look |-> {}, updatedAt |-> 0]
  /\ draft = NoDraft
  /\ rowLock = NoSession
  /\ pc = [s \in Session |-> "idle"]
  /\ date = [s \in Session |-> 0]
  /\ found = [s \in Session |-> NoDraft]
  /\ copy = [s \in Session |-> Blank]
  /\ loaded = [s \in Session |-> Blank]
  /\ token = [s \in Session |-> NoToken]
  /\ shown = {}
  /\ edits = 0
  /\ intact = [content |-> Null, look |-> {}]
  /\ stamps = {0} /\ crowded = {}

GoTo(s, label) == pc' = [pc EXCEPT ![s] = label]

\* The request is over, and what it has read with it.
End(s) ==
  /\ GoTo(s, "idle")
  /\ date' = [date EXCEPT ![s] = 0]
  /\ found' = [found EXCEPT ![s] = NoDraft]
  /\ copy' = [copy EXCEPT ![s] = Blank]
  /\ loaded' = [loaded EXCEPT ![s] = Blank]

\* The browser of s is answered with the draft, or with the profile if there
\* is none, dated t.
Answer(s, t) == token' = [token EXCEPT ![s] = t]

Stamp(t) ==
  /\ stamps' = stamps \cup {t}
  /\ crowded' = crowded \cup (stamps \cap {t})

Publishing(s) == pc[s] \in {"publish", "validate", "save"}
OthersPublishing(s) == \E t \in Session \ {s} : Publishing(t)

(***************************************************************************)
(* getProfileContent: two queries.  The date of the profile is the token   *)
(* if there is no draft; which columns are the profile's, since the draft  *)
(* does not set them, makes no difference later.                           *)
(***************************************************************************)
FetchProfile(s) ==
  /\ pc[s] = "idle"
  /\ date' = [date EXCEPT ![s] = profile.updatedAt]
  /\ GoTo(s, "fetch")
  /\ UNCHANGED <<now, store, rowLock, found, copy, loaded, browsers, edits, history>>

FetchDraft(s) ==
  /\ pc[s] = "fetch"
  /\ Answer(s, IF draft = NoDraft THEN date[s] ELSE draft.updatedAt)
  /\ shown' = IF draft = NoDraft THEN shown ELSE shown \cup {s}
  /\ End(s)
  /\ UNCHANGED <<now, store, rowLock, edits, history>>

(***************************************************************************)
(* upsertDraft.                                                            *)
(***************************************************************************)

\* The transaction begins; CURRENT_TIMESTAMP is from now on this moment.
BeginTransaction(s, label) ==
  /\ pc[s] = "idle"
  /\ label = "putChecked" => token[s] # NoToken
  /\ date' = [date EXCEPT ![s] = now]
  /\ GoTo(s, label)
  /\ UNCHANGED <<now, store, rowLock, found, copy, loaded, browsers, edits, history>>

BeginPut(s, checked) == BeginTransaction(s, IF checked THEN "putChecked" ELSE "put")

\* What the transaction reads before it changes the draft.
Read(s, label) ==
  /\ found' = [found EXCEPT ![s] = FoundIn(draft)]
  /\ copy' = [copy EXCEPT ![s].look = profile.look]
  /\ GoTo(s, label)
  /\ UNCHANGED <<now, store, date, loaded, browsers, edits, history>>

TakeRowLock(s) == rowLock = NoSession /\ rowLock' = s

\* A token is compared with the draft's, if there is a draft.
TokenAccepted(s) == draft # NoDraft => draft.updatedAt = token[s]

\* Mutant: the profile's row is not locked.
LockForPutMissing(s) ==
  /\ UNCHANGED rowLock
  /\ \/ pc[s] = "put" /\ Read(s, "putting")
     \/ pc[s] = "putChecked" /\ TokenAccepted(s) /\ Read(s, "puttingChecked")

\* SELECT ... FOR UPDATE of the profile's row, which waits for the lock; then
\* of the draft's, which nobody locks without the profile's.
LockForPut(s) ==
  /\ TakeRowLock(s)
  /\ \/ pc[s] = "put" /\ Read(s, "putting")
     \/ pc[s] = "putChecked" /\ TokenAccepted(s) /\ Read(s, "puttingChecked")

\* The ConflictException.
RefusePut(s) ==
  /\ pc[s] = "putChecked" /\ rowLock = NoSession /\ ~TokenAccepted(s)
  /\ End(s)
  /\ UNCHANGED <<now, store, rowLock, browsers, edits, history>>

\* What a PUT may put into a column: what the draft had, if the PUT does not
\* name the column, null, or new for the edit that it carries.
PutColumn(s, column, new) ==
  {OrDraft(found[s], column)} \cup (IF edits < MaxEdits THEN {Null, new} ELSE {})

\* What has to be kept of a column that a PUT has changed.
KeptOf(s, value, nothing) == IF value = Null \/ OthersPublishing(s) THEN nothing ELSE value

\* The draft is saved with the columns that were sent and what it had of the
\* rest; commit.  If that is what it had of all, save() writes nothing and the
\* answer has no date.
CommitPut(s) ==
  /\ pc[s] \in {"putting", "puttingChecked"}
  /\ \E content \in PutColumn(s, "content", edits + 1),
        look \in PutColumn(s, "look", {edits + 1}) :
       LET newContent == content # OrDraft(found[s], "content")
           newLook == look # OrDraft(found[s], "look")
       IN  /\ edits' = IF newContent \/ newLook THEN edits + 1 ELSE edits
           /\ intact' = [content |-> IF newContent THEN KeptOf(s, content, Null) ELSE intact.content,
                         look    |-> IF newLook THEN KeptOf(s, look, {}) ELSE intact.look]
           /\ IF newContent \/ newLook \/ found[s] = NoDraft
              THEN /\ draft' = [content |-> content, look |-> look, updatedAt |-> date[s]]
                   /\ Stamp(date[s])
                   /\ Answer(s, date[s])
                   /\ shown' = {s}
              ELSE UNCHANGED <<draft, stamps, crowded, browsers>>
  /\ rowLock' = NoSession
  /\ End(s)
  /\ UNCHANGED <<now, profile>>

(***************************************************************************)
(* updateAppearance.                                                       *)
(***************************************************************************)

BeginAppearance(s) == BeginTransaction(s, "appearance")

\* Mutant: the profile's row is not locked.
LockForMergeMissing(s) == pc[s] = "appearance" /\ UNCHANGED rowLock /\ Read(s, "merging")

LockForMerge(s) == pc[s] = "appearance" /\ TakeRowLock(s) /\ Read(s, "merging")

\* The edit is merged into the draft's appearance, or else the profile's.  Also
\* saved are hasUnpublishedChanges and templateType, which date the profile
\* anew if that changes them.
CommitAppearance(s) ==
  /\ pc[s] = "merging" /\ edits < MaxEdits
  /\ edits' = edits + 1
  /\ draft' = [content   |-> OrDraft(found[s], "content"),
               look      |-> Or(OrDraft(found[s], "look"), copy[s].look) \cup {edits'},
               updatedAt |-> date[s]]
  /\ intact' = IF OthersPublishing(s) THEN intact
                                      ELSE [intact EXCEPT !.look = @ \cup {edits'}]
  /\ rowLock' = NoSession
  /\ \E updatedAt \in {profile.updatedAt, date[s]} : profile' = [profile EXCEPT !.updatedAt = updatedAt]
  /\ Stamp(date[s])
  /\ End(s)
  /\ shown' = {}
  /\ UNCHANGED <<now, token>>

(***************************************************************************)
(* publishProfile.                                                         *)
(***************************************************************************)

\* findOne, outside the transaction.
BeginPublish(s) ==
  /\ pc[s] = "idle"
  /\ copy' = [copy EXCEPT ![s] = ColumnsOf(profile)]
  /\ GoTo(s, "publish")
  /\ UNCHANGED <<now, store, rowLock, date, found, loaded, browsers, edits, history>>

\* The draft, without a lock.
ReadDraft(s) ==
  /\ pc[s] = "publish" /\ draft # NoDraft
  /\ found' = [found EXCEPT ![s] = FoundIn(draft)]
  /\ GoTo(s, "validate")
  /\ UNCHANGED <<now, store, rowLock, date, copy, loaded, browsers, edits, history>>

NothingToPublish(s) ==
  /\ pc[s] = "publish" /\ draft = NoDraft
  /\ End(s)
  /\ UNCHANGED <<now, store, rowLock, browsers, edits, history>>

\* The links have been validated: updatedAt is new Date(), and save() reads the
\* profile.
LoadForSave(s) ==
  /\ pc[s] = "validate"
  /\ date' = [date EXCEPT ![s] = now]
  /\ loaded' = [loaded EXCEPT ![s] = ColumnsOf(profile)]
  /\ GoTo(s, "save")
  /\ UNCHANGED <<now, store, rowLock, found, copy, browsers, edits, history>>

\* Mutant: content that the draft does not set is not taken from the profile.
PublishedWithoutProfile(s, column) ==
  LET new == IF column = "content" THEN found[s].content ELSE Or(found[s][column], copy[s][column])
  IN  IF new # loaded[s][column] THEN new ELSE profile[column]

\* What save() makes of a column: it updates those that differ from what it has loaded.
Published(s, column) ==
  LET new == Or(found[s][column], copy[s][column])
  IN  IF new # loaded[s][column] THEN new ELSE profile[column]

\* The UPDATE, which waits for the row's lock, the DELETE of the draft by
\* profile and the commit.  The row is locked from the first to the last, so no
\* other transaction changes the draft in between.
CommitPublish(s) ==
  /\ pc[s] = "save" /\ rowLock = NoSession
  /\ profile' = [content   |-> Published(s, "content"),
                 look      |-> Published(s, "look"),
                 updatedAt |-> date[s]]
  /\ draft' = NoDraft
  /\ intact' = IF OthersPublishing(s) THEN [content |-> Null, look |-> {}] ELSE intact
  /\ Stamp(date[s])
  /\ End(s)
  /\ shown' = {}
  /\ UNCHANGED <<now, rowLock, token, edits>>

\* A query throws, a link is not valid, or the process dies: nothing is committed.
Fail(s) ==
  /\ pc[s] # "idle"
  /\ rowLock' = IF rowLock = s THEN NoSession ELSE rowLock
  /\ End(s)
  /\ UNCHANGED <<now, store, browsers, edits, history>>

Tick ==
  /\ now < MaxTime
  /\ now' = now + 1
  /\ UNCHANGED <<store, rowLock, requests, browsers, edits, history>>

Next ==
  \/ Tick
  \/ \E s \in Session :
       \/ FetchProfile(s) \/ FetchDraft(s)
       \/ \E checked \in BOOLEAN : BeginPut(s, checked)
       \/ LockForPut(s) \/ RefusePut(s) \/ CommitPut(s)
       \/ BeginAppearance(s) \/ LockForMerge(s) \/ CommitAppearance(s)
       \/ BeginPublish(s) \/ ReadDraft(s) \/ NothingToPublish(s)
       \/ LoadForSave(s) \/ CommitPublish(s) \/ Fail(s)

Spec == Init /\ [][Next]_vars

(***************************************************************************)
(* Properties.                                                             *)
(***************************************************************************)
CurrentContent == Or(OrDraft(draft, "content"), profile.content)
CurrentLook == Or(OrDraft(draft, "look"), profile.look)

(***************************************************************************)
(* What an answered upsertDraft or updateAppearance saved is in the draft, *)
(* or published: edits do not lose each other, nor does publishing lose    *)
(* one.  The exceptions are content until other content replaces it or a   *)
(* null clears it, an edit of the appearance until a PUT replaces all of   *)
(* it, which takes no token, or clears it (of a column that was cleared,   *)
(* reading and publishing take the profile's value); and edits saved while *)
(* a publish was under way or published while another publish was.         *)
(***************************************************************************)
EditsKept ==
  /\ intact.content \in {Null, CurrentContent}
  /\ intact.look \subseteq CurrentLook

(***************************************************************************)
(* "To guard against concurrent overwrites from another browser tab, send  *)
(* the updatedAt value from the last GET or PUT response"                  *)
(* (profile.controller.ts): a save with a token never replaces a draft     *)
(* that another save or updateAppearance has changed since its browser got *)
(* it, unless two saves fell into the millisecond of the token.            *)
(***************************************************************************)
NoBlindOverwrite ==
  [][\A s \in Session :
       (pc[s] = "puttingChecked" /\ draft # NoDraft /\ CommitPut(s))
       => s \in shown \/ token[s] \in crowded]_vars
=============================================================================
