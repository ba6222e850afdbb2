------------------------ MODULE ProfileDrafts_proofs ------------------------
(***************************************************************************)
(* Proofs about drafts: answered edits are not lost and a save with a      *)
(* token replaces no draft unseen, for any number of sessions; and the     *)
(* types of the rows of users.                                             *)
(***************************************************************************)
EXTENDS MCProfileDrafts, TLAPS

(***************************************************************************)
(* Drafts.  The inductive invariant relates what requests have read to the *)
(* rows, the edits and the dates that it was read from.                    *)
(***************************************************************************)

(***************************************************************************)
(* Who has locked the profile's row has read the draft as it is.           *)
(***************************************************************************)
Saving(s) == pc[s] \in {"putting", "puttingChecked", "merging"}

LockHolds ==
  \A s \in Session :
    Saving(s) => /\ rowLock = s
                 /\ found[s] = FoundIn(draft) /\ copy[s].look = profile.look
                 /\ pc[s] = "puttingChecked" => TokenAccepted(s)

(***************************************************************************)
(* A publish has read what has to be kept, and will write it: whatever     *)
(* has been published since its reads, nothing has to be kept any more.    *)
(***************************************************************************)
New(s, column) == Or(found[s][column], copy[s][column])

Keeps(content, look) == intact.content \in {Null, content} /\ intact.look \subseteq look

Unless(p) ==
  /\ p.content = profile.content \/ intact.content = Null
  /\ p.look = profile.look \/ intact.look = {}

Knows(s) ==
  /\ Publishing(s) => Unless(copy[s])
  /\ pc[s] \in {"validate", "save"} =>
       found[s] # NoDraft /\ Keeps(New(s, "content"), New(s, "look"))
  /\ pc[s] = "save" => Unless(loaded[s])

PublishKnows == \A s \in Session : Knows(s)

(***************************************************************************)
(* All dates that browsers and requests know are those of a save or of a   *)
(* publish, and a browser that knows the draft's date has been shown it.   *)
(***************************************************************************)
DatesKnown ==
  /\ profile.updatedAt \in stamps
  /\ draft # NoDraft => draft.updatedAt \in stamps
  /\ \A s \in Session :
       /\ pc[s] = "fetch" => date[s] \in stamps
       /\ token[s] # NoToken => token[s] \in stamps
       /\ draft # NoDraft /\ draft.updatedAt = token[s] =>
            s \in shown \/ token[s] \in crowded

IInv == TypeOK /\ LockHolds /\ PublishKnows /\ EditsKept /\ DatesKnown

\* What a draft does not set is the profile's.
LEMMA Fallback ==
  ASSUME NEW c \in {Null} \cup Content, NEW c2 \in Content,
         NEW l \in {Null} \cup Look, NEW l2 \in Look
  PROVE  Or(c, c2) \in Content /\ Or(l, l2) \in Look
BY DEF Or

\* A draft, or none, has a content and a look, or none, and so has what is found of it.
LEMMA Columns ==
  ASSUME NEW d \in {NoDraft} \cup Draft \cup DraftColumns
  PROVE  OrDraft(d, "content") \in {Null} \cup Content /\ OrDraft(d, "look") \in {Null} \cup Look
BY DEF OrDraft, Draft, DraftColumns

\* What is found of a draft is its columns.
LEMMA Found ==
  ASSUME NEW d \in {NoDraft} \cup Draft
  PROVE  /\ FoundIn(d) \in {NoDraft} \cup DraftColumns
         /\ FoundIn(d) = NoDraft <=> d = NoDraft
         /\ OrDraft(FoundIn(d), "content") = OrDraft(d, "content")
         /\ OrDraft(FoundIn(d), "look") = OrDraft(d, "look")
<1>1. CASE d = NoDraft
  BY <1>1 DEF FoundIn, OrDraft
<1>2. CASE d # NoDraft
  <2>1. ColumnsOf(d) \in DraftColumns
    BY <1>2 DEF ColumnsOf, Draft, DraftColumns
  <2> QED
    BY <1>2, <2>1, NoDraftAssumption DEF FoundIn, OrDraft, ColumnsOf
<1> QED
  BY <1>1, <1>2

\* A request that is over keeps to the types.
LEMMA EndTypes ==
  ASSUME TypeOK, NEW s \in Session, End(s)
  PROVE  /\ pc' \in [Session -> {"idle", "fetch", "put", "putChecked", "appearance", "putting",
                                 "puttingChecked", "merging", "publish", "validate", "save"}]
         /\ date' \in [Session -> Time] /\ found' \in [Session -> {NoDraft} \cup DraftColumns]
         /\ copy' \in [Session -> ProfileColumns] /\ loaded' \in [Session -> ProfileColumns]
<1>1. 0 \in Time /\ Blank \in ProfileColumns
  BY DraftAssumption DEF Blank, ProfileColumns, Time, Content, Look
<1> QED
  BY <1>1 DEF End, GoTo, TypeOK

(***************************************************************************)
(* What a PUT puts into the columns.                                       *)
(***************************************************************************)
Puts(s, content, look) ==
  LET newContent == content # OrDraft(draft, "content")
      newLook == look # OrDraft(draft, "look")
  IN  /\ content \in {Null} \cup Content /\ look \in {Null} \cup Look
      /\ edits' \in {edits, edits + 1} /\ edits' <= MaxEdits
      /\ intact' = [content |-> IF newContent THEN KeptOf(s, content, Null) ELSE intact.content,
                    look    |-> IF newLook THEN KeptOf(s, look, {}) ELSE intact.look]
      /\ \/ /\ draft' = [content |-> content, look |-> look, updatedAt |-> date[s]]
            /\ Stamp(date[s]) /\ token' = [token EXCEPT ![s] = date[s]] /\ shown' = {s}
         \/ /\ ~newContent /\ ~newLook
            /\ UNCHANGED <<draft, stamps, crowded, token, shown>>

\* A PUT compares with the draft as it is, and its edit has a number of its own.
LEMMA PutSaves ==
  ASSUME TypeOK, LockHolds, NEW s \in Session, CommitPut(s)
  PROVE  /\ \E content, look : Puts(s, content, look)
         /\ Saving(s) /\ rowLock' = NoSession /\ End(s) /\ now' = now /\ profile' = profile
<1>1. Saving(s)
  BY DEF CommitPut, Saving
<1>2. found[s] = FoundIn(draft) /\ draft \in {NoDraft} \cup Draft
  BY <1>1 DEF LockHolds, TypeOK
<1>3. PICK content \in PutColumn(s, "content", edits + 1),
           look \in PutColumn(s, "look", {edits + 1}) :
         LET newContent == content # OrDraft(found[s], "content")
             newLook == look # OrDraft(found[s], "look")
         IN  /\ edits' = IF newContent \/ newLook THEN edits + 1 ELSE edits
             /\ intact' = [content |-> IF newContent THEN KeptOf(s, content, Null) ELSE intact.content,
                           look    |-> IF newLook THEN KeptOf(s, look, {}) ELSE intact.look]
             /\ IF newContent \/ newLook \/ found[s] = NoDraft
                THEN /\ draft' = [content |-> content, look |-> look, updatedAt |-> date[s]]
                     /\ Stamp(date[s])
                     /\ Answer(s, date[s])
                     /\ shown' = {s}
                ELSE UNCHANGED <<draft, stamps, crowded, browsers>>
  BY DEF CommitPut
<1>4. /\ OrDraft(found[s], "content") = OrDraft(draft, "content")
      /\ OrDraft(found[s], "look") = OrDraft(draft, "look")
  BY <1>2, Found
<1>5. /\ OrDraft(draft, "content") \in {Null} \cup Content /\ OrDraft(draft, "look") \in {Null} \cup Look
      /\ edits \in 0..MaxEdits
  BY Columns DEF TypeOK
<1>6. edits < MaxEdits => edits + 1 \in 1..MaxEdits /\ edits + 1 \in Content /\ {edits + 1} \in Look
  BY <1>5, DraftAssumption DEF Content, Look
<1>7. content \in {Null} \cup Content /\ look \in {Null} \cup Look
  BY <1>3, <1>4, <1>5, <1>6 DEF PutColumn
<1>8. edits' \in {edits, edits + 1} /\ edits' <= MaxEdits
  <2>1. CASE edits < MaxEdits
    BY <1>3, <1>5, <2>1, DraftAssumption
  <2>2. CASE edits = MaxEdits
    BY <1>3, <1>4, <1>5, <2>2, DraftAssumption DEF PutColumn
  <2> QED
    BY <1>5, <2>1, <2>2, DraftAssumption
<1>9. Puts(s, content, look)
  BY <1>3, <1>4, <1>7, <1>8 DEF Puts, Answer, browsers
<1> QED
  BY <1>1, <1>9 DEF CommitPut

\* The types of what a PUT writes.
LEMMA PutTypes ==
  ASSUME TypeOK, NEW s \in Session, NEW content, NEW look, Puts(s, content, look)
  PROVE  /\ draft' \in {NoDraft} \cup Draft /\ edits' \in 0..MaxEdits
         /\ intact' \in [content : {Null} \cup Content, look : Look]
         /\ token' \in [Session -> Time \cup {NoToken}] /\ shown' \subseteq Session
         /\ stamps' \subseteq Time /\ crowded' \subseteq stamps'
<1>1. content \in {Null} \cup Content /\ look \in {Null} \cup Look /\ date[s] \in Time
  BY DEF Puts, TypeOK
<1>2. draft' \in {NoDraft} \cup Draft
  BY <1>1 DEF Puts, TypeOK, Draft
<1>3. edits' \in 0..MaxEdits
  BY DraftAssumption DEF Puts, TypeOK
<1>4. KeptOf(s, content, Null) \in {Null} \cup Content /\ KeptOf(s, look, {}) \in Look
  BY <1>1 DEF KeptOf, Look
<1>5. intact' \in [content : {Null} \cup Content, look : Look]
  BY <1>4 DEF Puts, TypeOK
<1>6. stamps' \subseteq Time /\ crowded' \subseteq stamps'
  BY <1>1 DEF Puts, Stamp, TypeOK
<1>7. token' \in [Session -> Time \cup {NoToken}] /\ shown' \subseteq Session
  BY <1>1 DEF Puts, TypeOK
<1> QED
  BY <1>2, <1>3, <1>5, <1>6, <1>7

\* updateAppearance writes a draft with a look, and its edit has a number of its own.
LEMMA MergeSaves ==
  ASSUME TypeOK, NEW s \in Session, CommitAppearance(s)
  PROVE  /\ draft' \in Draft /\ draft' # NoDraft /\ edits' \in 1..MaxEdits
         /\ date[s] \in Time /\ draft'.look # Null
<1>1. edits' \in 1..MaxEdits /\ date[s] \in Time
  BY DraftAssumption DEF CommitAppearance, TypeOK
<1>2. Or(OrDraft(found[s], "look"), copy[s].look) \in Look
  BY Columns, Fallback DEF TypeOK, ProfileColumns
<1>3. Or(OrDraft(found[s], "look"), copy[s].look) \cup {edits'} \in Look
  BY <1>1, <1>2 DEF Look
<1>4. draft' \in Draft /\ draft'.look \in Look
  BY <1>1, <1>3, Columns DEF CommitAppearance, TypeOK, Draft
<1> QED
  BY <1>1, <1>4, DraftAssumption, NoDraftAssumption DEF Look

(***************************************************************************)
(* Every step keeps to the types.                                          *)
(***************************************************************************)
LEMMA DraftTypesKept == TypeOK /\ LockHolds /\ PublishKnows /\ [Next]_vars => TypeOK'
<1> SUFFICES ASSUME TypeOK, LockHolds, PublishKnows, [Next]_vars PROVE TypeOK'
  OBVIOUS
<1> USE DEF store, requests, browsers, history
<1>1. CASE Tick
  BY <1>1, DraftAssumption DEF Tick, TypeOK, Time
<1>2. ASSUME NEW s \in Session, FetchProfile(s) \/ BeginPublish(s) PROVE TypeOK'
  <2>1. profile.updatedAt \in Time /\ ColumnsOf(profile) \in ProfileColumns
    BY DEF TypeOK, Profile, ProfileColumns, ColumnsOf
  <2> QED
    BY <1>2, <2>1 DEF FetchProfile, BeginPublish, GoTo, TypeOK
<1>3. ASSUME NEW s \in Session, FetchDraft(s) PROVE TypeOK'
  <2>1. date[s] \in Time /\ (draft # NoDraft => draft.updatedAt \in Time)
    BY DEF TypeOK, Draft
  <2>2. token' \in [Session -> Time \cup {NoToken}] /\ shown' \subseteq Session
    BY <1>3, <2>1 DEF FetchDraft, Answer, TypeOK
  <2> QED
    BY <1>3, <2>2, EndTypes DEF FetchDraft, TypeOK
<1>4. ASSUME NEW s \in Session, NEW label \in {"put", "putChecked", "appearance"},
             BeginTransaction(s, label)
      PROVE  TypeOK'
  BY <1>4 DEF BeginTransaction, GoTo, TypeOK
<1>5. ASSUME NEW s \in Session, LockForPut(s) \/ LockForMerge(s) PROVE TypeOK'
  <2>1. PICK label \in {"putting", "puttingChecked", "merging"} : Read(s, label) /\ rowLock' = s
    BY <1>5 DEF LockForPut, LockForMerge, TakeRowLock
  <2>2. copy' \in [Session -> ProfileColumns]
    BY <2>1 DEF Read, TypeOK, Profile, ProfileColumns
  <2>3. FoundIn(draft) \in {NoDraft} \cup DraftColumns
    BY Found DEF TypeOK
  <2> QED
    BY <2>1, <2>2, <2>3 DEF Read, GoTo, TypeOK
<1>6. ASSUME NEW s \in Session, RefusePut(s) \/ NothingToPublish(s) PROVE TypeOK'
  BY <1>6, EndTypes DEF RefusePut, NothingToPublish, TypeOK
<1>7. ASSUME NEW s \in Session, CommitPut(s) PROVE TypeOK'
  <2>1. PICK content, look : Puts(s, content, look)
    BY <1>7, PutSaves
  <2>2. rowLock' = NoSession /\ End(s) /\ now' = now /\ profile' = profile
    BY <1>7, PutSaves
  <2> QED
    BY <2>1, <2>2, PutTypes, EndTypes DEF TypeOK
<1>8. ASSUME NEW s \in Session, CommitAppearance(s) PROVE TypeOK'
  <2>1. edits' \in 1..MaxEdits /\ date[s] \in Time /\ draft' \in Draft
    BY <1>8, MergeSaves
  <2>2. profile' \in Profile
    BY <1>8, <2>1 DEF CommitAppearance, TypeOK, Profile
  <2>3. /\ stamps' \subseteq Time /\ crowded' \subseteq stamps' /\ shown' \subseteq Session
        /\ intact' \in [content : {Null} \cup Content, look : Look]
    BY <1>8, <2>1 DEF CommitAppearance, Stamp, TypeOK, Look
  <2> QED
    BY <1>8, <2>1, <2>2, <2>3, EndTypes DEF CommitAppearance, TypeOK
<1>9. ASSUME NEW s \in Session, ReadDraft(s) \/ LoadForSave(s) PROVE TypeOK'
  <2>1. FoundIn(draft) \in {NoDraft} \cup DraftColumns /\ ColumnsOf(profile) \in ProfileColumns
    BY Found DEF TypeOK, Profile, ProfileColumns, ColumnsOf
  <2> QED
    BY <1>9, <2>1 DEF ReadDraft, LoadForSave, GoTo, TypeOK
<1>10. ASSUME NEW s \in Session, CommitPublish(s) PROVE TypeOK'
  <2>1. Published(s, "content") \in Content /\ Published(s, "look") \in Look
    <3>1. found[s] \in DraftColumns /\ copy[s] \in ProfileColumns
      BY <1>10 DEF CommitPublish, PublishKnows, Knows, TypeOK
    <3>2. New(s, "content") \in Content /\ New(s, "look") \in Look
      BY <3>1, Fallback DEF New, DraftColumns, ProfileColumns
    <3> QED
      BY <3>2 DEF Published, New, TypeOK, Profile
  <2>2. profile' \in Profile
    BY <1>10, <2>1 DEF CommitPublish, TypeOK, Profile
  <2>3. /\ stamps' \subseteq Time /\ crowded' \subseteq stamps' /\ shown' \subseteq Session
        /\ intact' \in [content : {Null} \cup Content, look : Look]
    BY <1>10 DEF CommitPublish, Stamp, TypeOK, Look
  <2> QED
    BY <1>10, <2>2, <2>3, EndTypes DEF CommitPublish, TypeOK
<1>11. ASSUME NEW s \in Session, Fail(s) PROVE TypeOK'
  BY <1>11, EndTypes DEF Fail, TypeOK
<1>12. CASE UNCHANGED vars
  BY <1>12 DEF vars, TypeOK
<1> QED
  BY <1>1, <1>2, <1>3, <1>4, <1>5, <1>6, <1>7, <1>8, <1>9, <1>10, <1>11, <1>12
     DEF Next, BeginPut, BeginAppearance

(***************************************************************************)
(* What a step does to the lock: it is taken by who found it free, and     *)
(* only its holder gives it back or changes the draft.                     *)
(***************************************************************************)
LEMMA LockKept == TypeOK /\ LockHolds /\ [Next]_vars => LockHolds'
<1> SUFFICES ASSUME TypeOK, LockHolds, [Next]_vars PROVE LockHolds'
  OBVIOUS
<1> USE DraftAssumption DEF store, requests, browsers, history
<1>1. CASE Tick \/ UNCHANGED vars
  BY <1>1 DEF Tick, vars, LockHolds, Saving, TokenAccepted
<1>2. ASSUME NEW s \in Session, FetchProfile(s) \/ BeginPublish(s) PROVE LockHolds'
  BY <1>2 DEF FetchProfile, BeginPublish, GoTo, LockHolds, Saving, TokenAccepted, TypeOK
<1>3. ASSUME NEW s \in Session, FetchDraft(s) PROVE LockHolds'
  BY <1>3 DEF FetchDraft, Answer, End, GoTo, LockHolds, Saving, TokenAccepted, TypeOK
<1>4. ASSUME NEW s \in Session, NEW label \in {"put", "putChecked", "appearance"},
             BeginTransaction(s, label)
      PROVE  LockHolds'
  BY <1>4 DEF BeginTransaction, GoTo, LockHolds, Saving, TokenAccepted, TypeOK
<1>5. ASSUME NEW s \in Session, LockForPut(s) \/ LockForMerge(s) PROVE LockHolds'
  <2>1. PICK label \in {"putting", "puttingChecked", "merging"} :
          /\ Read(s, label) /\ TakeRowLock(s)
          /\ label = "puttingChecked" => TokenAccepted(s)
    BY <1>5 DEF LockForPut, LockForMerge
  <2>2. \A t \in Session : ~Saving(t)
    BY <2>1 DEF TakeRowLock, LockHolds
  <2>3. /\ pc' = [pc EXCEPT ![s] = label] /\ found' = [found EXCEPT ![s] = FoundIn(draft)]
        /\ copy' = [copy EXCEPT ![s].look = profile.look] /\ rowLock' = s
        /\ UNCHANGED <<profile, draft, token>>
    BY <2>1 DEF Read, TakeRowLock, GoTo
  <2>4. copy'[s].look = profile.look /\ pc'[s] = label /\ found'[s] = FoundIn(draft)
    BY <2>3 DEF TypeOK, ProfileColumns
  <2>5. \A t \in Session : t # s => pc'[t] = pc[t]
    BY <2>3 DEF TypeOK
  <2> QED
    BY <2>1, <2>2, <2>3, <2>4, <2>5 DEF LockHolds, Saving, TokenAccepted
<1>6. ASSUME NEW s \in Session, RefusePut(s) \/ NothingToPublish(s) PROVE LockHolds'
  BY <1>6 DEF RefusePut, NothingToPublish, End, GoTo, LockHolds, Saving, TokenAccepted, TypeOK
<1>7. ASSUME NEW s \in Session, CommitPut(s) \/ CommitAppearance(s) PROVE LockHolds'
  <2>1. Saving(s) /\ End(s)
    BY <1>7 DEF CommitPut, CommitAppearance, Saving
  <2>2. \A t \in Session : t # s => ~Saving(t)
    BY <2>1 DEF LockHolds
  <2> QED
    BY <2>1, <2>2 DEF End, GoTo, LockHolds, Saving, TypeOK
<1>8. ASSUME NEW s \in Session, ReadDraft(s) \/ LoadForSave(s) PROVE LockHolds'
  BY <1>8 DEF ReadDraft, LoadForSave, GoTo, LockHolds, Saving, TokenAccepted, TypeOK
<1>9. ASSUME NEW s \in Session, CommitPublish(s) PROVE LockHolds'
  <2>1. \A t \in Session : ~Saving(t)
    BY <1>9 DEF CommitPublish, LockHolds
  <2> QED
    BY <1>9, <2>1 DEF CommitPublish, End, GoTo, LockHolds, Saving, TypeOK
<1>10. ASSUME NEW s \in Session, Fail(s) PROVE LockHolds'
  <2>1. \A t \in Session : t # s => (Saving(t)' <=> Saving(t)) /\ found'[t] = found[t]
                                    /\ copy'[t] = copy[t]
    BY <1>10 DEF Fail, End, GoTo, Saving, TypeOK
  <2>2. ~Saving(s)' /\ UNCHANGED <<store, token>>
    BY <1>10 DEF Fail, End, GoTo, Saving, TypeOK
  <2>3. \A t \in Session : t # s /\ Saving(t) => rowLock = t /\ rowLock' = t
    BY <1>10 DEF Fail, LockHolds
  <2>4. \A t \in Session : t # s => pc'[t] = pc[t]
    BY <1>10 DEF Fail, End, GoTo, TypeOK
  <2> QED
    BY <2>1, <2>2, <2>3, <2>4 DEF LockHolds, TokenAccepted
<1> QED
  BY <1>1, <1>2, <1>3, <1>4, <1>5, <1>6, <1>7, <1>8, <1>9, <1>10
     DEF Next, BeginPut, BeginAppearance

(***************************************************************************)
(* A publish still knows what it must after a step of others, which leave  *)
(* the profile's content and look as they are or nothing to be kept.       *)
(***************************************************************************)
LEMMA StillKnows ==
  ASSUME TypeOK, NEW t \in Session, Knows(t), pc'[t] = pc[t], copy'[t] = copy[t],
         found'[t] = found[t], loaded'[t] = loaded[t],
         Publishing(t) =>
           \/ /\ profile'.content = profile.content /\ profile'.look = profile.look
              /\ intact'.content \in {intact.content, Null} /\ intact'.look \in {intact.look, {}}
           \/ intact'.content = Null /\ intact'.look = {}
  PROVE  Knows(t)'
<1>1. New(t, "content")' = New(t, "content") /\ New(t, "look")' = New(t, "look")
  BY DEF New
<1>2. CASE ~Publishing(t)
  BY <1>2 DEF Knows, Publishing
<1>3. CASE Publishing(t) /\ intact'.content = Null /\ intact'.look = {}
  BY <1>1, <1>3 DEF Knows, Publishing, Unless, Keeps
<1>4. CASE /\ Publishing(t)
           /\ profile'.content = profile.content /\ profile'.look = profile.look
           /\ intact'.content \in {intact.content, Null} /\ intact'.look \in {intact.look, {}}
  BY <1>1, <1>4 DEF Knows, Publishing, Unless, Keeps
<1> QED
  BY <1>2, <1>3, <1>4

(***************************************************************************)
(* Steps that leave the rows and what has to be kept.                      *)
(***************************************************************************)
LEMMA QuietKnows ==
  ASSUME TypeOK, PublishKnows, EditsKept, UNCHANGED <<profile, draft, intact>>, NEW s \in Session,
         Knows(s)',
         \A t \in Session : t # s => pc'[t] = pc[t] /\ copy'[t] = copy[t]
                                     /\ found'[t] = found[t] /\ loaded'[t] = loaded[t]
  PROVE  PublishKnows' /\ EditsKept'
<1>1. \A t \in Session : t # s => Knows(t)'
  BY StillKnows DEF PublishKnows
<1>2. EditsKept'
  BY DEF EditsKept, CurrentContent, CurrentLook
<1> QED
  BY <1>1, <1>2 DEF PublishKnows

\* A request that is over does not publish.
LEMMA EndKnows ==
  ASSUME TypeOK, NEW s \in Session, End(s)
  PROVE  /\ Knows(s)'
         /\ \A t \in Session : t # s => pc'[t] = pc[t] /\ copy'[t] = copy[t]
                                        /\ found'[t] = found[t] /\ loaded'[t] = loaded[t]
BY DEF End, GoTo, Knows, Publishing, TypeOK

(***************************************************************************)
(* Two columns of what publishing will write, if nobody else publishes.    *)
(***************************************************************************)
LEMMA PublishedKept ==
  ASSUME TypeOK, NEW s \in Session, pc[s] = "save", Knows(s)
  PROVE  Keeps(Published(s, "content"), Published(s, "look"))
BY DEF Knows, Unless, Keeps, New, Published

(***************************************************************************)
(* Edits are kept by every step.                                           *)
(***************************************************************************)
LEMMA EditsStayKept ==
  TypeOK /\ LockHolds /\ PublishKnows /\ EditsKept /\ [Next]_vars => PublishKnows' /\ EditsKept'
<1> SUFFICES ASSUME TypeOK, LockHolds, PublishKnows, EditsKept, [Next]_vars
             PROVE  PublishKnows' /\ EditsKept'
  OBVIOUS
<1> USE DEF store, requests, browsers, history
<1>1. CASE Tick \/ UNCHANGED vars
  BY <1>1 DEF Tick, vars, PublishKnows, Knows, Publishing, Unless, Keeps, New, EditsKept,
              CurrentContent, CurrentLook
<1>2. ASSUME NEW s \in Session,
             \/ FetchProfile(s) \/ LockForPut(s) \/ LockForMerge(s)
             \/ \E label \in {"put", "putChecked", "appearance"} : BeginTransaction(s, label)
      PROVE  PublishKnows' /\ EditsKept'
  <2>1. /\ UNCHANGED <<profile, draft, intact>>
        /\ pc'[s] \in {"fetch", "putting", "puttingChecked", "merging", "put", "putChecked",
                       "appearance"}
        /\ \A t \in Session : t # s => pc'[t] = pc[t] /\ copy'[t] = copy[t]
                                       /\ found'[t] = found[t] /\ loaded'[t] = loaded[t]
    BY <1>2 DEF FetchProfile, LockForPut, LockForMerge, Read, BeginTransaction, GoTo, TypeOK
  <2>2. Knows(s)'
    BY <2>1 DEF Knows, Publishing
  <2> QED
    BY <2>1, <2>2, QuietKnows
<1>3. ASSUME NEW s \in Session, BeginPublish(s) PROVE PublishKnows' /\ EditsKept'
  <2>1. /\ UNCHANGED <<profile, draft, intact>> /\ pc'[s] = "publish" /\ copy'[s] = ColumnsOf(profile)
        /\ \A t \in Session : t # s => pc'[t] = pc[t] /\ copy'[t] = copy[t]
                                       /\ found'[t] = found[t] /\ loaded'[t] = loaded[t]
    BY <1>3 DEF BeginPublish, GoTo, TypeOK
  <2>2. Knows(s)'
    BY <2>1 DEF Knows, Unless, ColumnsOf
  <2> QED
    BY <2>1, <2>2, QuietKnows
<1>4. ASSUME NEW s \in Session,
             FetchDraft(s) \/ RefusePut(s) \/ NothingToPublish(s) \/ Fail(s)
      PROVE  PublishKnows' /\ EditsKept'
  <2>1. End(s) /\ UNCHANGED <<profile, draft, intact>>
    BY <1>4 DEF FetchDraft, RefusePut, NothingToPublish, Fail
  <2> QED
    BY <2>1, EndKnows, QuietKnows
<1>5. ASSUME NEW s \in Session, ReadDraft(s) PROVE PublishKnows' /\ EditsKept'
  <2>1. /\ UNCHANGED <<profile, draft, intact>> /\ pc[s] = "publish" /\ pc'[s] = "validate"
        /\ copy'[s] = copy[s] /\ found'[s] = ColumnsOf(draft) /\ draft # NoDraft
        /\ ColumnsOf(draft) # NoDraft
        /\ \A t \in Session : t # s => pc'[t] = pc[t] /\ copy'[t] = copy[t]
                                       /\ found'[t] = found[t] /\ loaded'[t] = loaded[t]
    BY <1>5, Found DEF ReadDraft, FoundIn, GoTo, TypeOK
  <2>2. Unless(copy[s])
    BY <2>1 DEF PublishKnows, Knows, Publishing
  <2>3. Keeps(Or(draft.content, copy[s].content), Or(draft.look, copy[s].look))
    BY <2>1, <2>2 DEF Unless, Keeps, EditsKept, CurrentContent, CurrentLook, OrDraft, Or
  <2>4. Knows(s)'
    BY <2>1, <2>2, <2>3 DEF Knows, Publishing, Unless, Keeps, New, ColumnsOf
  <2> QED
    BY <2>1, <2>4, QuietKnows
<1>6. ASSUME NEW s \in Session, LoadForSave(s) PROVE PublishKnows' /\ EditsKept'
  <2>1. /\ UNCHANGED <<profile, draft, intact>> /\ pc[s] = "validate" /\ pc'[s] = "save"
        /\ copy' = copy /\ found' = found /\ loaded'[s] = ColumnsOf(profile)
        /\ \A t \in Session : t # s => pc'[t] = pc[t] /\ loaded'[t] = loaded[t]
    BY <1>6 DEF LoadForSave, GoTo, TypeOK
  <2>2. Knows(s)'
    BY <2>1 DEF PublishKnows, Knows, Publishing, Unless, Keeps, New, ColumnsOf
  <2> QED
    BY <2>1, <2>2, QuietKnows
<1>7. ASSUME NEW s \in Session, CommitPut(s) PROVE PublishKnows' /\ EditsKept'
  <2>1. End(s) /\ profile' = profile
    BY <1>7, PutSaves
  <2>2. PICK content, look : Puts(s, content, look)
    BY <1>7, PutSaves
  <2>3. \/ ~OthersPublishing(s)
        \/ intact'.content \in {intact.content, Null} /\ intact'.look \in {intact.look, {}}
    BY <2>2 DEF Puts, KeptOf
  <2>4. \A t \in Session : t # s => Knows(t)'
    BY <2>1, <2>3, EndKnows, StillKnows DEF PublishKnows, OthersPublishing
  <2>5. EditsKept'
    <3>1. CASE UNCHANGED draft /\ intact' = intact
      BY <2>1, <3>1 DEF EditsKept, CurrentContent, CurrentLook
    <3>2. CASE draft' = [content |-> content, look |-> look, updatedAt |-> date[s]]
      <4>1. draft' # NoDraft
        BY <2>2, <3>2, NoDraftAssumption DEF Puts, Draft, TypeOK
      <4>2. OrDraft(draft', "content") = content /\ OrDraft(draft', "look") = look
        BY <3>2, <4>1 DEF OrDraft
      <4>3. intact'.content \in {Null, CurrentContent'}
        <5>1. CASE content = OrDraft(draft, "content")
          BY <2>1, <2>2, <4>2, <5>1 DEF Puts, EditsKept, CurrentContent
        <5>2. CASE content # OrDraft(draft, "content")
          BY <2>2, <4>2, <5>2 DEF Puts, KeptOf, CurrentContent, Or
        <5> QED
          BY <5>1, <5>2
      <4>4. intact'.look \subseteq CurrentLook'
        <5>1. CASE look = OrDraft(draft, "look")
          BY <2>1, <2>2, <4>2, <5>1 DEF Puts, EditsKept, CurrentLook
        <5>2. CASE look # OrDraft(draft, "look")
          BY <2>2, <4>2, <5>2 DEF Puts, KeptOf, CurrentLook, Or
        <5> QED
          BY <5>1, <5>2
      <4> QED
        BY <4>3, <4>4 DEF EditsKept
    <3>3. intact = [content |-> intact.content, look |-> intact.look]
      BY DEF TypeOK
    <3> QED
      BY <2>2, <3>1, <3>2, <3>3 DEF Puts
  <2> QED
    BY <2>1, <2>4, <2>5, EndKnows DEF PublishKnows
<1>8. ASSUME NEW s \in Session, CommitAppearance(s) PROVE PublishKnows' /\ EditsKept'
  <2>1. /\ End(s) /\ profile'.content = profile.content /\ profile'.look = profile.look
        /\ intact'.content = intact.content
        /\ intact'.look = IF OthersPublishing(s) THEN intact.look ELSE intact.look \cup {edits'}
        /\ draft' = [content   |-> OrDraft(found[s], "content"),
                     look      |-> Or(OrDraft(found[s], "look"), copy[s].look) \cup {edits'},
                     updatedAt |-> date[s]]
    BY <1>8 DEF CommitAppearance, TypeOK, Profile
  <2>2. \A t \in Session : t # s => Knows(t)'
    BY <2>1, EndKnows, StillKnows DEF PublishKnows, OthersPublishing
  <2>3. /\ OrDraft(found[s], "content") = OrDraft(draft, "content")
        /\ OrDraft(found[s], "look") = OrDraft(draft, "look")
        /\ copy[s].look = profile.look
    BY <1>8, Found DEF CommitAppearance, LockHolds, Saving, TypeOK
  <2>4. CurrentContent' = CurrentContent /\ CurrentLook' = CurrentLook \cup {edits'}
    <3>1. draft' # NoDraft /\ draft'.look # Null
      BY <1>8, MergeSaves
    <3>2. /\ OrDraft(draft', "content") = OrDraft(draft, "content")
          /\ OrDraft(draft', "look") = Or(OrDraft(draft, "look"), profile.look) \cup {edits'}
          /\ OrDraft(draft', "look") # Null
      BY <2>1, <2>3, <3>1 DEF OrDraft
    <3> QED
      BY <2>1, <3>2 DEF CurrentContent, CurrentLook, Or
  <2>5. EditsKept'
    BY <2>1, <2>4 DEF EditsKept
  <2> QED
    BY <2>1, <2>2, <2>5, EndKnows DEF PublishKnows
<1>9. ASSUME NEW s \in Session, CommitPublish(s) PROVE PublishKnows' /\ EditsKept'
  <2>1. /\ End(s) /\ pc[s] = "save" /\ draft' = NoDraft
        /\ profile'.content = Published(s, "content") /\ profile'.look = Published(s, "look")
        /\ intact' = IF OthersPublishing(s) THEN [content |-> Null, look |-> {}] ELSE intact
    BY <1>9 DEF CommitPublish
  <2>2. \A t \in Session : t # s => Knows(t)'
    BY <2>1, EndKnows, StillKnows DEF PublishKnows, OthersPublishing
  <2>3. CurrentContent' = Published(s, "content") /\ CurrentLook' = Published(s, "look")
    BY <2>1 DEF CurrentContent, CurrentLook, OrDraft, Or
  <2>4. EditsKept'
    <3>1. Keeps(Published(s, "content"), Published(s, "look"))
      BY <2>1, PublishedKept DEF PublishKnows
    <3> QED
      BY <2>1, <2>3, <3>1 DEF Keeps, EditsKept
  <2> QED
    BY <2>1, <2>2, <2>4, EndKnows DEF PublishKnows
<1> QED
  BY <1>1, <1>2, <1>3, <1>4, <1>5, <1>6, <1>7, <1>8, <1>9
     DEF Next, BeginPut, BeginAppearance

(***************************************************************************)
(* Dates: a save or a publish stamps the date it writes, so a date that a  *)
(* browser had before and the draft gets anew has been used twice.         *)
(***************************************************************************)
\* A step that leaves the rows, and the dates that have been used.
LEMMA QuietDates ==
  ASSUME DatesKnown, UNCHANGED <<profile, draft, stamps, crowded>>,
         NEW s \in Session,
         \A t \in Session : t # s => /\ pc'[t] = pc[t] /\ date'[t] = date[t]
                                     /\ token'[t] = token[t],
         pc'[s] = "fetch" => date'[s] \in stamps,
         token'[s] # NoToken => token'[s] \in stamps,
         \/ shown' = shown /\ token'[s] = token[s]
         \/ shown' = shown \cup {s}
         \/ shown' = shown /\ draft = NoDraft
  PROVE  DatesKnown'
BY DEF DatesKnown

\* A step that stamps the draft it saves, or publishes it.
LEMMA StampedDates ==
  ASSUME TypeOK, DatesKnown, NEW s \in Session, date[s] \in Time, Stamp(date[s]),
         profile'.updatedAt \in {profile.updatedAt, date[s]},
         draft' # NoDraft => draft'.updatedAt = date[s],
         \A t \in Session : t # s => /\ pc'[t] = pc[t] /\ date'[t] = date[t]
                                     /\ token'[t] = token[t],
         pc'[s] = "idle",
         \/ token'[s] = token[s]
         \/ token'[s] = date[s] /\ (draft' # NoDraft => s \in shown')
  PROVE  DatesKnown'
<1>1. date[s] \in stamps' /\ stamps \subseteq stamps' /\ (date[s] \in stamps => date[s] \in crowded')
  BY DEF Stamp
<1>2. /\ profile'.updatedAt \in stamps'
      /\ draft' # NoDraft => draft'.updatedAt \in stamps'
  BY <1>1 DEF DatesKnown
<1>3. \A t \in Session : token[t] # NoToken => token[t] \in stamps
  BY DEF DatesKnown
<1>4. ASSUME NEW t \in Session PROVE pc'[t] = "fetch" => date'[t] \in stamps'
  BY <1>1 DEF DatesKnown
<1>5. ASSUME NEW t \in Session PROVE token'[t] # NoToken => token'[t] \in stamps'
  BY <1>1, <1>3
<1>6. ASSUME NEW t \in Session, draft' # NoDraft, draft'.updatedAt = token'[t]
      PROVE  t \in shown' \/ token'[t] \in crowded'
  <2>1. token'[t] = date[s] /\ date[s] # NoToken
    BY <1>6, DraftAssumption DEF Time
  <2>2. CASE token'[t] = token[t]
    BY <1>1, <1>3, <2>1, <2>2
  <2>3. CASE token'[t] # token[t]
    BY <1>6, <2>3
  <2> QED
    BY <2>2, <2>3
<1> QED
  BY <1>2, <1>4, <1>5, <1>6 DEF DatesKnown

(***************************************************************************)
(* Dates stay known.                                                       *)
(***************************************************************************)
LEMMA DatesStayKnown == TypeOK /\ LockHolds /\ DatesKnown /\ [Next]_vars => DatesKnown'
<1> SUFFICES ASSUME TypeOK, LockHolds, DatesKnown, [Next]_vars PROVE DatesKnown'
  OBVIOUS
<1> USE DEF store, requests, browsers, history
<1>1. CASE Tick \/ UNCHANGED vars
  BY <1>1 DEF Tick, vars, DatesKnown
<1>2. ASSUME NEW s \in Session,
             \/ LockForPut(s) \/ LockForMerge(s) \/ ReadDraft(s) \/ LoadForSave(s) \/ BeginPublish(s)
             \/ \E label \in {"put", "putChecked", "appearance"} : BeginTransaction(s, label)
      PROVE  DatesKnown'
  <2>1. /\ UNCHANGED <<profile, draft, stamps, crowded, token, shown>> /\ pc'[s] # "fetch"
        /\ \A t \in Session : t # s => pc'[t] = pc[t] /\ date'[t] = date[t]
    BY <1>2 DEF LockForPut, LockForMerge, Read, ReadDraft, LoadForSave, BeginPublish,
                BeginTransaction, GoTo, TypeOK
  <2> QED
    BY <2>1, QuietDates DEF DatesKnown
<1>3. ASSUME NEW s \in Session, FetchProfile(s) PROVE DatesKnown'
  <2>1. /\ UNCHANGED <<profile, draft, stamps, crowded, token, shown>> /\ date'[s] = profile.updatedAt
        /\ \A t \in Session : t # s => pc'[t] = pc[t] /\ date'[t] = date[t]
    BY <1>3 DEF FetchProfile, GoTo, TypeOK
  <2> QED
    BY <2>1, QuietDates DEF DatesKnown
<1>4. ASSUME NEW s \in Session, RefusePut(s) \/ NothingToPublish(s) \/ Fail(s) PROVE DatesKnown'
  <2>1. /\ UNCHANGED <<profile, draft, stamps, crowded, token, shown>> /\ pc'[s] = "idle"
        /\ \A t \in Session : t # s => pc'[t] = pc[t] /\ date'[t] = date[t]
    BY <1>4 DEF RefusePut, NothingToPublish, Fail, End, GoTo, TypeOK
  <2> QED
    BY <2>1, QuietDates DEF DatesKnown
<1>5. ASSUME NEW s \in Session, FetchDraft(s) PROVE DatesKnown'
  <2>1. /\ UNCHANGED <<profile, draft, stamps, crowded>> /\ pc[s] = "fetch" /\ pc'[s] = "idle"
        /\ token'[s] = IF draft = NoDraft THEN date[s] ELSE draft.updatedAt
        /\ shown' = IF draft = NoDraft THEN shown ELSE shown \cup {s}
        /\ \A t \in Session : t # s => /\ pc'[t] = pc[t] /\ date'[t] = date[t]
                                       /\ token'[t] = token[t]
    BY <1>5 DEF FetchDraft, Answer, End, GoTo, TypeOK
  <2>2. token'[s] \in stamps
    BY <2>1 DEF DatesKnown
  <2> QED
    BY <2>1, <2>2, QuietDates
<1>6. ASSUME NEW s \in Session, CommitPut(s) PROVE DatesKnown'
  <2>1. PICK content, look : Puts(s, content, look)
    BY <1>6, PutSaves
  <2>2. /\ profile' = profile /\ pc'[s] = "idle" /\ date[s] \in Time
        /\ \A t \in Session : t # s => pc'[t] = pc[t] /\ date'[t] = date[t]
    BY <1>6, PutSaves DEF End, GoTo, TypeOK
  <2>3. CASE UNCHANGED <<draft, stamps, crowded, token, shown>>
    BY <2>2, <2>3, QuietDates DEF DatesKnown
  <2>4. CASE /\ draft' = [content |-> content, look |-> look, updatedAt |-> date[s]]
             /\ Stamp(date[s]) /\ token' = [token EXCEPT ![s] = date[s]] /\ shown' = {s}
    <3>1. token'[s] = date[s] /\ \A t \in Session : t # s => token'[t] = token[t]
      BY <2>4 DEF TypeOK
    <3> QED
      BY <2>2, <2>4, <3>1, StampedDates
  <2> QED
    BY <2>1, <2>3, <2>4 DEF Puts
<1>7. ASSUME NEW s \in Session, CommitAppearance(s) PROVE DatesKnown'
  <2>1. /\ profile'.updatedAt \in {profile.updatedAt, date[s]} /\ draft'.updatedAt = date[s]
        /\ Stamp(date[s]) /\ pc'[s] = "idle" /\ token' = token
        /\ \A t \in Session : t # s => pc'[t] = pc[t] /\ date'[t] = date[t]
    BY <1>7 DEF CommitAppearance, End, GoTo, TypeOK, Profile
  <2> QED
    BY <1>7, <2>1, MergeSaves, StampedDates
<1>8. ASSUME NEW s \in Session, CommitPublish(s) PROVE DatesKnown'
  <2>1. /\ profile'.updatedAt = date[s] /\ draft' = NoDraft /\ date[s] \in Time
        /\ Stamp(date[s]) /\ pc'[s] = "idle" /\ token' = token
        /\ \A t \in Session : t # s => pc'[t] = pc[t] /\ date'[t] = date[t]
    BY <1>8 DEF CommitPublish, End, GoTo, TypeOK
  <2> QED
    BY <2>1, StampedDates
<1> QED
  BY <1>1, <1>2, <1>3, <1>4, <1>5, <1>6, <1>7, <1>8 DEF Next, BeginPut, BeginAppearance

\* Nothing is saved at the start, and nobody knows a date.
LEMMA DraftInit == Init => IInv
<1> SUFFICES ASSUME Init PROVE IInv
  OBVIOUS
<1>1. 0 \in Time /\ 1 \in Time /\ 0 \in Content /\ Blank \in ProfileColumns /\ {} \in Look
  BY DraftAssumption DEF Blank, ProfileColumns, Time, Content, Look
<1>2. TypeOK
  BY <1>1, DraftAssumption DEF Init, TypeOK, Profile
<1>3. LockHolds /\ PublishKnows /\ EditsKept
  BY DEF Init, LockHolds, Saving, PublishKnows, Knows, Publishing, EditsKept
<1>4. DatesKnown
  BY DEF Init, DatesKnown
<1> QED
  BY <1>2, <1>3, <1>4 DEF IInv

\* Every step keeps the invariant.
LEMMA DraftStep == IInv /\ [Next]_vars => IInv'
BY DraftTypesKept, LockKept, EditsStayKept, DatesStayKnown DEF IInv

\* So it always holds.
LEMMA DraftInvariant == Spec => []IInv
BY DraftInit, DraftStep, PTL DEF Spec

(***************************************************************************)
(* The rows, the requests and what browsers know keep to their types: no   *)
(* save is numbered beyond the bound, no publish writes what is not set.   *)
(***************************************************************************)
THEOREM DraftTypeCorrect == Spec => []TypeOK
BY DraftInvariant, PTL DEF IInv

(***************************************************************************)
(* No answered save is lost to another save or to a publish, for any       *)
(* number of sessions: upsertDraft and updateAppearance lock the profile's *)
(* row, and publishProfile writes the draft that it has read.  Content     *)
(* lasts until other content or null replaces it, an edit of the           *)
(* appearance until a PUT replaces or clears all of it.                    *)
(***************************************************************************)
THEOREM EditsAreKept == Spec => []EditsKept
BY DraftInvariant, PTL DEF IInv

(***************************************************************************)
(* A save with a token does not replace a draft that another save has      *)
(* changed since its browser got it, unless the token's millisecond was    *)
(* used twice.                                                             *)
(***************************************************************************)
THEOREM NoOverwriteUnseen == Spec => NoBlindOverwrite
<1>1. ASSUME IInv, NEW s \in Session, pc[s] = "puttingChecked", draft # NoDraft
      PROVE  s \in shown \/ token[s] \in crowded
  BY <1>1 DEF IInv, LockHolds, Saving, TokenAccepted, DatesKnown
<1>2. IInv /\ [Next]_vars =>
        [\A s \in Session :
           (pc[s] = "puttingChecked" /\ draft # NoDraft /\ CommitPut(s))
           => s \in shown \/ token[s] \in crowded]_vars
  BY <1>1
<1> QED
  BY <1>2, DraftInvariant, PTL DEF Spec, NoBlindOverwrite

-----------------------------------------------------------------------------
(***************************************************************************)
(* The rows of users, and the two together as the run has them.            *)
(***************************************************************************)

(***************************************************************************)
(* The columns that a request names have values of their columns.          *)
(***************************************************************************)
DtoOK(dto) ==
  /\ DOMAIN dto \subseteq ColumnName
  /\ "email" \in DOMAIN dto => dto.email \in Email
  /\ "provider" \in DOMAIN dto => dto.provider \in {"email", "google"}
  /\ "onboarded" \in DOMAIN dto => dto.onboarded \in BOOLEAN
  /\ "mode" \in DOMAIN dto => dto.mode \in {"light", "dark"}

\* What a call may have with it.
CallOK(call) ==
  \/ call = NotCalled
  \/ /\ call.at \in {"find", "taken", "write", "lock", "save"}
     /\ call.id \in AccountId
     /\ DtoOK(call.dto)
     /\ call.op = "insert" => call.dto \in Column
     /\ call.at = "save" => call.row \in Column

(***************************************************************************)
(* The type is not inductive: what is written to the rows is what the      *)
(* calls have been given and have read.                                    *)
(***************************************************************************)
AccountTypes ==
  /\ users \in [AccountId -> Column \cup {NoUser}]
  /\ called = [c \in AccountCall |-> called[c]]
  /\ \A c \in AccountCall : CallOK(called[c])

\* A row stays one when named columns of it are replaced.
LEMMA MergedRow ==
  ASSUME NEW row \in Column, NEW dto, DtoOK(dto)
  PROVE  With(row, dto) \in Column
<1>1. With(row, dto) = [email |-> With(row, dto).email, provider |-> With(row, dto).provider,
                        onboarded |-> With(row, dto).onboarded, mode |-> With(row, dto).mode]
  BY DEF With, ColumnName
<1>2. With(row, dto).email \in Email
  BY DEF With, ColumnName, DtoOK, Column
<1>3. With(row, dto).provider \in {"email", "google"}
  BY DEF With, ColumnName, DtoOK, Column
<1>4. With(row, dto).onboarded \in BOOLEAN
  BY DEF With, ColumnName, DtoOK, Column
<1>5. With(row, dto).mode \in {"light", "dark"}
  BY DEF With, ColumnName, DtoOK, Column
<1> QED
  BY <1>1, <1>2, <1>3, <1>4, <1>5 DEF Column

\* A row is a request for all of its columns.
LEMMA RowIsDto ==
  ASSUME NEW row \in Column PROVE DtoOK(row)
BY DEF Column, DtoOK, ColumnName

\* A call that goes to a place in front of the lock.
LEMMA CallGoes ==
  ASSUME AccountTypes, NEW c \in AccountCall, NEW op, NEW id \in AccountId,
         NEW label \in {"find", "taken", "write", "lock"}, NEW dto, DtoOK(dto),
         op = "insert" => dto \in Column, Goes(c, op, id, label, dto)
  PROVE  AccountTypes'
<1> DEFINE new == [at |-> label, op |-> op, id |-> id, dto |-> dto]
<1>1. CallOK(new)
  BY DEF CallOK
<1>2. called' = [called EXCEPT ![c] = new] /\ users' = users
  BY DEF Goes
<1> HIDE DEF new
<1> QED
  BY <1>1, <1>2 DEF AccountTypes

\* A call that ends.
LEMMA CallEnds ==
  ASSUME AccountTypes, NEW c \in AccountCall, Return(c),
         users' \in [AccountId -> Column \cup {NoUser}]
  PROVE  AccountTypes'
<1>1. CallOK(NotCalled)
  BY DEF CallOK
<1>2. called' = [called EXCEPT ![c] = NotCalled]
  BY DEF Return
<1> QED
  BY <1>1, <1>2 DEF AccountTypes

\* A call of the client begins with what it has been given.
LEMMA CallBegins ==
  ASSUME AccountTypes, NEW c \in AccountCall,
         \/ create(c) \/ createEmailUser(c) \/ createGoogleUser(c) \/ update(c)
         \/ markOnboardingComplete(c)
         \/ \E id \in AccountId : Begin(c, "remove", id, "find", [n \in {} |-> 0])
         \/ \E id \in AccountId, email \in Email :
              Begin(c, "updateEmail", id, "find", [email |-> Lower(email)])
         \/ \E id \in AccountId, dto \in Preference : Begin(c, "preferences", id, "find", dto)
  PROVE  AccountTypes'
<1>1. \A email \in Email : Lower(email) \in Email
  BY DEF Email, Lower
<1>2. ASSUME NEW id \in AccountId, NEW email \in Email, NEW provider \in {"email", "google"},
             NEW onboarded \in BOOLEAN,
             Begin(c, "insert", id, "taken", NewUser(email, provider, onboarded))
      PROVE  AccountTypes'
  <2>1. NewUser(email, provider, onboarded) \in Column
    BY DEF NewUser, Column
  <2> QED
    BY <1>2, <2>1, RowIsDto, CallGoes DEF Begin
<1>3. ASSUME NEW id \in AccountId, NEW op, op # "insert", NEW dto, DtoOK(dto),
             Begin(c, op, id, "find", dto)
      PROVE  AccountTypes'
  BY <1>3, CallGoes DEF Begin
<1>4. DtoOK([n \in {} |-> 0])
  BY DEF DtoOK
<1>5. DtoOK([onboarded |-> TRUE])
  BY DEF DtoOK, ColumnName
<1>6. \A email \in Email : DtoOK([email |-> email])
  BY DEF DtoOK, ColumnName
<1>7. \A dto \in Preference : DtoOK(dto)
  BY DEF DtoOK, ColumnName, Preference
<1>8. CASE create(c)
  BY <1>2, <1>8 DEF create
<1>9. CASE createEmailUser(c)
  BY <1>1, <1>2, <1>9 DEF createEmailUser
<1>10. CASE createGoogleUser(c)
  BY <1>1, <1>2, <1>10 DEF createGoogleUser
<1>11. CASE update(c)
  BY <1>3, <1>6, <1>11 DEF update
<1>12. CASE markOnboardingComplete(c)
  BY <1>3, <1>5, <1>12 DEF markOnboardingComplete
<1>13. CASE \E id \in AccountId : Begin(c, "remove", id, "find", [n \in {} |-> 0])
  BY <1>3, <1>4, <1>13
<1>14. CASE \E id \in AccountId, email \in Email :
              Begin(c, "updateEmail", id, "find", [email |-> Lower(email)])
  BY <1>1, <1>3, <1>6, <1>14
<1>15. CASE \E id \in AccountId, dto \in Preference : Begin(c, "preferences", id, "find", dto)
  BY <1>3, <1>7, <1>15
<1> QED
  BY <1>8, <1>9, <1>10, <1>11, <1>12, <1>13, <1>14, <1>15

\* A call under way is at a place in front of the lock or has the row.
LEMMA CallMoves ==
  ASSUME AccountTypes, NEW c \in AccountCall, called[c] # NotCalled, NEW op,
         op = "insert" => called[c].op = "insert",
         NEW label \in {"find", "taken", "write", "lock"}, MoveOn(c, op, label)
  PROVE  AccountTypes'
<1>1. called[c].id \in AccountId /\ DtoOK(called[c].dto)
      /\ (called[c].op = "insert" => called[c].dto \in Column)
  BY DEF AccountTypes, CallOK
<1> QED
  BY <1>1, CallGoes DEF MoveOn

\* Every step of a call keeps them.
LEMMA AccountTypesKept ==
  ASSUME AccountTypes, [ACNext]_accountVars
  PROVE  AccountTypes'
<1>1. users \in [AccountId -> Column \cup {NoUser}]
  BY DEF AccountTypes
<1>2. ASSUME NEW c \in AccountCall, called[c].at # "idle"
      PROVE  /\ called[c] # NotCalled
             /\ called[c].id \in AccountId /\ DtoOK(called[c].dto)
             /\ called[c].op = "insert" => called[c].dto \in Column
             /\ called[c].at = "save" => called[c].row \in Column
  BY <1>2 DEF AccountTypes, CallOK, NotCalled
<1>3. ASSUME NEW c \in AccountCall, Refuse(c) PROVE AccountTypes'
  BY <1>1, <1>3, CallEnds DEF Refuse
<1>4. ASSUME NEW c \in AccountCall, FindOne(c) PROVE AccountTypes'
  <2>1. called[c].at # "idle"
    BY <1>4 DEF FindOne
  <2>2. Refuse(c) \/ \E label \in {"lock", "write"} : MoveOn(c, called[c].op, label)
    BY <1>4 DEF FindOne
  <2> QED
    BY <1>2, <1>3, <2>1, <2>2, CallMoves
<1>5. ASSUME NEW c \in AccountCall, FindTaken(c) PROVE AccountTypes'
  <2>1. called[c].at # "idle"
    BY <1>5 DEF FindTaken
  <2>2. Refuse(c) \/ MoveOn(c, called[c].op, "write")
    BY <1>5 DEF FindTaken
  <2> QED
    BY <1>2, <1>3, <2>1, <2>2, CallMoves
<1>6. ASSUME NEW c \in AccountCall, InsertUser(c) PROVE AccountTypes'
  <2>1. called[c].op = "insert" /\ called[c].at # "idle" /\ Return(c)
    BY <1>6 DEF InsertUser, CalledAt
  <2>2. users' = users \/ users' = [users EXCEPT ![called[c].id] = called[c].dto]
    BY <1>6 DEF InsertUser
  <2>3. users' \in [AccountId -> Column \cup {NoUser}]
    BY <1>1, <1>2, <2>1, <2>2
  <2> QED
    BY <2>1, <2>3, CallEnds
<1>7. ASSUME NEW c \in AccountCall, UpdateColumns(c) PROVE AccountTypes'
  <2>1. called[c].at # "idle" /\ Return(c)
    BY <1>7 DEF UpdateColumns, CalledAt
  <2>2. \/ users' = users
        \/ /\ users[called[c].id] # NoUser
           /\ users' = [users EXCEPT ![called[c].id] = With(users[called[c].id], called[c].dto)]
    BY <1>7 DEF UpdateColumns
  <2>3. users[called[c].id] # NoUser => With(users[called[c].id], called[c].dto) \in Column
    BY <1>1, <1>2, <2>1, MergedRow
  <2>4. users' \in [AccountId -> Column \cup {NoUser}]
    BY <1>1, <1>2, <2>1, <2>2, <2>3
  <2> QED
    BY <2>1, <2>4, CallEnds
<1>8. ASSUME NEW c \in AccountCall, remove(c) PROVE AccountTypes'
  <2>1. CASE \E id \in AccountId : Begin(c, "remove", id, "find", [n \in {} |-> 0])
    BY <2>1, CallBegins
  <2>2. CASE /\ called[c].at = "write" /\ Return(c)
             /\ users' = [users EXCEPT ![called[c].id] = NoUser]
    <3>1. users' \in [AccountId -> Column \cup {NoUser}]
      BY <1>1, <1>2, <2>2
    <3> QED
      BY <2>2, <3>1, CallEnds
  <2> QED
    BY <1>8, <2>1, <2>2 DEF remove, CalledAt
<1>9. ASSUME NEW c \in AccountCall, updateEmail(c) PROVE AccountTypes'
  <2>1. CASE \E id \in AccountId, email \in Email :
               Begin(c, "updateEmail", id, "find", [email |-> Lower(email)])
    BY <2>1, CallBegins
  <2>2. CASE called[c].at # "idle" /\ (Refuse(c) \/ MoveOn(c, "update", "taken"))
    BY <1>2, <1>3, <2>2, CallMoves
  <2> QED
    BY <1>9, <2>1, <2>2 DEF updateEmail, CalledAt
<1>10. ASSUME NEW c \in AccountCall, updatePreferences(c) PROVE AccountTypes'
  <2>1. CASE \E id \in AccountId, dto \in Preference : Begin(c, "preferences", id, "find", dto)
    BY <2>1, CallBegins
  <2>2. CASE called[c].at = "lock" /\ Refuse(c)
    BY <1>3, <2>2
  <2>3. CASE /\ called[c].at = "lock" /\ called[c].op = "preferences"
             /\ users[called[c].id] # NoUser /\ UNCHANGED users
             /\ called' = [called EXCEPT ![c] = LockedRow(c)]
    <3>1. CallOK(LockedRow(c))
      BY <1>1, <1>2, <2>3 DEF CallOK, LockedRow
    <3> QED
      BY <2>3, <3>1 DEF AccountTypes
  <2>4. CASE /\ called[c].at = "save" /\ Return(c)
             /\ users' = [users EXCEPT ![called[c].id] = With(called[c].row, called[c].dto)]
    <3>1. With(called[c].row, called[c].dto) \in Column
      BY <1>2, <2>4, MergedRow
    <3>2. users' \in [AccountId -> Column \cup {NoUser}]
      BY <1>1, <1>2, <2>4, <3>1
    <3> QED
      BY <2>4, <3>2, CallEnds
  <2> QED
    BY <1>10, <2>1, <2>2, <2>3, <2>4 DEF updatePreferences, CalledAt
<1>11. CASE UNCHANGED accountVars
  BY <1>11 DEF accountVars, AccountTypes
<1> QED
  BY <1>3, <1>4, <1>5, <1>6, <1>7, <1>8, <1>9, <1>10, <1>11, CallBegins DEF ACNext, CallFails

\* There are no users, and nobody calls.
LEMMA AccountTypesBegin == ACInit => AccountTypes
BY DEF ACInit, AccountTypes, CallOK

\* They include the type.
LEMMA TypesOfAccounts == AccountTypes => ACTypeOK
BY DEF AccountTypes, CallOK, DtoOK, ACTypeOK

(***************************************************************************)
(* Whatever calls of UsersService overlap, fail or lose the race for an    *)
(* address, the rows of users hold values of their columns.                *)
(***************************************************************************)
THEOREM AccountTypesHold == ACSpec => []ACTypeOK
BY AccountTypesBegin, AccountTypesKept, TypesOfAccounts, PTL DEF ACSpec

(***************************************************************************)
(* Drafts and rows of users, one at a time, both keep to their types: a    *)
(* step of one is no step of the other.                                    *)
(***************************************************************************)
THEOREM DraftAndAccountTypesHold == MCSpec => []TypesOK
<1> DEFINE Typed == IInv /\ AccountTypes
<1>1. MCInit => Typed
  BY DraftInit, AccountTypesBegin DEF MCInit
<1>2. ASSUME Typed, [MCNext]_<<part, vars, accountVars>>
      PROVE  Typed'
  <2>1. [Next]_vars /\ [ACNext]_accountVars
    BY <1>2 DEF MCNext
  <2> QED
    BY <1>2, <2>1, DraftStep, AccountTypesKept
<1>3. Typed => TypesOK
  BY TypesOfAccounts DEF TypesOK, IInv
<1> QED
  BY <1>1, <1>2, <1>3, PTL DEF MCSpec
=============================================================================
