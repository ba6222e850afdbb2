------------------------ MODULE PublicProfile_proofs ------------------------
(***************************************************************************)
(* Type correctness of PublicProfile and the invariant that its re-check   *)
(* narrows what can go stale, for any visitors, sessions and bound.        *)
(***************************************************************************)
EXTENDS PublicProfile, TLAPS

(***************************************************************************)
(* What makes HiddenLeaksOnlyThroughGap inductive: a visit about to write  *)
(* its payload either sees a visible row or was overtaken.                 *)
(***************************************************************************)
WritersKnow == \A v \in Visitor : vpc[v] = "write" => Visible(row) \/ v \in overtaken

IInv == TypeOK /\ WritersKnow /\ HiddenLeaksOnlyThroughGap

\* The first state has the types, whatever the constants (createProfile not yet called).
LEMMA TypeInit == Init => TypeOK
<1>1. Blank \in Row /\ 0 \in Version
  BY ProfileAssumption DEF Blank, Row, Version
<1>2. Empty \in Entry
  BY DEF Empty, Entry
<1>3. Init => seen \in [Visitor -> [body : Version, items : Nat]]
  BY <1>1 DEF Init, Nothing
<1>4. Init => copy \in [Session -> Row] /\ loaded \in [Session -> Row]
  BY <1>1 DEF Init
<1>5. Init => items \in Nat
  BY DEF Init
<1> QED
  BY <1>1, <1>2, <1>3, <1>4, <1>5, Zenon DEF Init, TypeOK

\* save() leaves a row: it takes each column from the entity or from the row.
LEMMA SavedType == ASSUME TypeOK, NEW s \in Session PROVE Saved(s) \in Row
BY DEF TypeOK, Saved, Row, Column

\* Every step of a visit, of the owner and of Redis keeps the types.
LEMMA TypeInductive == TypeOK /\ [Next]_vars => TypeOK'
<1> SUFFICES ASSUME TypeOK, [Next]_vars PROVE TypeOK'
  OBVIOUS
<1> USE ProfileAssumption DEF TypeOK, Version
<1>1. CASE CreateProfile
  BY <1>1 DEF CreateProfile, Row, visits, sessions
<1>2. ASSUME NEW v \in Visitor, CacheMiss(v) \/ VisitStep(v) \/ VisitFails(v) \/ VisitDies(v)
      PROVE TypeOK'
  <2> USE DEF store, visits, sessions, VisitGoesTo, Leave, Nothing
  <2>1. CASE CacheMiss(v)  BY <2>1 DEF CacheMiss
  <2>2. CASE TryLock(v)  BY <2>2 DEF TryLock
  <2>3. CASE ReadProfile(v)  BY <2>3 DEF ReadProfile, Row
  <2>4. CASE ProfileMissing(v)  BY <2>4 DEF ProfileMissing
  <2>5. CASE WriteNotFound(v)  BY <2>5 DEF WriteNotFound, Entry
  <2>6. CASE ReadSections(v)  BY <2>6 DEF ReadSections
  <2>7. CASE Recheck(v)  BY <2>7 DEF Recheck
  <2>8. CASE WriteCache(v)  BY <2>8 DEF WriteCache, Entry
  <2>9. CASE Release(v)  BY <2>9 DEF Release
  <2>10. CASE VisitFails(v)  BY <2>10 DEF VisitFails
  <2>11. CASE VisitDies(v)  BY <2>11 DEF VisitDies
  <2> QED  BY <1>2, <2>1, <2>2, <2>3, <2>4, <2>5, <2>6, <2>7, <2>8, <2>9, <2>10, <2>11
           DEF VisitStep
<1>3. ASSUME NEW s \in Session,
             \/ \E isPublic \in BOOLEAN : UpdateVisibility(s, isPublic)
             \/ UpdateProfile(s) \/ PublishProfile(s) \/ PublishNothing(s) \/ ChangeSection(s)
             \/ RequestStep(s) \/ RequestFails(s) \/ InvalidateFails(s)
      PROVE TypeOK'
  <2> USE DEF store, visits, sessions, SessionGoesTo, Drop
  <2> Empty \in Entry  BY DEF Empty, Entry
  <2> Blank \in Row  BY DEF Blank, Row
  <2>1. ASSUME NEW label \in {"load", "saveSection", "invalidate"}, NEW entity \in Row,
               Start(s, label, entity)
        PROVE TypeOK'
    BY <2>1 DEF Start
  <2>2. ASSUME NEW isPublic \in BOOLEAN, UpdateVisibility(s, isPublic)  PROVE TypeOK'
    BY <2>2, <2>1 DEF UpdateVisibility, Row
  <2>3. CASE UpdateProfile(s)
    <3>1. changes + 1 \in Version  BY <2>3 DEF UpdateProfile, Start
    <3> QED  BY <2>3, <2>1, <3>1 DEF UpdateProfile, Row
  <2>4. CASE PublishProfile(s)
    <3>1. changes + 1 \in Version  BY <2>4 DEF PublishProfile, Start
    <3> QED  BY <2>4, <2>1, <3>1 DEF PublishProfile, Row
  <2>5. CASE PublishNothing(s)  BY <2>5, <2>1 DEF PublishNothing
  <2>6. CASE ChangeSection(s)  BY <2>6, <2>1 DEF ChangeSection
  <2>7. CASE LoadForSave(s)  BY <2>7 DEF LoadForSave
  <2>8. CASE SaveProfile(s)  BY <2>8, SavedType DEF SaveProfile
  <2>9. CASE SaveSection(s)  BY <2>9 DEF SaveSection
  <2>10. CASE InvalidateCache(s)  BY <2>10 DEF InvalidateCache
  <2>11. CASE RequestFails(s)  BY <2>11 DEF RequestFails
  <2>12. CASE InvalidateFails(s)  BY <2>12 DEF InvalidateFails
  <2> QED  BY <1>3, <2>2, <2>3, <2>4, <2>5, <2>6, <2>7, <2>8, <2>9, <2>10, <2>11, <2>12
           DEF RequestStep
<1>4. CASE CacheExpires  BY <1>4 DEF CacheExpires, store, visits, sessions, Entry, Empty
<1>5. CASE LockExpires  BY <1>5 DEF LockExpires, store, visits, sessions
<1>6. CASE UNCHANGED vars  BY <1>6 DEF vars, store, visits, sessions
<1> QED  BY <1>1, <1>2, <1>3, <1>4, <1>5, <1>6 DEF Next

(***************************************************************************)
(* TypeOK of the run profile_cache, for any visitors, sessions and bound.  *)
(***************************************************************************)
THEOREM ProfileTypeCorrect == Spec => []TypeOK
<1> QED  BY TypeInit, TypeInductive, PTL DEF Spec

(***************************************************************************)
(* A visit between its re-check and its SET knows whether it was           *)
(* overtaken, whatever a visit, the owner or Redis does.                   *)
(***************************************************************************)
LEMMA WritersInductive == TypeOK /\ WritersKnow /\ [Next]_vars => WritersKnow'
<1> SUFFICES ASSUME TypeOK, WritersKnow, [Next]_vars PROVE WritersKnow'
  OBVIOUS
<1> USE DEF TypeOK, WritersKnow
<1>1. CASE CreateProfile
  BY <1>1 DEF CreateProfile, Visible, visits
<1>2. ASSUME NEW v \in Visitor, CacheMiss(v) \/ VisitStep(v) \/ VisitFails(v) \/ VisitDies(v)
      PROVE WritersKnow'
  <2>1. UNCHANGED row
    BY <1>2 DEF store, CacheMiss, VisitStep, TryLock, ReadProfile, ProfileMissing, WriteNotFound,
               ReadSections, Recheck, WriteCache, Release, VisitFails, VisitDies
  <2>2. \A u \in Visitor \ {v} : vpc'[u] = vpc[u] /\ (u \in overtaken => u \in overtaken')
    BY <1>2 DEF VisitGoesTo, Leave, CacheMiss, VisitStep, TryLock, ReadProfile, ProfileMissing,
               WriteNotFound, ReadSections, Recheck, WriteCache, Release, VisitFails, VisitDies
  <2>3. vpc'[v] = "write" => Visible(row)
    BY <1>2 DEF VisitGoesTo, Leave, CacheMiss, VisitStep, TryLock, ReadProfile, ProfileMissing,
               WriteNotFound, ReadSections, Recheck, WriteCache, Release, VisitFails, VisitDies
  <2> QED  BY <2>1, <2>2, <2>3 DEF Visible
<1>3. ASSUME NEW s \in Session, SaveProfile(s)
      PROVE WritersKnow'
  BY <1>3 DEF SaveProfile, visits
<1>4. CASE UNCHANGED <<row, vpc, overtaken>>
  BY <1>4 DEF Visible
<1>5. ASSUME NEW s \in Session,
             \/ \E isPublic \in BOOLEAN : UpdateVisibility(s, isPublic)
             \/ UpdateProfile(s) \/ PublishProfile(s) \/ PublishNothing(s) \/ ChangeSection(s)
             \/ LoadForSave(s) \/ SaveSection(s) \/ InvalidateCache(s)
             \/ RequestFails(s) \/ InvalidateFails(s)
      PROVE UNCHANGED <<row, vpc, overtaken>>
  BY <1>5 DEF UpdateVisibility, UpdateProfile, PublishProfile, PublishNothing, ChangeSection,
             Start, LoadForSave, SaveSection, InvalidateCache, RequestFails, InvalidateFails,
             store, visits
<1>6. CacheExpires \/ LockExpires \/ UNCHANGED vars => UNCHANGED <<row, vpc, overtaken>>
  BY DEF CacheExpires, LockExpires, vars, store, visits
<1> QED
  BY <1>1, <1>2, <1>3, <1>4, <1>5, <1>6 DEF Next, RequestStep

(***************************************************************************)
(* HiddenLeaksOnlyThroughGap is inductive relative to the two above: only  *)
(* WriteCache fills the key and only SaveProfile hides the profile.        *)
(***************************************************************************)
LEMMA LeaksInductive ==
  TypeOK /\ WritersKnow /\ HiddenLeaksOnlyThroughGap /\ [Next]_vars
    => HiddenLeaksOnlyThroughGap'
<1> SUFFICES ASSUME TypeOK, WritersKnow, HiddenLeaksOnlyThroughGap, [Next]_vars
             PROVE HiddenLeaksOnlyThroughGap'
  OBVIOUS
<1> USE DEF HiddenLeaksOnlyThroughGap
<1>1. CASE CreateProfile
  BY <1>1 DEF CreateProfile, Visible, sessions
<1>2. ASSUME NEW v \in Visitor, WriteCache(v)
      PROVE HiddenLeaksOnlyThroughGap'
  BY <1>2 DEF WriteCache, WritersKnow, Visible, store
<1>3. ASSUME NEW v \in Visitor, WriteNotFound(v)
      PROVE HiddenLeaksOnlyThroughGap'
  BY <1>3 DEF WriteNotFound
<1>4. ASSUME NEW v \in Visitor,
             \/ CacheMiss(v) \/ TryLock(v) \/ ReadProfile(v) \/ ProfileMissing(v)
             \/ ReadSections(v) \/ Recheck(v) \/ Release(v) \/ VisitFails(v) \/ VisitDies(v)
      PROVE UNCHANGED <<row, cache, spc, tainted>>
  BY <1>4 DEF CacheMiss, TryLock, ReadProfile, ProfileMissing, ReadSections, Recheck, Release,
             VisitFails, VisitDies, store, sessions
<1>5. ASSUME NEW s \in Session, SaveProfile(s)
      PROVE HiddenLeaksOnlyThroughGap'
  <2>1. spc'[s] = "invalidate"
    BY <1>5 DEF SaveProfile, Drop, SessionGoesTo, TypeOK
  <2> QED  BY <2>1
<1>6. ASSUME NEW s \in Session, InvalidateCache(s) \/ InvalidateFails(s)
      PROVE HiddenLeaksOnlyThroughGap'
  <2>1. CASE InvalidateCache(s)
    <3>1. cache'.kind = "none"  BY <2>1 DEF InvalidateCache, Empty
    <3> QED  BY <3>1
  <2>2. CASE InvalidateFails(s)
    <3>1. cache' = cache /\ tainted' = (cache.kind = "payload")
      BY <2>2 DEF InvalidateFails
    <3> QED  BY <3>1, Zenon
  <2> QED  BY <1>6, <2>1, <2>2
<1>7. ASSUME NEW s \in Session,
             \/ \E isPublic \in BOOLEAN : UpdateVisibility(s, isPublic)
             \/ UpdateProfile(s) \/ PublishProfile(s) \/ PublishNothing(s) \/ ChangeSection(s)
             \/ LoadForSave(s) \/ SaveSection(s) \/ RequestFails(s)
      PROVE HiddenLeaksOnlyThroughGap'
  <2>1. UNCHANGED <<row, cache, tainted>>
    BY <1>7 DEF UpdateVisibility, UpdateProfile, PublishProfile, PublishNothing, ChangeSection,
               Start, LoadForSave, SaveSection, RequestFails, store
  <2>2. \A t \in Session : spc[t] = "invalidate" => spc'[t] = "invalidate"
    BY <1>7 DEF UpdateVisibility, UpdateProfile, PublishProfile, PublishNothing, ChangeSection,
               Start, LoadForSave, SaveSection, RequestFails, Drop, SessionGoesTo, TypeOK
  <2> QED  BY <2>1, <2>2 DEF Visible
<1>8. CASE CacheExpires
  BY <1>8 DEF CacheExpires, Empty
<1>9. LockExpires \/ UNCHANGED vars => UNCHANGED <<row, cache, spc, tainted>>
  BY DEF LockExpires, vars, store, sessions
<1>10. CASE UNCHANGED <<row, cache, spc, tainted>>
  BY <1>10 DEF Visible
<1> QED
  BY <1>1, <1>2, <1>3, <1>4, <1>5, <1>6, <1>7, <1>8, <1>9, <1>10 DEF Next, VisitStep, RequestStep

(***************************************************************************)
(* However many visits and saves overlap, a hidden profile is in the cache *)
(* only by way of the gap between re-check and SET, of an invalidation yet *)
(* to come or of one that failed.                                          *)
(***************************************************************************)
THEOREM HiddenRarelyLeaks == Spec => []HiddenLeaksOnlyThroughGap
<1>1. Init => IInv
  BY TypeInit DEF Init, IInv, WritersKnow, HiddenLeaksOnlyThroughGap, Empty
<1>2. IInv /\ [Next]_vars => IInv'
  BY TypeInductive, WritersInductive, LeaksInductive DEF IInv
<1>3. IInv => HiddenLeaksOnlyThroughGap
  BY DEF IInv
<1> QED  BY <1>1, <1>2, <1>3, PTL DEF Spec
=============================================================================
