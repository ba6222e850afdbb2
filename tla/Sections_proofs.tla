-------------------------- MODULE Sections_proofs --------------------------
(***************************************************************************)
(* Proofs about the sections of a profile and its links: lists keep the    *)
(* order that was answered, for any number of tabs and entries, and the    *)
(* lock of the links' cache excludes, for any number of checks.            *)
(***************************************************************************)
EXTENDS ProfileLinks, ProfileSections, FiniteSetTheorems, TLAPS

(***************************************************************************)
(* Links.                                                                  *)
(***************************************************************************)
(***************************************************************************)
(* What makes OneFiller inductive: as long as no lock has lapsed under a   *)
(* fill, a check that fills still has the lock it took.                    *)
(***************************************************************************)
FillerLocks == ~lapsed /\ Fillers # {} => linkLock

LinkInv == LKTypeOK /\ FillerLocks /\ OneFiller

\* Nothing is cached and nobody checks at the start.
LEMMA LinkInit == LKInit => LinkInv
<1> SUFFICES ASSUME LKInit PROVE LinkInv
  OBVIOUS
<1> USE LinksAssumption DEF LKInit
<1>1. LKTypeOK
  <2>1. poll \in [LinkCheck -> 0..LinkPolls - 1] /\ linkRead \in [LinkCheck -> Version]
    BY DEF Version
  <2>2. linkPc \in [LinkCheck -> LinkPcs]
    BY DEF LinkPcs
  <2>3. published \in Version
    BY DEF Version
  <2> QED  BY <2>1, <2>2, <2>3, Zenon DEF LKTypeOK
<1>2. Fillers = {}
  BY DEF Fillers, Filling
<1> QED  BY <1>1, <1>2 DEF LinkInv, FillerLocks, OneFiller

\* Every await of a check, every expiry and every publish keeps the types.
LEMMA LinkTypesInductive == LKTypeOK /\ [LKNext]_linkVars => LKTypeOK'
<1> SUFFICES ASSUME LKTypeOK, [LKNext]_linkVars PROVE LKTypeOK'
  OBVIOUS
<1> USE LinksAssumption DEF LKTypeOK, Version, LinkPcs, LinkGoTo, LinkAnswer
<1>1. ASSUME NEW c \in LinkCheck,
             \/ LookUp(c) \/ TakeLinkLock(c) \/ PollLinks(c) \/ ReadLinks(c)
             \/ FillLinks(c) \/ ReleaseLinkLock(c) \/ LinkCheckFails(c)
      PROVE LKTypeOK'
  <2>1. CASE LookUp(c)  BY <2>1 DEF LookUp
  <2>2. CASE TakeLinkLock(c)  BY <2>2 DEF TakeLinkLock
  <2>3. CASE PollLinks(c)  BY <2>3 DEF PollLinks
  <2>4. CASE ReadLinks(c)  BY <2>4 DEF ReadLinks
  <2>5. CASE FillLinks(c)  BY <2>5 DEF FillLinks
  <2>6. ASSUME SettleLapse PROVE lapsed' \in BOOLEAN
    BY <2>6, Zenon DEF SettleLapse
  <2>7. CASE ReleaseLinkLock(c)
    <3>1. linkLock' \in BOOLEAN /\ lapsed' \in BOOLEAN
      BY <2>6, <2>7, Zenon DEF ReleaseLinkLock
    <3>2. /\ linkPc' \in [LinkCheck -> LinkPcs] /\ poll' \in [LinkCheck -> 0..LinkPolls - 1]
          /\ linkRead' \in [LinkCheck -> Version]
      BY <2>7 DEF ReleaseLinkLock
    <3>3. UNCHANGED <<published, publishing, linkCache>>
      BY <2>7 DEF ReleaseLinkLock
    <3> QED  BY <3>1, <3>2, <3>3, Zenon
  <2>8. CASE LinkCheckFails(c)
    <3>1. linkLock' \in BOOLEAN
      BY <2>8, Zenon DEF LinkCheckFails
    <3> QED  BY <2>6, <2>8, <3>1 DEF LinkCheckFails
  <2> QED  BY <1>1, <2>1, <2>2, <2>3, <2>4, <2>5, <2>7, <2>8
<1>2. CASE LinkLockExpires
  <2>1. linkLock' = FALSE /\ lapsed' = (lapsed \/ Fillers # {})
    BY <1>2 DEF LinkLockExpires
  <2>2. linkLock' \in BOOLEAN /\ lapsed' \in BOOLEAN
    BY <2>1, Zenon
  <2>3. UNCHANGED <<published, publishing, linkCache, linkPc, poll, linkRead>>
    BY <1>2 DEF LinkLockExpires
  <2> QED  BY <2>2, <2>3, Zenon
<1>3. CASE LinkCacheExpires
  BY <1>3 DEF LinkCacheExpires
<1>4. CASE PublishLinks /\ UNCHANGED <<linkLock, linkPc, poll, linkRead, lapsed>>
  <2>1. published' \in Version /\ publishing' \in BOOLEAN /\ linkCache' \in Version \cup {NoLinks}
    <3>1. CASE publishing
      BY <1>4, <3>1, Zenon DEF PublishLinks
    <3>2. CASE ~publishing
      <4>1. published' = published + 1 /\ publishing' = TRUE /\ linkCache' = linkCache
            /\ published < MaxVersions
        BY <1>4, <3>2, Zenon DEF PublishLinks
      <4>2. published' \in Version
        BY <4>1
      <4> QED  BY <4>1, <4>2, Zenon
    <3> QED  BY <3>1, <3>2
  <2> QED  BY <1>4, <2>1, Zenon
<1>5. CASE UNCHANGED linkVars
  BY <1>5 DEF linkVars
<1> QED  BY <1>1, <1>2, <1>3, <1>4, <1>5 DEF LKNext

\* A check that goes from one await to another is a filler by its new await.
LEMMA FillersMove ==
  ASSUME LKTypeOK, NEW c \in LinkCheck, NEW label, LinkGoTo(c, label)
  PROVE  Fillers' = (Fillers \ {c}) \cup (IF label \in {"query", "fill", "unlock"} THEN {c} ELSE {})
BY DEF LKTypeOK, LinkGoTo, Fillers, Filling

\* Only a check that finds the lock free becomes a filler, and only its own end,
\* or a lapse, takes the lock away from it.
LEMMA LockExcludes == LinkInv /\ [LKNext]_linkVars => FillerLocks' /\ OneFiller'
<1> SUFFICES ASSUME LinkInv, [LKNext]_linkVars PROVE FillerLocks' /\ OneFiller'
  OBVIOUS
<1> USE DEF LinkInv, FillerLocks, OneFiller
<1>1. ASSUME NEW c \in LinkCheck, LookUp(c) \/ PollLinks(c) PROVE FillerLocks' /\ OneFiller'
  <2>1. /\ UNCHANGED <<linkLock, lapsed>>
        /\ UNCHANGED linkPc \/ LinkGoTo(c, "lock") \/ LinkGoTo(c, "idle")
    BY <1>1 DEF LookUp, PollLinks, LinkAnswer
  <2>2. Fillers' \subseteq Fillers
    BY <2>1, FillersMove DEF Fillers, Filling
  <2> QED  BY <2>1, <2>2
<1>2. ASSUME NEW c \in LinkCheck, TakeLinkLock(c) PROVE FillerLocks' /\ OneFiller'
  <2>1. linkLock' /\ UNCHANGED lapsed
    BY <1>2 DEF TakeLinkLock
  <2>2. CASE linkLock
    <3>1. Fillers' \subseteq Fillers
      BY <1>2, <2>2, FillersMove DEF TakeLinkLock
    <3> QED  BY <2>1, <3>1
  <2>3. CASE ~linkLock
    <3>1. Fillers' = (Fillers \ {c}) \cup {c}
      BY <1>2, <2>3, FillersMove DEF TakeLinkLock
    <3>2. lapsed \/ Fillers = {}
      BY <2>3
    <3> QED  BY <2>1, <3>1, <3>2
  <2> QED  BY <2>2, <2>3
<1>3. ASSUME NEW c \in LinkCheck, ReadLinks(c) \/ FillLinks(c) PROVE FillerLocks' /\ OneFiller'
  <2>1. /\ UNCHANGED <<linkLock, lapsed>> /\ c \in Fillers
        /\ LinkGoTo(c, "fill") \/ LinkGoTo(c, "unlock")
    BY <1>3 DEF ReadLinks, FillLinks, Fillers, Filling
  <2>2. Fillers' = Fillers
    BY <2>1, FillersMove
  <2> QED  BY <2>1, <2>2
<1>4. ASSUME NEW c \in LinkCheck, ReleaseLinkLock(c) \/ LinkCheckFails(c)
      PROVE FillerLocks' /\ OneFiller'
  <2>1. Fillers' = Fillers \ {c}
    <3>1. LinkGoTo(c, "idle")
      BY <1>4 DEF ReleaseLinkLock, LinkCheckFails, LinkAnswer
    <3> QED  BY <3>1, FillersMove
  <2>2. lapsed' = (lapsed /\ Fillers' # {})
    BY <1>4 DEF ReleaseLinkLock, LinkCheckFails, SettleLapse
  <2>3. c \notin Fillers /\ linkLock => linkLock'
    BY <1>4 DEF ReleaseLinkLock, LinkCheckFails, Fillers, Filling
  <2>4. CASE lapsed
    BY <2>1, <2>2, <2>4
  <2>5. CASE ~lapsed /\ c \in Fillers
    <3>1. Fillers' = {}
      BY <2>1, <2>5
    <3> QED  BY <3>1
  <2>6. CASE ~lapsed /\ c \notin Fillers
    BY <2>1, <2>2, <2>3, <2>6
  <2> QED  BY <2>4, <2>5, <2>6
<1>5. CASE LinkLockExpires
  <2>1. Fillers' = Fillers /\ lapsed' = (lapsed \/ Fillers # {})
    BY <1>5 DEF LinkLockExpires, Fillers, Filling
  <2> QED  BY <2>1
<1>6. CASE LinkCacheExpires \/ UNCHANGED <<linkLock, linkPc, lapsed>>
  <2>1. Fillers' = Fillers /\ UNCHANGED <<linkLock, lapsed>>
    BY <1>6 DEF LinkCacheExpires, Fillers, Filling
  <2> QED  BY <2>1
<1>7. UNCHANGED linkVars => UNCHANGED <<linkLock, linkPc, lapsed>>
  BY DEF linkVars
<1> QED  BY <1>1, <1>2, <1>3, <1>4, <1>5, <1>6, <1>7 DEF LKNext

\* Every step keeps both.
LEMMA LinkInductive == LinkInv /\ [LKNext]_linkVars => LinkInv'
BY LinkTypesInductive, LockExcludes DEF LinkInv

\* In every reachable state the cache, the lock and the checks have their types
\* (part of TypesOK).
THEOREM LinkTypes == LKSpec => []LKTypeOK
<1>1. LinkInv => LKTypeOK  BY DEF LinkInv
<1> QED  BY LinkInit, LinkInductive, <1>1, PTL DEF LKSpec

\* OneFiller: of any number of checks that validateProfileLink runs at once, one
\* queries the links and fills the key, until a lock lapses under a fill.
THEOREM LinkExclusion == LKSpec => []OneFiller
<1>1. LinkInv => OneFiller  BY DEF LinkInv
<1> QED  BY LinkInit, LinkInductive, <1>1, PTL DEF LKSpec

(***************************************************************************)
(* The lists of a profile.  The inductive invariant says what a request    *)
(* that is under way may rely on.                                          *)
(***************************************************************************)

\* A finite set of naturals that is not empty has a greatest element: else some such
\* set without one would be smallest.
LEMMA GreatestOfFinite ==
  ASSUME NEW S \in SUBSET Nat, IsFiniteSet(S), S # {}
  PROVE  \E m \in S : \A n \in S : n <= m
<1> DEFINE Topped(T) == \E m \in T : \A n \in T : n <= m
           Sizes == {k \in Nat : \E T \in SUBSET S : T # {} /\ ~Topped(T) /\ Cardinality(T) = k}
<1>1. SUFFICES ASSUME ~Topped(S) PROVE FALSE
  OBVIOUS
<1>2. Cardinality(S) \in Nat
  BY FS_CardinalityType
<1>3. Cardinality(S) \in Sizes /\ Sizes \subseteq Nat
  BY <1>1, <1>2
<1>4. PICK k \in Sizes : \A l \in Sizes : ~ (<<l, k>> \in OpToRel(<, Nat))
  BY <1>3, NatLessThanWellFounded, WFMin
<1>5. \A l \in Sizes : ~ l < k
  BY <1>3, <1>4 DEF OpToRel
<1>6. PICK T \in SUBSET S : T # {} /\ ~Topped(T) /\ Cardinality(T) = k
  OBVIOUS
<1>7. PICK x \in T : TRUE
  BY <1>6
<1>8. Cardinality(T \ {x}) = k - 1
  BY <1>6, FS_Subset, FS_RemoveElement
<1>9. T \ {x} # {}
  BY <1>6, <1>7
<1>10. Topped(T \ {x})
  <2>1. k \in Nat /\ k # 0
    BY <1>6, FS_Subset, FS_EmptySet
  <2>2. k - 1 \in Nat /\ k - 1 < k
    BY <2>1
  <2>3. k - 1 \notin Sizes
    BY <1>5, <2>2
  <2> QED
    BY <1>8, <1>9, <2>2, <2>3
<1>11. PICK m \in T \ {x} : \A n \in T \ {x} : n <= m
  BY <1>10
<1>12. x \in Nat /\ m \in Nat
  OBVIOUS
<1>13. CASE x <= m
  BY <1>6, <1>11, <1>13
<1>14. CASE m < x
  <2>1. \A n \in T \ {x} : n \in Nat /\ n <= x
    BY <1>11, <1>12, <1>14
  <2>2. \A n \in T : n <= x
    BY <1>12, <2>1
  <2> QED
    BY <1>6, <1>7, <2>2
<1> QED
  BY <1>12, <1>13, <1>14

\* Max, as the community module chooses it, is that element.
LEMMA MaxIsGreatest ==
  ASSUME NEW S \in SUBSET Nat, IsFiniteSet(S), S # {}
  PROVE  Sets!Max(S) \in S /\ \A n \in S : n <= Sets!Max(S)
<1>1. PICK m \in S : \A n \in S : m >= n
  BY GreatestOfFinite
<1> QED
  BY <1>1 DEF Sets!Max

\* A row has the dates that its list asks for.
Checked(row) ==
  /\ list = "education" => EndYearAfterStartYear(row)
  /\ list = "workExperience" => validateWorkExperienceDates(row)

SameDates(row, other) ==
  row.start = other.start /\ row.end = other.end /\ row.isCurrent = other.isCurrent

\* There have been rows with these ids.
Known(ids) == ids \subseteq Present \cup removed

IdsKnown ==
  /\ IsFiniteSet(Present) /\ removed \subseteq EntriesOf[list]
  /\ \A c \in Editor : edit[c].at \in {"merge", "write", "remove"} => Known({edit[c].id})
  /\ \A i \in DOMAIN arranged : Known({arranged[i]})

\* An update whose entry has gone is one of those that may insert it again.
GhostsKnown ==
  /\ DeletedStaysDeleted
  /\ \A c \in Editor : At(c, "merge") /\ edit[c].id \in removed => edit[c].id \in ghosts
  /\ \A c \in Editor : At(c, "write") /\ edit[c].stored = NoRow => edit[c].id \in ghosts

\* What is to be written has been checked against dates that are still there.
WritesChecked ==
  /\ DatesConsistent
  /\ \A c \in Editor : At(c, "write") =>
       /\ Checked(edit[c].row)
       /\ edit[c].id \in Present \ mixed /\ edit[c].stored # NoRow =>
            SameDates(edit[c].stored, entries[edit[c].id])

\* The one reorder under way has locked the rows that it names.
LocksHeld ==
  \A c \in Editor : At(c, "renumber") =>
    /\ lockedRows = {edit[c].order[i] : i \in DOMAIN edit[c].order}
    /\ lockedRows # {}
    /\ \A d \in Editor : At(d, "renumber") => d = c

\* What is or will be inserted has a position behind those there were.
PositionsGrow ==
  ~tied =>
    /\ \A i, j \in Present : i # j => entries[i].displayOrder # entries[j].displayOrder
    /\ \A c \in Editor, id \in Present :
         At(c, "insert") => entries[id].displayOrder < edit[c].displayOrder
    /\ \A id \in Present \ lockedRows, locked \in lockedRows :
         entries[locked].displayOrder < entries[id].displayOrder

\* The entries of the order that has been answered are in their places, and what
\* updates have read or will write of them are the same places.
InPlace ==
  \A i \in DOMAIN arranged :
    /\ arranged[i] \in Present => entries[arranged[i]].displayOrder = i - 1
    /\ \A c \in Editor : At(c, "merge") /\ edit[c].id = arranged[i] =>
         edit[c].row.displayOrder = i - 1
    /\ \A c \in Editor : At(c, "write") /\ edit[c].id = arranged[i] /\ MovesEntry(c) =>
         edit[c].row.displayOrder = i - 1

SectionsInv ==
  /\ PSTypeOK /\ IdsKnown /\ GhostsKnown /\ WritesChecked
  /\ LocksHeld /\ PositionsGrow /\ InPlace

\* Only the request of c goes on.
GoesAlone(c) == edit' \in [Editor -> Edit] /\ \A d \in Editor : d # c => edit'[d] = edit[d]

\* The step is one of a request that reads.
Still == UNCHANGED <<list, entries, lockedRows, removed, ghosts, arranged, tied, mixed>>

\* What a request has with it, by where it is.
LEMMA EditKinds ==
  ASSUME PSTypeOK, NEW c \in Editor
  PROVE  /\ At(c, "insert") => edit[c].displayOrder \in Nat
         /\ At(c, "merge") => edit[c].id \in Entry /\ edit[c].row \in Row
         /\ At(c, "write") =>
              edit[c].id \in Entry /\ edit[c].row \in Row /\ edit[c].stored \in MaybeRow
         /\ At(c, "remove") => edit[c].id \in Entry
         /\ At(c, "renumber") => edit[c].order \in Seq(Entry)
         /\ edit[c].at \in {"idle", "insert", "merge", "write", "remove", "renumber"}
         /\ edit[c].at = "idle" => Idle(c)
<1>1. edit[c] \in Edit
  BY DEF PSTypeOK
<1> QED
  BY <1>1 DEF Edit, NoEdit, At, Idle

\* A request that goes on to something leaves the others alone.
LEMMA WentOn ==
  ASSUME PSTypeOK, NEW c \in Editor, NEW r \in Edit, GoOn(c, r)
  PROVE  GoesAlone(c) /\ edit'[c] = r
BY DEF PSTypeOK, GoOn, GoesAlone

\* So does one that ends.
LEMMA WasDone ==
  ASSUME PSTypeOK, NEW c \in Editor, Done(c)
  PROVE  GoesAlone(c) /\ edit'[c] = NoEdit
<1>1. NoEdit \in Edit
  BY DEF Edit
<1> QED
  BY <1>1, WentOn DEF Done

\* The ids of a list are ids.
LEMMA IdsOfList == list \in List => EntriesOf[list] \subseteq Entry
BY DEF Entry

\* The entries that are present are those with a row.
LEMMA PresentIs ==
  ASSUME PSTypeOK
  PROVE  /\ Present \subseteq Entry
         /\ \A id \in Entry : id \in Present <=> entries[id] # NoRow
         /\ \A id \in Present : entries[id] \in Row
BY DEF PSTypeOK, Present, MaybeRow

\* nextOrder is behind every entry.
LEMMA NextOrderAbove ==
  ASSUME PSTypeOK, IsFiniteSet(Present)
  PROVE  NextOrder(Present) \in Nat
         /\ \A id \in Present : entries[id].displayOrder < NextOrder(Present)
<1> DEFINE orders == {entries[id].displayOrder : id \in Present}
           Of == [id \in Present |-> entries[id].displayOrder]
<1>1. \A id \in Present : entries[id].displayOrder \in Nat
  BY PresentIs DEF Row
<1>2. orders \in SUBSET Nat
  BY <1>1
<1>3. Of \in Surjection(Present, orders)
  BY DEF Surjection
<1>4. IsFiniteSet(orders)
  BY <1>3, FS_Surjection
<1>5. CASE orders = {}
  <2>1. Present = {}
    BY <1>5
  <2>2. NextOrder(Present) = 0
    BY <1>5 DEF NextOrder
  <2> QED
    BY <2>1, <2>2
<1>6. CASE orders # {}
  <2>1. Sets!Max(orders) \in orders /\ \A n \in orders : n <= Sets!Max(orders)
    BY <1>2, <1>4, <1>6, MaxIsGreatest
  <2>2. NextOrder(Present) = Sets!Max(orders) + 1
    BY <1>6 DEF NextOrder
  <2>3. Sets!Max(orders) \in Nat
    BY <1>2, <2>1
  <2>4. ASSUME NEW id \in Present PROVE entries[id].displayOrder <= Sets!Max(orders)
    BY <2>1
  <2> DEFINE greatest == Sets!Max(orders)
  <2> HIDE DEF greatest
  <2>5. greatest \in Nat /\ NextOrder(Present) = greatest + 1
        /\ \A id \in Present : entries[id].displayOrder <= greatest
    BY <2>2, <2>3, <2>4 DEF greatest
  <2> QED
    BY <1>1, <2>5
<1> QED
  BY <1>5, <1>6

\* What the steps of the requests do, action by action. A create takes a position
\* behind all.
LEMMA ReadMaxDoes ==
  ASSUME SectionsInv, NEW c \in Editor, ReadMax(c)
  PROVE  /\ GoesAlone(c) /\ Still
         /\ edit'[c].at = "insert" /\ edit'[c].displayOrder \in Nat
         /\ \A id \in Present : entries[id].displayOrder < edit'[c].displayOrder
<1> DEFINE n == NextOrder(Present)
<1>1. PSTypeOK /\ IsFiniteSet(Present)
  BY DEF SectionsInv, IdsKnown
<1>2. n \in Nat /\ \A id \in Present : entries[id].displayOrder < n
  BY <1>1, NextOrderAbove
<1> HIDE DEF n
<1>3. [at |-> "insert", displayOrder |-> n] \in Edit
  BY <1>2 DEF Edit
<1>4. GoOn(c, [at |-> "insert", displayOrder |-> n]) /\ Still
  BY DEF ReadMax, Still, n
<1>5. GoesAlone(c) /\ edit'[c] = [at |-> "insert", displayOrder |-> n]
  BY <1>1, <1>3, <1>4, WentOn
<1> QED
  BY <1>2, <1>4, <1>5

\* An update has read the row as it is.
LEMMA ReadOwnedDoes ==
  ASSUME SectionsInv, NEW c \in Editor, NEW label \in {"merge", "remove"}, ReadOwned(c, label)
  PROVE  /\ GoesAlone(c) /\ Still
         /\ edit'[c].at = label /\ edit'[c].id \in Present
         /\ label = "merge" => edit'[c].row = entries[edit'[c].id]
<1>1. PSTypeOK
  BY DEF SectionsInv
<1>2. PICK id \in Present :
        GoOn(c, IF label = "merge" THEN [at |-> "merge", id |-> id, row |-> entries[id]]
                                   ELSE [at |-> label, id |-> id])
  BY DEF ReadOwned
<1>3. id \in Entry /\ entries[id] \in Row
  BY <1>1, PresentIs
<1>4. Still
  BY DEF ReadOwned, Still
<1>5. CASE label = "merge"
  <2>1. [at |-> "merge", id |-> id, row |-> entries[id]] \in Edit
    BY <1>3 DEF Edit
  <2>2. GoesAlone(c) /\ edit'[c] = [at |-> "merge", id |-> id, row |-> entries[id]]
    BY <1>1, <1>2, <1>5, <2>1, WentOn
  <2> QED
    BY <1>4, <1>5, <2>2
<1>6. CASE label = "remove"
  <2>1. [at |-> "remove", id |-> id] \in Edit
    BY <1>3 DEF Edit
  <2>2. GoesAlone(c) /\ edit'[c] = [at |-> "remove", id |-> id]
    BY <1>1, <1>2, <1>6, <2>1, WentOn
  <2> QED
    BY <1>4, <1>6, <2>2
<1> QED
  BY <1>5, <1>6

\* save() has read the row as it is now.
LEMMA LoadStoredDoes ==
  ASSUME SectionsInv, NEW c \in Editor, At(c, "merge"), NEW row \in Row, LoadStored(c, row)
  PROVE  /\ GoesAlone(c) /\ Still
         /\ edit'[c].at = "write" /\ edit'[c].id = edit[c].id /\ edit'[c].row = row
         /\ edit'[c].stored = entries[edit[c].id]
<1> DEFINE r == [at |-> "write", id |-> edit[c].id, row |-> row, stored |-> entries[edit[c].id]]
<1>1. PSTypeOK /\ edit[c].id \in Entry
  BY EditKinds DEF SectionsInv
<1>2. entries[edit[c].id] \in MaybeRow
  BY <1>1 DEF PSTypeOK
<1>3. r \in Edit
  BY <1>1, <1>2 DEF Edit
<1>4. GoOn(c, r) /\ Still
  BY DEF LoadStored, Still
<1>5. GoesAlone(c) /\ edit'[c] = r
  BY <1>1, <1>3, <1>4, WentOn
<1> QED
  BY <1>4, <1>5

\* Storing a row makes its entry present and touches no other.
LEMMA RowStored ==
  ASSUME PSTypeOK, NEW id \in Entry, id \in EntriesOf[list], NEW row \in Row,
         entries' = [entries EXCEPT ![id] = row]
  PROVE  /\ entries' \in [Entry -> MaybeRow] /\ entries'[id] = row
         /\ \A other \in Entry : other # id => entries'[other] = entries[other]
         /\ Present' = Present \cup {id} /\ id \in Present' /\ Present' \subseteq EntriesOf[list]
         /\ IsFiniteSet(Present) => IsFiniteSet(Present')
<1>1. row \in MaybeRow /\ row # NoRow
  BY NoRowAssumption DEF MaybeRow
<1>2. /\ entries' \in [Entry -> MaybeRow] /\ entries'[id] = row
      /\ \A other \in Entry : other # id => entries'[other] = entries[other]
  BY <1>1 DEF PSTypeOK
<1>3. Present' = Present \cup {id}
  BY <1>1, <1>2 DEF Present
<1> QED
  BY <1>2, <1>3, FS_AddElement DEF PSTypeOK

\* A create adds an entry that there has never been, at the position it took.
LEMMA InsertDoes ==
  ASSUME SectionsInv, NEW c \in Editor, NEW start \in Date, NEW end \in Date \cup {Ongoing},
         NEW isCurrent \in BOOLEAN, Insert(c, start, end, isCurrent)
  PROVE  /\ GoesAlone(c) /\ edit'[c] = NoEdit /\ At(c, "insert")
         /\ entries' \in [Entry -> MaybeRow]
         /\ \E id \in Entry \ (Present \cup removed) :
              /\ entries'[id] \in Row /\ entries'[id].displayOrder = edit[c].displayOrder
              /\ entries'[id].start = start /\ entries'[id].end = end
              /\ entries'[id].isCurrent = isCurrent
              /\ \A other \in Entry : other # id => entries'[other] = entries[other]
              /\ Present' = Present \cup {id}
         /\ Present' \subseteq EntriesOf[list] /\ IsFiniteSet(Present')
         /\ ~tied' => ~tied /\ \A d \in Editor : d # c => ~At(d, "insert")
         /\ tied' \in BOOLEAN
         /\ UNCHANGED <<list, lockedRows, removed, ghosts, arranged, mixed>>
<1> DEFINE row == [displayOrder |-> edit[c].displayOrder, start |-> start, end |-> end,
                   isCurrent |-> isCurrent]
<1>1. PSTypeOK /\ At(c, "insert") /\ edit[c].displayOrder \in Nat
  BY EditKinds DEF SectionsInv, Insert
<1>2. row \in Row
  BY <1>1 DEF Row
<1>3. PICK id \in EntriesOf[list] \ (Present \cup removed) : entries' = [entries EXCEPT ![id] = row]
  BY DEF Insert
<1>4. GoesAlone(c) /\ edit'[c] = NoEdit
  BY <1>1, WasDone DEF Insert
<1>5. id \in Entry
  BY <1>1, IdsOfList DEF PSTypeOK
<1>6. /\ entries' \in [Entry -> MaybeRow] /\ entries'[id] = row
      /\ \A other \in Entry : other # id => entries'[other] = entries[other]
      /\ Present' = Present \cup {id} /\ Present' \subseteq EntriesOf[list] /\ IsFiniteSet(Present')
  BY <1>1, <1>2, <1>3, <1>5, RowStored DEF SectionsInv, IdsKnown
<1>7. /\ row.displayOrder = edit[c].displayOrder
      /\ row.start = start /\ row.end = end /\ row.isCurrent = isCurrent
  OBVIOUS
<1>8. /\ ~tied' => ~tied /\ \A d \in Editor : d # c => ~At(d, "insert")
      /\ tied' \in BOOLEAN
      /\ UNCHANGED <<list, lockedRows, removed, ghosts, arranged, mixed>>
  BY <1>1 DEF Insert, PSTypeOK
<1> QED
  BY <1>1, <1>2, <1>3, <1>4, <1>5, <1>6, <1>7, <1>8

\* What save() leaves has the position that it moves the entry to, or the one there
\* is now, and the dates that were checked if those it has read are still there.
LEMMA SavedRow ==
  ASSUME NEW row \in Row, NEW stored \in MaybeRow, NEW current \in MaybeRow, Hits(stored, current)
  PROVE  LET saved == Saved(row, stored, current)
         IN  /\ saved \in Row
             /\ stored = NoRow => current = NoRow /\ saved = row
             /\ stored # NoRow =>
                  /\ current # NoRow
                  /\ saved.displayOrder = IF row.displayOrder # stored.displayOrder
                                          THEN row.displayOrder ELSE current.displayOrder
                  /\ SameDates(stored, current) => SameDates(row, saved)
<1>1. (stored = NoRow) <=> (current = NoRow)
  BY DEF Hits
<1>2. CASE stored = NoRow
  BY <1>1, <1>2 DEF Saved
<1>3. CASE stored # NoRow
  <2>1. stored \in Row /\ current \in Row
    BY <1>1, <1>3 DEF MaybeRow
  <2> DEFINE order == IF row.displayOrder # stored.displayOrder
                      THEN row.displayOrder ELSE current.displayOrder
             start == IF row.start # stored.start THEN row.start ELSE current.start
             end == IF row.end # stored.end THEN row.end ELSE current.end
             isCurrent == IF row.isCurrent # stored.isCurrent THEN row.isCurrent ELSE current.isCurrent
             saved == [displayOrder |-> order, start |-> start, end |-> end,
                       isCurrent |-> isCurrent]
  <2>2. Saved(row, stored, current) = saved
    BY <1>1, <1>3 DEF Saved
  <2>3. order \in Nat /\ start \in Date /\ end \in Date \cup {Ongoing} /\ isCurrent \in BOOLEAN
    BY <2>1 DEF Row
  <2>4. SameDates(stored, current) => start = row.start /\ end = row.end /\ isCurrent = row.isCurrent
    BY DEF SameDates
  <2>5. /\ saved.displayOrder = order /\ saved.start = start /\ saved.end = end
        /\ saved.isCurrent = isCurrent
    OBVIOUS
  <2>6. saved \in Row
    BY <2>3 DEF Row
  <2> HIDE DEF saved, start, end, isCurrent
  <2>7. SameDates(stored, current) => SameDates(row, saved)
    BY <2>4, <2>5 DEF SameDates
  <2> QED
    BY <1>1, <1>3, <2>2, <2>5, <2>6, <2>7
<1> QED
  BY <1>2, <1>3

\* save() writes that row or nothing, and tells whether it has moved or mixed it.
LEMMA WriteStoredDoes ==
  ASSUME SectionsInv, NEW c \in Editor, WriteStored(c)
  PROVE  LET id == edit[c].id
             row == edit[c].row
             stored == edit[c].stored
         IN  /\ GoesAlone(c) /\ edit'[c] = NoEdit /\ At(c, "write") /\ id \notin lockedRows
             /\ \/ /\ entries' = entries /\ (tied' = tied)
                   /\ mixed \subseteq mixed'
                \/ /\ \E saved \in Row :
                        /\ entries' = [entries EXCEPT ![id] = saved]
                        /\ stored = NoRow => entries[id] = NoRow /\ saved = row
                        /\ stored # NoRow =>
                             /\ entries[id] # NoRow
                             /\ saved.displayOrder =
                                  IF row.displayOrder # stored.displayOrder
                                  THEN row.displayOrder ELSE entries[id].displayOrder
                             /\ SameDates(stored, entries[id]) => SameDates(row, saved)
                   /\ ~tied' => ~tied /\ ~MovesEntry(c)
             /\ mixed' \subseteq mixed \cup {id} /\ mixed \ {id} \subseteq mixed'
             /\ id \in mixed \ mixed' => entries[id] = stored
             /\ \A d \in Editor : d # c /\ At(d, "write") /\ edit[d].id = id => id \in mixed'
             /\ tied' \in BOOLEAN
             /\ UNCHANGED <<list, lockedRows, removed, ghosts, arranged>>
<1> DEFINE id == edit[c].id
           row == edit[c].row
           stored == edit[c].stored
           others == {d \in Editor \ {c} : At(d, "write") /\ edit[d].id = id}
<1>1. PSTypeOK /\ At(c, "write") /\ id \in Entry /\ row \in Row /\ stored \in MaybeRow
  BY EditKinds DEF SectionsInv, WriteStored
<1>2. entries[id] \in MaybeRow
  BY <1>1 DEF PSTypeOK
<1>3. GoesAlone(c) /\ edit'[c] = NoEdit
  BY <1>1, WasDone DEF WriteStored
<1>4. mixed' = IF others # {} THEN mixed \cup {id}
               ELSE IF entries[id] = stored THEN mixed \ {id} ELSE mixed
  BY DEF WriteStored
<1>5. /\ \A d \in Editor : d # c /\ At(d, "write") /\ edit[d].id = id => d \in others
      /\ others # {} \/ entries[id] = stored \/ mixed' = mixed
      /\ others # {} => mixed' = mixed \cup {id}
      /\ others = {} /\ entries[id] = stored => mixed' = mixed \ {id}
  BY <1>4
<1>6. id \notin lockedRows /\ UNCHANGED <<list, lockedRows, removed, ghosts, arranged>>
  BY DEF WriteStored
<1>7. tied' = (tied \/ (Hits(stored, entries[id]) /\ MovesEntry(c))) /\ tied' \in BOOLEAN
  BY <1>1 DEF WriteStored, PSTypeOK
<1>8. CASE Hits(stored, entries[id])
  <2> DEFINE saved == Saved(row, stored, entries[id])
  <2>1. entries' = [entries EXCEPT ![id] = saved]
    BY <1>8 DEF WriteStored
  <2>2. /\ saved \in Row
        /\ stored = NoRow => entries[id] = NoRow /\ saved = row
        /\ stored # NoRow =>
             /\ entries[id] # NoRow
             /\ saved.displayOrder = IF row.displayOrder # stored.displayOrder
                                     THEN row.displayOrder ELSE entries[id].displayOrder
             /\ SameDates(stored, entries[id]) => SameDates(row, saved)
    BY <1>1, <1>2, <1>8, SavedRow
  <2> HIDE DEF saved
  <2>3. ~tied' => ~tied /\ ~MovesEntry(c)
    BY <1>7, <1>8
  <2>4. /\ mixed' \subseteq mixed \cup {id} /\ mixed \ {id} \subseteq mixed'
        /\ id \in mixed \ mixed' => entries[id] = stored
        /\ \A d \in Editor : d # c /\ At(d, "write") /\ edit[d].id = id => id \in mixed'
    <3> HIDE DEF others, id, stored
    <3> QED
      BY <1>5
  <2> QED
    BY <1>1, <1>3, <1>6, <1>7, <2>1, <2>2, <2>3, <2>4
<1>9. CASE ~Hits(stored, entries[id])
  <2>1. entries' = entries /\ (tied' = tied)
    BY <1>7, <1>9 DEF WriteStored, SectionsInv, PSTypeOK
  <2>2. entries[id] # stored
    BY <1>9 DEF Hits
  <2>3. /\ mixed \subseteq mixed' /\ mixed' \subseteq mixed \cup {id}
        /\ \A d \in Editor : d # c /\ At(d, "write") /\ edit[d].id = id => id \in mixed'
    <3> HIDE DEF others, id, stored
    <3> QED
      BY <1>5, <2>2
  <2> QED
    BY <1>1, <1>3, <1>6, <1>7, <2>1, <2>3
<1> QED
  BY <1>8, <1>9

\* Who names an entry names one of the list, present or deleted.
LEMMA WriteTargets ==
  ASSUME SectionsInv, NEW c \in Editor, edit[c].at \in {"merge", "write", "remove"}
  PROVE  edit[c].id \in Entry \cap EntriesOf[list] /\ edit[c].id \in Present \cup removed
<1>1. PSTypeOK /\ edit[c].id \in Entry
  BY EditKinds DEF SectionsInv, At
<1>2. edit[c].id \in Present \cup removed /\ removed \subseteq EntriesOf[list]
  BY DEF SectionsInv, IdsKnown, Known
<1> QED
  BY <1>1, <1>2 DEF PSTypeOK

\* Only the row of the entry named is written, and none goes.
LEMMA RowsWritten ==
  ASSUME SectionsInv, NEW c \in Editor, WriteStored(c)
  PROVE  /\ entries' \in [Entry -> MaybeRow]
         /\ \A other \in Entry : other # edit[c].id => entries'[other] = entries[other]
         /\ Present \subseteq Present' /\ Present' \subseteq Present \cup {edit[c].id}
         /\ Present' \subseteq EntriesOf[list] /\ IsFiniteSet(Present')
<1> DEFINE id == edit[c].id
<1>1. PSTypeOK /\ IsFiniteSet(Present)
  BY DEF SectionsInv, IdsKnown
<1>2. id \in Entry /\ id \in EntriesOf[list]
  BY WriteStoredDoes, WriteTargets DEF At
<1>3. CASE entries' = entries
  BY <1>1, <1>3, WriteStoredDoes DEF PSTypeOK, Present
<1>4. CASE \E saved \in Row : entries' = [entries EXCEPT ![id] = saved]
  <2>1. PICK saved \in Row : entries' = [entries EXCEPT ![id] = saved]
    BY <1>4
  <2> HIDE DEF id
  <2>2. /\ entries' \in [Entry -> MaybeRow]
        /\ \A other \in Entry : other # id => entries'[other] = entries[other]
        /\ Present' = Present \cup {id} /\ Present' \subseteq EntriesOf[list]
        /\ IsFiniteSet(Present')
    BY <1>1, <1>2, <2>1, RowStored
  <2> QED
    BY <2>2 DEF id
<1> QED
  BY <1>3, <1>4, WriteStoredDoes

\* A delete takes one entry that is not locked out of the list.
LEMMA RemoveDoes ==
  ASSUME SectionsInv, NEW c \in Editor, Remove(c)
  PROVE  LET id == edit[c].id
         IN  /\ GoesAlone(c) /\ edit'[c] = NoEdit /\ At(c, "remove")
             /\ id \in Entry \ lockedRows
             /\ entries' \in [Entry -> MaybeRow] /\ entries'[id] = NoRow
             /\ \A other \in Entry : other # id => entries'[other] = entries[other]
             /\ Present' = Present \ {id} /\ removed' = removed \cup {id}
             /\ ghosts \subseteq ghosts' /\ ghosts' \subseteq ghosts \cup {id}
             /\ \A d \in Editor : At(d, "merge") /\ edit[d].id = id => id \in ghosts'
             /\ UNCHANGED <<list, lockedRows, arranged, tied, mixed>>
<1> DEFINE id == edit[c].id
<1>1. PSTypeOK /\ At(c, "remove") /\ id \in Entry
  BY EditKinds DEF SectionsInv, Remove
<1>2. GoesAlone(c) /\ edit'[c] = NoEdit
  BY <1>1, WasDone DEF Remove
<1>3. /\ id \notin lockedRows /\ entries' = [entries EXCEPT ![id] = NoRow]
      /\ removed' = removed \cup {id}
      /\ ghosts' = IF \E d \in Editor : At(d, "merge") /\ edit[d].id = id
                   THEN ghosts \cup {id} ELSE ghosts
      /\ UNCHANGED <<list, lockedRows, arranged, tied, mixed>>
  BY DEF Remove
<1> HIDE DEF id
<1>4. /\ entries' \in [Entry -> MaybeRow] /\ entries'[id] = NoRow
      /\ \A other \in Entry : other # id => entries'[other] = entries[other]
  BY <1>1, <1>3 DEF PSTypeOK, MaybeRow
<1>5. Present' = Present \ {id}
  BY <1>4 DEF Present
<1>6. /\ ghosts \subseteq ghosts' /\ ghosts' \subseteq ghosts \cup {id}
      /\ \A d \in Editor : At(d, "merge") /\ edit[d].id = id => id \in ghosts'
  BY <1>3
<1> QED
  BY <1>1, <1>2, <1>3, <1>4, <1>5, <1>6 DEF id

\* A reorder locks all entries, and names all of them.
LEMMA LockRowsDoes ==
  ASSUME SectionsInv, NEW c \in Editor, LockRows(c)
  PROVE  /\ GoesAlone(c) /\ edit'[c].at = "renumber" /\ lockedRows = {} /\ Present # {}
         /\ lockedRows' = Present
         /\ Present = {edit'[c].order[i] : i \in DOMAIN edit'[c].order}
         /\ UNCHANGED <<list, entries, removed, ghosts, arranged, tied, mixed>>
<1>1. PSTypeOK /\ IsFiniteSet(Present) /\ Present \subseteq Entry
  BY PresentIs DEF SectionsInv, IdsKnown
<1>2. PICK order \in Orders(Present) : GoOn(c, [at |-> "renumber", order |-> order])
  BY DEF LockRows
<1>3. PICK n \in Nat : order \in [1..n -> Present]
  <2>1. Cardinality(Present) \in Nat
    BY <1>1, FS_CardinalityType
  <2> QED
    BY <1>2, <2>1 DEF Orders, MaxRepeats
<1>4. Present = {order[i] : i \in DOMAIN order}
  BY <1>2 DEF Orders
<1>5. order \in Seq(Entry)
  BY <1>1, <1>3
<1>6. [at |-> "renumber", order |-> order] \in Edit
  BY <1>5 DEF Edit
<1>7. GoesAlone(c) /\ edit'[c] = [at |-> "renumber", order |-> order]
  BY <1>1, <1>2, <1>6, WentOn
<1> QED
  BY <1>4, <1>7 DEF LockRows

\* A reorder gives each locked entry one of the places in which it is named, and
\* leaves its dates.
LEMMA RenumberDoes ==
  ASSUME SectionsInv, NEW c \in Editor, Renumber(c)
  PROVE  LET order == edit[c].order
         IN  /\ GoesAlone(c) /\ edit'[c] = NoEdit /\ At(c, "renumber") /\ lockedRows' = {}
             /\ order \in Seq(Entry) /\ Present' = Present
             /\ entries' \in [Entry -> MaybeRow]
             /\ \A id \in Entry \ lockedRows : entries'[id] = entries[id]
             /\ \A id \in lockedRows : SameDates(entries[id], entries'[id])
             /\ \E place \in [lockedRows -> DOMAIN order] : \A id \in lockedRows :
                  order[place[id]] = id /\ entries'[id].displayOrder = place[id] - 1
             /\ \/ arranged' = <<>>
                \/ /\ arranged' = order /\ Len(order) <= Cardinality(lockedRows)
                   /\ \A d \in Editor : ~WritesOldOrder(d)
             /\ ~tied' =>
                  \/ ~tied /\ Len(order) <= Cardinality(lockedRows)
                  \/ lockedRows = Present /\ \A d \in Editor : ~At(d, "insert")
             /\ tied' \in BOOLEAN
             /\ UNCHANGED <<list, removed, ghosts, mixed>>
<1> DEFINE order == edit[c].order
<1>1. PSTypeOK /\ At(c, "renumber") /\ order \in Seq(Entry) /\ lockedRows \subseteq Present
  BY EditKinds DEF SectionsInv, Renumber, PSTypeOK
<1>2. GoesAlone(c) /\ edit'[c] = NoEdit
  BY <1>1, WasDone DEF Renumber
<1>3. PICK place \in [lockedRows -> DOMAIN order] :
        /\ \A id \in lockedRows : order[place[id]] = id
        /\ entries' = [id \in Entry |-> IF id \in lockedRows
                                        THEN [entries[id] EXCEPT !.displayOrder = place[id] - 1]
                                        ELSE entries[id]]
  BY DEF Renumber
<1>4. Len(order) \in Nat /\ DOMAIN order = 1..Len(order) /\ Cardinality(lockedRows) \in Nat
  <2>1. IsFiniteSet(lockedRows)
    BY <1>1, FS_Subset DEF SectionsInv, IdsKnown
  <2> QED
    BY <1>1, <2>1, FS_CardinalityType
<1>5. /\ \/ arranged' = <<>>
         \/ /\ arranged' = order /\ Len(order) <= Cardinality(lockedRows)
            /\ \A d \in Editor : ~WritesOldOrder(d)
      /\ ~tied' =>
           \/ ~tied /\ Len(order) <= Cardinality(lockedRows)
           \/ lockedRows = Present /\ \A d \in Editor : ~At(d, "insert")
      /\ tied' \in BOOLEAN
      /\ lockedRows' = {}
      /\ UNCHANGED <<list, removed, ghosts, mixed>>
  <2>1. /\ arranged' = IF \/ Len(order) > Cardinality(lockedRows)
                          \/ \E d \in Editor : WritesOldOrder(d)
                       THEN <<>> ELSE order
        /\ tied' = /\ tied \/ Len(order) > Cardinality(lockedRows)
                   /\ lockedRows # Present \/ \E d \in Editor : At(d, "insert")
        /\ lockedRows' = {}
        /\ UNCHANGED <<list, removed, ghosts, mixed>>
    BY DEF Renumber
  <2> HIDE DEF order
  <2> QED
    BY <1>1, <1>4, <2>1 DEF PSTypeOK
<1> HIDE DEF order
<1>6. ASSUME NEW id \in lockedRows
      PROVE  /\ entries'[id] \in Row /\ SameDates(entries[id], entries'[id])
             /\ entries'[id].displayOrder = place[id] - 1
  <2>1. id \in Entry /\ entries[id] \in Row
    BY <1>1, PresentIs
  <2>2. place[id] - 1 \in Nat
    BY <1>3, <1>4
  <2>3. entries'[id] = [entries[id] EXCEPT !.displayOrder = place[id] - 1]
    BY <1>3, <2>1
  <2> QED
    BY <2>1, <2>2, <2>3 DEF Row, SameDates
<1>7. \A id \in Entry \ lockedRows : entries'[id] = entries[id]
  BY <1>3
<1>8. entries' \in [Entry -> MaybeRow]
  BY <1>3, <1>6, <1>7 DEF PSTypeOK, MaybeRow, SectionsInv
<1>9. Present' = Present
  <2>1. \A id \in Entry : entries'[id] # NoRow <=> entries[id] # NoRow
    BY <1>1, <1>6, <1>7, PresentIs, NoRowAssumption
  <2> QED
    BY <2>1 DEF Present
<1>10. \E p \in [lockedRows -> DOMAIN order] : \A id \in lockedRows :
         order[p[id]] = id /\ entries'[id].displayOrder = p[id] - 1
  BY <1>3, <1>6
<1> QED
  BY <1>1, <1>2, <1>5, <1>6, <1>7, <1>8, <1>9, <1>10 DEF order

\* A request that fails gives back its locks.
LEMMA AbortDoes ==
  ASSUME SectionsInv, NEW c \in Editor, Abort(c)
  PROVE  /\ GoesAlone(c) /\ edit'[c] = NoEdit
         /\ lockedRows' = IF At(c, "renumber") THEN {} ELSE lockedRows
         /\ UNCHANGED <<list, entries, removed, ghosts, arranged, tied, mixed>>
BY WasDone DEF Abort, SectionsInv

\* What the operations on the lists have in common.
Step(c) ==
  \/ ReadMax(c) \/ ReadOwned(c, "merge") \/ ReadOwned(c, "remove")
  \/ \E start \in Date, end \in Date \cup {Ongoing}, isCurrent \in BOOLEAN :
       /\ Insert(c, start, end, isCurrent)
       /\ \A row \in Row : row.start = start /\ row.end = end /\ row.isCurrent = isCurrent
            => Checked(row)
  \/ \E row \in Row : /\ At(c, "merge") /\ LoadStored(c, row)
                      /\ row.displayOrder = edit[c].row.displayOrder /\ Checked(row)
  \/ WriteStored(c) \/ Remove(c) \/ LockRows(c) \/ Renumber(c) \/ Abort(c)

\* Whatever is done to a list is one of these steps, and what creates and updates
\* store has been checked as their list asks.
LEMMA StepsOfLists ==
  ASSUME PSTypeOK, PSNext
  PROVE  \E c \in Editor : Step(c)
<1> PICK c \in Editor :
      \/ patchComponent(c) \/ reorderComponents(c)
      \/ createSkill(c) \/ updateSkill(c) \/ deleteSkill(c) \/ reorderSkills(c)
      \/ createEducation(c) \/ updateEducation(c) \/ deleteEducation(c) \/ reorderEducation(c)
      \/ createWorkExperience(c) \/ updateWorkExperience(c)
      \/ deleteWorkExperience(c) \/ reorderWorkExperience(c)
      \/ createAward(c) \/ updateAward(c) \/ deleteAward(c) \/ reorderAwards(c)
      \/ Abort(c)
  BY DEF PSNext
<1> SUFFICES Step(c)
  OBVIOUS
<1>1. AnyDate \in Date
  BY SectionsAssumption DEF AnyDate
<1>2. Ongoing \notin Date
  BY SectionsAssumption
<1>3. ASSUME SaveMerged(c), list \notin {"education", "workExperience"} PROVE Step(c)
  BY <1>3, EditKinds DEF SaveMerged, Step, Checked
<1>4. ASSUME Undated(c), list \notin {"education", "workExperience"} PROVE Step(c)
  <2>1. \A row \in Row : Checked(row)
    BY <1>4 DEF Checked
  <2>2. Insert(c, AnyDate, AnyDate, FALSE)
    BY <1>4 DEF Undated
  <2> QED
    BY <1>1, <2>1, <2>2 DEF Step
<1>5. CASE patchComponent(c) \/ reorderComponents(c)
  BY <1>3, <1>5 DEF patchComponent, reorderComponents, Step
<1>6. CASE createSkill(c) \/ updateSkill(c) \/ deleteSkill(c) \/ reorderSkills(c)
  BY <1>3, <1>4, <1>6 DEF createSkill, updateSkill, deleteSkill, reorderSkills, Step
<1>7. CASE createAward(c) \/ updateAward(c) \/ deleteAward(c) \/ reorderAwards(c)
  BY <1>3, <1>4, <1>7 DEF createAward, updateAward, deleteAward, reorderAwards, Step
<1>8. CASE createEducation(c)
  <2>1. ASSUME NEW start \in Date, NEW end \in Date, end >= start, Insert(c, start, end, FALSE)
        PROVE  Step(c)
    <3>1. \A row \in Row : row.start = start /\ row.end = end => Checked(row)
      BY <1>8, <2>1 DEF createEducation, Checked, EndYearAfterStartYear
    <3> QED
      BY <2>1, <3>1 DEF Step
  <2> QED
    BY <1>8, <2>1 DEF createEducation, Step
<1>9. CASE updateEducation(c)
  <2>1. ASSUME At(c, "merge"), NEW start \in Date, NEW end \in Date,
               EndYearAfterStartYear([edit[c].row EXCEPT !.start = start, !.end = end]),
               LoadStored(c, [edit[c].row EXCEPT !.start = start, !.end = end])
        PROVE  Step(c)
    <3> DEFINE row == [edit[c].row EXCEPT !.start = start, !.end = end]
    <3>1. edit[c].row \in Row
      BY <2>1, EditKinds
    <3>2. row \in Row /\ row.displayOrder = edit[c].row.displayOrder
      BY <3>1 DEF Row
    <3>3. Checked(row)
      BY <1>9, <2>1 DEF updateEducation, Checked
    <3> HIDE DEF row
    <3>4. LoadStored(c, row)
      BY <2>1 DEF row
    <3> QED
      BY <2>1, <3>2, <3>3, <3>4 DEF Step
  <2> QED
    BY <1>9, <2>1 DEF updateEducation, Step
<1>10. CASE deleteEducation(c) \/ reorderEducation(c)
  BY <1>10 DEF deleteEducation, reorderEducation, Step
<1>11. CASE createWorkExperience(c)
  <2>1. ASSUME NEW start \in Date, NEW end \in Date, end >= start, Insert(c, start, end, FALSE)
        PROVE  Step(c)
    <3>1. \A row \in Row :
            row.start = start /\ row.end = end /\ row.isCurrent = FALSE => Checked(row)
      BY <1>2, <1>11, <2>1 DEF createWorkExperience, Checked, validateWorkExperienceDates
    <3> QED
      BY <2>1, <3>1 DEF Step
  <2>2. ASSUME NEW start \in Date, Insert(c, start, Ongoing, TRUE)
        PROVE  Step(c)
    <3>1. \A row \in Row : row.end = Ongoing /\ row.isCurrent = TRUE => Checked(row)
      BY <1>11 DEF createWorkExperience, Checked, validateWorkExperienceDates
    <3> QED
      BY <2>2, <3>1 DEF Step
  <2> QED
    BY <1>11, <2>1, <2>2 DEF createWorkExperience, Step
<1>12. CASE updateWorkExperience(c)
  <2>1. ASSUME At(c, "merge"), NEW start \in Date, NEW end \in Date \cup {Ongoing},
               NEW isCurrent \in BOOLEAN,
               NEW row, row = [edit[c].row EXCEPT !.start = start, !.isCurrent = isCurrent,
                                                  !.end = IF isCurrent THEN Ongoing ELSE end],
               validateWorkExperienceDates(row), LoadStored(c, row)
        PROVE  Step(c)
    <3>1. edit[c].row \in Row
      BY <2>1, EditKinds
    <3>2. row \in Row /\ row.displayOrder = edit[c].row.displayOrder
      BY <2>1, <3>1 DEF Row
    <3>3. Checked(row)
      BY <1>12, <2>1 DEF updateWorkExperience, Checked
    <3> QED
      BY <2>1, <3>2, <3>3 DEF Step
  <2> QED
    BY <1>12, <2>1 DEF updateWorkExperience, Step
<1>13. CASE deleteWorkExperience(c) \/ reorderWorkExperience(c)
  BY <1>13 DEF deleteWorkExperience, reorderWorkExperience, Step
<1>14. CASE Abort(c)
  BY <1>14 DEF Step
<1> QED
  BY <1>5, <1>6, <1>7, <1>8, <1>9, <1>10, <1>11, <1>12, <1>13, <1>14

\* Nothing that is read differs after a step that reads.
LEMMA StillKeeps ==
  ASSUME Still
  PROVE  Present' = Present /\ entries' = entries
BY DEF Still, Present

\* Each step preserves the types.
LEMMA SectionTypes ==
  ASSUME SectionsInv, NEW c \in Editor, Step(c)
  PROVE  PSTypeOK'
<1> USE DEF GoesAlone
<1>1. PSTypeOK
  BY DEF SectionsInv
<1>2. ASSUME GoesAlone(c), Still PROVE PSTypeOK'
  BY <1>1, <1>2, StillKeeps DEF Still, PSTypeOK
<1>3. CASE ReadMax(c)
  BY <1>2, <1>3, ReadMaxDoes
<1>4. CASE ReadOwned(c, "merge") \/ ReadOwned(c, "remove")
  BY <1>2, <1>4, ReadOwnedDoes
<1>5. ASSUME NEW start \in Date, NEW end \in Date \cup {Ongoing}, NEW isCurrent \in BOOLEAN,
             Insert(c, start, end, isCurrent)
      PROVE  PSTypeOK'
  <2>1. /\ entries' \in [Entry -> MaybeRow]
        /\ Present \subseteq Present' /\ Present' \subseteq EntriesOf[list]
    BY <1>5, InsertDoes
  <2>2. edit' \in [Editor -> Edit] /\ tied' \in BOOLEAN
        /\ UNCHANGED <<list, lockedRows, removed, ghosts, arranged, mixed>>
    BY <1>5, InsertDoes
  <2> QED
    BY <1>1, <2>1, <2>2 DEF PSTypeOK
<1>6. ASSUME NEW row \in Row, At(c, "merge"), LoadStored(c, row) PROVE PSTypeOK'
  BY <1>2, <1>6, LoadStoredDoes
<1>7. CASE WriteStored(c)
  <2> DEFINE id == edit[c].id
  <2>1. GoesAlone(c) /\ id \notin lockedRows /\ UNCHANGED <<list, lockedRows, removed, ghosts, arranged>>
        /\ mixed' \subseteq mixed \cup {id} /\ tied' \in BOOLEAN
    BY <1>7, WriteStoredDoes
  <2>2. id \in Entry
    BY <1>7, WriteStoredDoes, WriteTargets DEF At
  <2>3. /\ entries' \in [Entry -> MaybeRow]
        /\ Present \subseteq Present' /\ Present' \subseteq EntriesOf[list]
    BY <1>7, RowsWritten
  <2> HIDE DEF id
  <2> QED
    BY <1>1, <2>1, <2>2, <2>3 DEF PSTypeOK
<1>8. CASE Remove(c)
  BY <1>1, <1>8, RemoveDoes DEF PSTypeOK
<1>9. CASE LockRows(c)
  <2>1. Present' = Present
    BY <1>9 DEF LockRows, Present
  <2> QED
    BY <1>1, <1>9, <2>1, LockRowsDoes, PresentIs DEF PSTypeOK
<1>10. CASE Renumber(c)
  <2>1. /\ GoesAlone(c) /\ lockedRows' = {} /\ edit[c].order \in Seq(Entry) /\ Present' = Present
        /\ entries' \in [Entry -> MaybeRow] /\ tied' \in BOOLEAN
        /\ arranged' = <<>> \/ arranged' = edit[c].order
        /\ UNCHANGED <<list, removed, ghosts, mixed>>
    BY <1>10, RenumberDoes
  <2>2. <<>> \in Seq(Entry)
    OBVIOUS
  <2>3. arranged' \in Seq(Entry)
    BY <2>1, <2>2, Zenon
  <2> QED
    BY <1>1, <2>1, <2>3 DEF PSTypeOK
<1>11. CASE Abort(c)
  <2>1. Present' = Present
    BY <1>11 DEF Abort, Present
  <2> QED
    BY <1>1, <1>11, <2>1, AbortDoes DEF PSTypeOK
<1> QED
  BY <1>3, <1>4, <1>5, <1>6, <1>7, <1>8, <1>9, <1>10, <1>11 DEF Step

\* Each step preserves IdsKnown.
LEMMA IdsStep ==
  ASSUME SectionsInv, NEW c \in Editor, Step(c)
  PROVE  IdsKnown'
<1> USE DEF GoesAlone, Known
<1>1. PSTypeOK /\ IdsKnown
  BY DEF SectionsInv
<1>2. ASSUME Present \cup removed \subseteq Present' \cup removed', IsFiniteSet(Present'),
             removed' \subseteq EntriesOf[list'], GoesAlone(c), arranged' = arranged,
             edit'[c].at \in {"merge", "write", "remove"} => edit'[c].id \in Present' \cup removed'
      PROVE  IdsKnown'
  BY <1>1, <1>2 DEF IdsKnown
<1>3. ASSUME GoesAlone(c), Still,
             edit'[c].at \in {"merge", "write", "remove"} => edit'[c].id \in Present \cup removed
      PROVE  IdsKnown'
  <2>1. Present' = Present /\ removed' = removed /\ arranged' = arranged /\ list' = list
    BY <1>3, StillKeeps DEF Still
  <2> QED
    BY <1>1, <1>2, <1>3, <2>1 DEF IdsKnown
<1>4. NoEdit.at = "idle"
  BY DEF NoEdit
<1>5. CASE ReadMax(c)
  BY <1>3, <1>5, ReadMaxDoes
<1>6. CASE ReadOwned(c, "merge") \/ ReadOwned(c, "remove")
  BY <1>3, <1>6, ReadOwnedDoes
<1>7. ASSUME NEW start \in Date, NEW end \in Date \cup {Ongoing}, NEW isCurrent \in BOOLEAN,
             Insert(c, start, end, isCurrent)
      PROVE  IdsKnown'
  BY <1>1, <1>2, <1>4, <1>7, InsertDoes DEF IdsKnown
<1>8. ASSUME NEW row \in Row, At(c, "merge"), LoadStored(c, row) PROVE IdsKnown'
  <2>1. edit[c].id \in Present \cup removed
    BY <1>1, <1>8 DEF At, IdsKnown
  <2> QED
    BY <1>3, <1>8, <2>1, LoadStoredDoes
<1>9. CASE WriteStored(c)
  BY <1>1, <1>2, <1>4, <1>9, WriteStoredDoes, RowsWritten DEF IdsKnown
<1>10. CASE Remove(c)
  <2> DEFINE id == edit[c].id
  <2>1. /\ GoesAlone(c) /\ edit'[c] = NoEdit /\ At(c, "remove")
        /\ Present' = Present \ {id} /\ removed' = removed \cup {id}
        /\ UNCHANGED <<list, arranged>>
    BY <1>10, RemoveDoes
  <2>2. id \in EntriesOf[list]
    BY <1>1, <2>1 DEF IdsKnown, At, PSTypeOK
  <2>3. IsFiniteSet(Present')
    BY <1>1, <2>1, FS_RemoveElement DEF IdsKnown
  <2> HIDE DEF id
  <2> QED
    BY <1>1, <1>2, <1>4, <2>1, <2>2, <2>3 DEF IdsKnown
<1>11. CASE LockRows(c)
  <2>1. Present' = Present
    BY <1>11 DEF LockRows, Present
  <2> QED
    BY <1>1, <1>2, <1>11, <2>1, LockRowsDoes DEF IdsKnown
<1>12. CASE Renumber(c)
  <2>1. /\ GoesAlone(c) /\ edit'[c] = NoEdit /\ At(c, "renumber") /\ Present' = Present
        /\ UNCHANGED <<list, removed>>
        /\ arranged' = <<>> \/ arranged' = edit[c].order
    BY <1>12, RenumberDoes
  <2>2. lockedRows = {edit[c].order[i] : i \in DOMAIN edit[c].order} /\ lockedRows \subseteq Present
    BY <2>1 DEF SectionsInv, LocksHeld, PSTypeOK
  <2>3. ASSUME NEW i \in DOMAIN arranged' PROVE arranged'[i] \in Present
    BY <2>1, <2>2
  <2> QED
    BY <1>1, <1>4, <2>1, <2>3 DEF IdsKnown
<1>13. CASE Abort(c)
  <2>1. Present' = Present
    BY <1>13 DEF Abort, Present
  <2> QED
    BY <1>1, <1>2, <1>4, <1>13, <2>1, AbortDoes DEF IdsKnown
<1> QED
  BY <1>5, <1>6, <1>7, <1>8, <1>9, <1>10, <1>11, <1>12, <1>13 DEF Step

\* Each step preserves GhostsKnown.
LEMMA GhostsStep ==
  ASSUME SectionsInv, NEW c \in Editor, Step(c)
  PROVE  GhostsKnown'
<1> USE DEF GoesAlone, At
<1>1. PSTypeOK /\ IdsKnown /\ GhostsKnown
  BY DEF SectionsInv
<1>2. NoEdit.at = "idle"
  BY DEF NoEdit
<1>3. ASSUME removed' = removed, ghosts' = ghosts, removed \cap Present' \subseteq ghosts, GoesAlone(c),
             edit'[c].at = "merge" /\ edit'[c].id \in removed => edit'[c].id \in ghosts,
             edit'[c].at = "write" /\ edit'[c].stored = NoRow => edit'[c].id \in ghosts
      PROVE  GhostsKnown'
  BY <1>1, <1>3 DEF GhostsKnown, DeletedStaysDeleted
<1>4. ASSUME GoesAlone(c), Still,
             edit'[c].at = "merge" /\ edit'[c].id \in removed => edit'[c].id \in ghosts,
             edit'[c].at = "write" /\ edit'[c].stored = NoRow => edit'[c].id \in ghosts
      PROVE  GhostsKnown'
  BY <1>1, <1>3, <1>4, StillKeeps DEF Still, GhostsKnown, DeletedStaysDeleted
<1>5. CASE ReadMax(c)
  BY <1>4, <1>5, ReadMaxDoes
<1>6. CASE ReadOwned(c, "merge") \/ ReadOwned(c, "remove")
  BY <1>1, <1>4, <1>6, ReadOwnedDoes DEF GhostsKnown, DeletedStaysDeleted
<1>7. ASSUME NEW start \in Date, NEW end \in Date \cup {Ongoing}, NEW isCurrent \in BOOLEAN,
             Insert(c, start, end, isCurrent)
      PROVE  GhostsKnown'
  <2>1. PICK id \in Entry \ (Present \cup removed) : Present' = Present \cup {id}
    BY <1>7, InsertDoes
  <2>2. GoesAlone(c) /\ edit'[c] = NoEdit /\ UNCHANGED <<removed, ghosts>>
    BY <1>7, InsertDoes
  <2> QED
    BY <1>1, <1>2, <1>3, <2>1, <2>2 DEF GhostsKnown, DeletedStaysDeleted
<1>8. ASSUME NEW row \in Row, At(c, "merge"), LoadStored(c, row) PROVE GhostsKnown'
  <2>1. edit[c].id \in Entry /\ edit[c].id \in Present \cup removed
    BY <1>1, <1>8, EditKinds DEF IdsKnown, Known
  <2>2. entries[edit[c].id] = NoRow => edit[c].id \in ghosts
    BY <1>1, <1>8, <2>1, PresentIs DEF GhostsKnown
  <2> QED
    BY <1>4, <1>8, <2>2, LoadStoredDoes
<1>9. CASE WriteStored(c)
  <2> DEFINE id == edit[c].id
  <2>1. GoesAlone(c) /\ edit'[c] = NoEdit /\ UNCHANGED <<removed, ghosts>> /\ At(c, "write")
    BY <1>9, WriteStoredDoes
  <2>2. id \in Entry
    BY <2>1, WriteTargets
  <2>3. removed \cap Present' \subseteq ghosts
    <3>1. CASE entries' = entries
      BY <1>1, <3>1 DEF GhostsKnown, DeletedStaysDeleted, Present
    <3>2. CASE entries' # entries
      <4>1. PICK saved \in Row : /\ entries' = [entries EXCEPT ![id] = saved]
                                 /\ edit[c].stored # NoRow => entries[id] # NoRow
        BY <1>9, <3>2, WriteStoredDoes
      <4>2. id \in Present \/ id \in ghosts
        BY <1>1, <2>1, <2>2, <4>1, PresentIs DEF GhostsKnown
      <4>3. Present' \subseteq Present \cup {id}
        BY <1>9, RowsWritten
      <4> HIDE DEF id
      <4> QED
        BY <1>1, <4>2, <4>3 DEF GhostsKnown, DeletedStaysDeleted
    <3> QED
      BY <3>1, <3>2
  <2> QED
    BY <1>2, <1>3, <2>1, <2>3
<1>10. CASE Remove(c)
  <2> DEFINE id == edit[c].id
  <2>1. /\ GoesAlone(c) /\ edit'[c] = NoEdit
        /\ Present' = Present \ {id} /\ removed' = removed \cup {id}
        /\ ghosts \subseteq ghosts'
        /\ \A d \in Editor : At(d, "merge") /\ edit[d].id = id => id \in ghosts'
    BY <1>10, RemoveDoes
  <2> HIDE DEF id
  <2> QED
    BY <1>1, <1>2, <2>1 DEF GhostsKnown, DeletedStaysDeleted
<1>11. CASE LockRows(c)
  <2>1. Present' = Present
    BY <1>11 DEF LockRows, Present
  <2> QED
    BY <1>1, <1>3, <1>11, <2>1, LockRowsDoes DEF GhostsKnown, DeletedStaysDeleted
<1>12. CASE Renumber(c)
  BY <1>1, <1>2, <1>3, <1>12, RenumberDoes DEF GhostsKnown, DeletedStaysDeleted
<1>13. CASE Abort(c)
  <2>1. Present' = Present
    BY <1>13 DEF Abort, Present
  <2> QED
    BY <1>1, <1>2, <1>3, <1>13, <2>1, AbortDoes DEF GhostsKnown, DeletedStaysDeleted
<1> QED
  BY <1>5, <1>6, <1>7, <1>8, <1>9, <1>10, <1>11, <1>12, <1>13 DEF Step

\* A check is about the dates alone.
LEMMA CheckedSame ==
  ASSUME NEW row, NEW other, SameDates(row, other), Checked(row)
  PROVE  Checked(other)
BY DEF SameDates, Checked, EndYearAfterStartYear, validateWorkExperienceDates

\* Dates are consistent if what is stored would pass the check.
LEMMA DatesChecked == DatesConsistent <=> \A id \in Present \ mixed : Checked(entries[id])
BY DEF DatesConsistent, Checked

\* Each step preserves WritesChecked.
LEMMA WritesStep ==
  ASSUME SectionsInv, NEW c \in Editor, Step(c)
  PROVE  WritesChecked'
<1> USE DEF GoesAlone, At
<1>1. /\ PSTypeOK /\ IdsKnown
      /\ \A id \in Present \ mixed : Checked(entries[id])
      /\ \A d \in Editor : At(d, "write") =>
           /\ Checked(edit[d].row)
           /\ edit[d].id \in Present \ mixed /\ edit[d].stored # NoRow =>
                SameDates(edit[d].stored, entries[edit[d].id])
  BY DatesChecked DEF SectionsInv, WritesChecked
<1>2. NoEdit.at = "idle"
  BY DEF NoEdit
<1>3. ASSUME list' = list, GoesAlone(c),
             \A id \in Present' \ mixed' : Checked(entries'[id]),
             \A d \in Editor :
               d # c /\ At(d, "write") /\ edit[d].id \in Present' \ mixed' /\ edit[d].stored # NoRow
               => SameDates(edit[d].stored, entries'[edit[d].id]),
             edit'[c].at = "write" =>
               /\ Checked(edit'[c].row)
               /\ edit'[c].id \in Present' \ mixed' /\ edit'[c].stored # NoRow =>
                    SameDates(edit'[c].stored, entries'[edit'[c].id])
      PROVE  WritesChecked'
  <2>1. (\A id \in Present \ mixed : Checked(entries[id]))'
    BY <1>3 DEF Checked
  <2>2. DatesConsistent'
    BY <2>1, DatesChecked, PTL
  <2>3. ASSUME NEW d \in Editor, edit'[d].at = "write"
        PROVE  /\ Checked(edit'[d].row)
               /\ edit'[d].id \in Present' \ mixed' /\ edit'[d].stored # NoRow =>
                    SameDates(edit'[d].stored, entries'[edit'[d].id])
    BY <1>1, <1>3, <2>3
  <2>4. ASSUME NEW row, Checked(row) PROVE Checked(row)'
    BY <1>3, <2>4 DEF Checked
  <2>5. ASSUME NEW d \in Editor, edit'[d].at = "write" PROVE Checked(edit[d].row)'
    BY <1>3, <2>3, <2>5 DEF Checked
  <2> QED
    BY <2>2, <2>3, <2>5 DEF WritesChecked, SameDates
<1>4. ASSUME GoesAlone(c), Still,
             edit'[c].at = "write" => /\ Checked(edit'[c].row)
                                      /\ edit'[c].stored = entries[edit'[c].id]
      PROVE  WritesChecked'
  <2>1. Present' = Present /\ entries' = entries /\ mixed' = mixed /\ list' = list
    BY <1>4, StillKeeps DEF Still
  <2> QED
    BY <1>1, <1>3, <1>4, <2>1 DEF SameDates
<1>5. CASE ReadMax(c)
  BY <1>4, <1>5, ReadMaxDoes
<1>6. CASE ReadOwned(c, "merge") \/ ReadOwned(c, "remove")
  BY <1>4, <1>6, ReadOwnedDoes
<1>7. ASSUME NEW start \in Date, NEW end \in Date \cup {Ongoing}, NEW isCurrent \in BOOLEAN,
             Insert(c, start, end, isCurrent),
             \A row \in Row : row.start = start /\ row.end = end /\ row.isCurrent = isCurrent
               => Checked(row)
      PROVE  WritesChecked'
  <2>1. PICK id \in Entry \ (Present \cup removed) :
          /\ entries'[id] \in Row /\ Checked(entries'[id])
          /\ \A other \in Entry : other # id => entries'[other] = entries[other]
          /\ Present' = Present \cup {id}
    BY <1>7, InsertDoes
  <2>2. GoesAlone(c) /\ edit'[c] = NoEdit /\ mixed' = mixed /\ list' = list
    BY <1>7, InsertDoes
  <2>3. Present \subseteq Entry
    BY <1>1, PresentIs
  <2>4. \A d \in Editor : At(d, "write") => edit[d].id # id
    BY <2>1, WriteTargets
  <2> QED
    BY <1>1, <1>2, <1>3, <2>1, <2>2, <2>3, <2>4
<1>8. ASSUME NEW row \in Row, At(c, "merge"), LoadStored(c, row), Checked(row) PROVE WritesChecked'
  BY <1>4, <1>8, LoadStoredDoes
<1>9. CASE WriteStored(c)
  <2> DEFINE id == edit[c].id
  <2>1. /\ GoesAlone(c) /\ edit'[c] = NoEdit /\ list' = list /\ At(c, "write")
        /\ mixed \ {id} \subseteq mixed'
        /\ \A d \in Editor : d # c /\ At(d, "write") /\ edit[d].id = id => id \in mixed'
    BY <1>9, WriteStoredDoes
  <2>2. /\ \A other \in Entry : other # id => entries'[other] = entries[other]
        /\ Present' \subseteq Present \cup {id}
    BY <1>9, RowsWritten
  <2>3. ASSUME id \in Present' \ mixed' PROVE Checked(entries'[id])
    <3>1. CASE entries' = entries /\ mixed \subseteq mixed'
      <4>1. id \in Present
        BY <2>3, <3>1 DEF Present
      <4> HIDE DEF id
      <4> QED
        BY <1>1, <2>3, <3>1, <4>1
    <3>2. CASE ~ (entries' = entries /\ mixed \subseteq mixed')
      <4>1. PICK saved \in Row :
              /\ entries' = [entries EXCEPT ![id] = saved]
              /\ edit[c].stored = NoRow => saved = edit[c].row
              /\ edit[c].stored # NoRow =>
                   /\ entries[id] # NoRow
                   /\ SameDates(edit[c].stored, entries[id]) => SameDates(edit[c].row, saved)
        BY <1>9, <3>2, WriteStoredDoes
      <4>2. id \in mixed => entries[id] = edit[c].stored
        BY <1>9, <2>3, WriteStoredDoes
      <4>3. id \in Entry
        BY <1>9, WriteStoredDoes, WriteTargets
      <4>4. entries'[id] = saved
        BY <1>1, <4>1, <4>3 DEF PSTypeOK
      <4>5. Checked(edit[c].row)
        BY <1>1, <2>1
      <4>6. CASE edit[c].stored = NoRow
        BY <4>1, <4>4, <4>5, <4>6
      <4>7. CASE edit[c].stored # NoRow
        <5>1. id \in Present
          BY <1>1, <4>1, <4>3, <4>7, PresentIs
        <5>2. SameDates(edit[c].stored, entries[id])
          BY <1>1, <2>1, <4>2, <4>7, <5>1 DEF SameDates
        <5> QED
          BY <4>1, <4>4, <4>5, <4>7, <5>2, CheckedSame
      <4> QED
        BY <4>6, <4>7
    <3> QED
      BY <3>1, <3>2
  <2>4. Present \subseteq Entry
    BY <1>1, PresentIs
  <2>5. \A d \in Editor : At(d, "write") => edit[d].id \in Entry
    BY WriteTargets
  <2> HIDE DEF id
  <2>6. \A other \in Present' \ mixed' : Checked(entries'[other])
    BY <1>1, <2>1, <2>2, <2>3, <2>4
  <2>7. ASSUME NEW d \in Editor, d # c, At(d, "write"), edit[d].id \in Present' \ mixed',
               edit[d].stored # NoRow
        PROVE  SameDates(edit[d].stored, entries'[edit[d].id])
    <3>1. edit[d].id # id
      BY <2>1, <2>7
    <3> QED
      BY <1>1, <2>1, <2>2, <2>5, <2>7, <3>1
  <2> QED
    BY <1>2, <1>3, <2>1, <2>6, <2>7
<1>10. CASE Remove(c)
  <2>1. PICK id : /\ \A other \in Entry : other # id => entries'[other] = entries[other]
                  /\ Present' = Present \ {id}
    BY <1>10, RemoveDoes
  <2>2. GoesAlone(c) /\ edit'[c] = NoEdit /\ mixed' = mixed /\ list' = list
    BY <1>10, RemoveDoes
  <2>3. Present \subseteq Entry
    BY <1>1, PresentIs
  <2> QED
    BY <1>1, <1>2, <1>3, <2>1, <2>2, <2>3
<1>11. CASE LockRows(c)
  <2>1. Present' = Present
    BY <1>11 DEF LockRows, Present
  <2> QED
    BY <1>1, <1>3, <1>11, <2>1, LockRowsDoes
<1>12. CASE Renumber(c)
  <2>1. /\ \A id \in Entry \ lockedRows : entries'[id] = entries[id]
        /\ \A id \in lockedRows : SameDates(entries[id], entries'[id])
        /\ Present' = Present /\ GoesAlone(c) /\ edit'[c] = NoEdit /\ mixed' = mixed /\ list' = list
    BY <1>12, RenumberDoes
  <2>2. \A id \in Entry : SameDates(entries[id], entries'[id])
    BY <2>1 DEF SameDates
  <2>3. Present \subseteq Entry
    BY <1>1, PresentIs
  <2>4. \A id \in Present' \ mixed' : Checked(entries'[id])
    BY <1>1, <2>1, <2>2, <2>3, CheckedSame
  <2>5. \A d \in Editor :
          d # c /\ At(d, "write") /\ edit[d].id \in Present' \ mixed' /\ edit[d].stored # NoRow
          => SameDates(edit[d].stored, entries'[edit[d].id])
    BY <1>1, <2>1, <2>2, <2>3 DEF SameDates
  <2> QED
    BY <1>2, <1>3, <2>1, <2>4, <2>5
<1>13. CASE Abort(c)
  <2>1. Present' = Present
    BY <1>13 DEF Abort, Present
  <2> QED
    BY <1>1, <1>2, <1>3, <1>13, <2>1, AbortDoes
<1> QED
  BY <1>5, <1>6, <1>7, <1>8, <1>9, <1>10, <1>11, <1>12, <1>13 DEF Step

\* Each step preserves LocksHeld.
LEMMA LocksStep ==
  ASSUME SectionsInv, NEW c \in Editor, Step(c)
  PROVE  LocksHeld'
<1> USE DEF GoesAlone, At
<1>1. LocksHeld
  BY DEF SectionsInv
<1>2. NoEdit.at = "idle"
  BY DEF NoEdit
<1>3. ASSUME GoesAlone(c), lockedRows' = lockedRows, edit'[c].at # "renumber" PROVE LocksHeld'
  BY <1>1, <1>3 DEF LocksHeld
<1>4. CASE ReadMax(c)
  BY <1>3, <1>4, ReadMaxDoes DEF Still
<1>5. CASE ReadOwned(c, "merge") \/ ReadOwned(c, "remove")
  BY <1>3, <1>5, ReadOwnedDoes DEF Still
<1>6. ASSUME NEW start \in Date, NEW end \in Date \cup {Ongoing}, NEW isCurrent \in BOOLEAN,
             Insert(c, start, end, isCurrent)
      PROVE  LocksHeld'
  BY <1>2, <1>3, <1>6, InsertDoes
<1>7. ASSUME NEW row \in Row, At(c, "merge"), LoadStored(c, row) PROVE LocksHeld'
  BY <1>3, <1>7, LoadStoredDoes DEF Still
<1>8. CASE WriteStored(c)
  BY <1>2, <1>3, <1>8, WriteStoredDoes
<1>9. CASE Remove(c)
  BY <1>2, <1>3, <1>9, RemoveDoes
<1>10. CASE LockRows(c)
  BY <1>1, <1>10, LockRowsDoes DEF LocksHeld
<1>11. CASE Renumber(c)
  BY <1>1, <1>2, <1>11, RenumberDoes DEF LocksHeld
<1>12. CASE Abort(c)
  BY <1>1, <1>2, <1>12, AbortDoes DEF LocksHeld
<1> QED
  BY <1>4, <1>5, <1>6, <1>7, <1>8, <1>9, <1>10, <1>11, <1>12 DEF Step

\* As positions differ, one that is above all locked entries is at least their number.
LEMMA AboveLocked ==
  ASSUME PSTypeOK, IsFiniteSet(Present), NEW k \in Nat,
         \A i, j \in Present : i # j => entries[i].displayOrder # entries[j].displayOrder,
         \A id \in lockedRows : entries[id].displayOrder < k
  PROVE  Cardinality(lockedRows) <= k
<1> DEFINE Of == [id \in lockedRows |-> entries[id].displayOrder]
<1>1. lockedRows \subseteq Present
  BY DEF PSTypeOK
<1>2. \A id \in lockedRows : entries[id].displayOrder \in Nat
  BY <1>1, PresentIs DEF Row
<1>3. Of \in Injection(lockedRows, 0..(k - 1))
  <2>1. Of \in [lockedRows -> 0..(k - 1)]
    BY <1>2
  <2>2. \A i, j \in lockedRows : Of[i] = Of[j] => i = j
    BY <1>1
  <2> QED
    BY <2>1, <2>2 DEF Injection, IsInjective
<1>4. IsFiniteSet(0..(k - 1)) /\ Cardinality(0..(k - 1)) = k
  BY FS_Interval
<1>5. Cardinality(lockedRows) <= Cardinality(0..(k - 1))
  <2> HIDE DEF Of
  <2> QED
    BY <1>3, <1>4, FS_Injection
<1> QED
  BY <1>4, <1>5

\* Each step preserves PositionsGrow.
LEMMA PositionsStep ==
  ASSUME SectionsInv, NEW c \in Editor, Step(c)
  PROVE  PositionsGrow'
<1> USE DEF GoesAlone, At
<1>1. PSTypeOK /\ IsFiniteSet(Present) /\ LocksHeld /\ PositionsGrow
  BY DEF SectionsInv, IdsKnown
<1>2. NoEdit.at = "idle"
  BY DEF NoEdit
<1>3. ASSUME GoesAlone(c), Present' \subseteq Present,
             ~tied' => ~tied /\ \A id \in Present' :
                                   entries'[id].displayOrder = entries[id].displayOrder,
             lockedRows' = lockedRows \/ lockedRows' = {} \/ Present' \subseteq lockedRows',
             lockedRows' \subseteq Present',
             edit'[c].at = "insert" =>
               \A id \in Present : entries[id].displayOrder < edit'[c].displayOrder
      PROVE  PositionsGrow'
  <2> SUFFICES ASSUME ~tied' PROVE PositionsGrow'
    BY DEF PositionsGrow
  <2>1. ~tied /\ \A id \in Present' : id \in Present
                                      /\ entries'[id].displayOrder = entries[id].displayOrder
    BY <1>3
  <2>2. \A i, j \in Present' : i # j => entries'[i].displayOrder # entries'[j].displayOrder
    BY <1>1, <2>1 DEF PositionsGrow
  <2>3. \A d \in Editor, id \in Present' :
          edit'[d].at = "insert" => entries'[id].displayOrder < edit'[d].displayOrder
    BY <1>1, <1>3, <2>1 DEF PositionsGrow
  <2>4. \A id \in Present' \ lockedRows', locked \in lockedRows' :
          entries'[locked].displayOrder < entries'[id].displayOrder
    BY <1>1, <1>3, <2>1 DEF PositionsGrow
  <2> QED
    BY <2>2, <2>3, <2>4 DEF PositionsGrow
<1>4. ASSUME GoesAlone(c), Still,
             edit'[c].at = "insert" =>
               \A id \in Present : entries[id].displayOrder < edit'[c].displayOrder
      PROVE  PositionsGrow'
  <2>1. Present' = Present /\ entries' = entries /\ lockedRows' = lockedRows /\ (tied' = tied)
    BY <1>4, StillKeeps DEF Still
  <2>2. lockedRows' \subseteq Present'
    BY <1>1, <2>1 DEF PSTypeOK
  <2> QED
    BY <1>3, <1>4, <2>1, <2>2
<1>5. CASE ReadMax(c)
  BY <1>4, <1>5, ReadMaxDoes
<1>6. CASE ReadOwned(c, "merge") \/ ReadOwned(c, "remove")
  BY <1>4, <1>6, ReadOwnedDoes
<1>7. ASSUME NEW start \in Date, NEW end \in Date \cup {Ongoing}, NEW isCurrent \in BOOLEAN,
             Insert(c, start, end, isCurrent)
      PROVE  PositionsGrow'
  <2> SUFFICES ASSUME ~tied' PROVE PositionsGrow'
    BY DEF PositionsGrow
  <2>1. PICK id \in Entry \ (Present \cup removed) :
          /\ entries'[id].displayOrder = edit[c].displayOrder
          /\ \A other \in Entry : other # id => entries'[other] = entries[other]
          /\ Present' = Present \cup {id}
    BY <1>7, InsertDoes
  <2>2. /\ GoesAlone(c) /\ edit'[c] = NoEdit /\ edit[c].at = "insert" /\ lockedRows' = lockedRows
        /\ ~tied /\ \A d \in Editor : d # c => edit[d].at # "insert"
    BY <1>7, InsertDoes
  <2>3. Present \subseteq Entry /\ lockedRows \subseteq Present
        /\ \A other \in Present : entries[other].displayOrder \in Nat
    BY <1>1, PresentIs DEF PSTypeOK, Row
  <2>4. edit[c].displayOrder \in Nat
    BY <1>1, <2>2, EditKinds
  <2>5. \A other \in Present : /\ entries'[other] = entries[other]
                               /\ entries[other].displayOrder < entries'[id].displayOrder
    BY <1>1, <2>1, <2>2, <2>3 DEF PositionsGrow
  <2>6. \A i, j \in Present' : i # j => entries'[i].displayOrder # entries'[j].displayOrder
    BY <1>1, <2>1, <2>2, <2>3, <2>4, <2>5 DEF PositionsGrow
  <2>7. \A d \in Editor : edit'[d].at # "insert"
    BY <1>2, <2>2
  <2>8. \A other \in Present' \ lockedRows', locked \in lockedRows' :
          entries'[locked].displayOrder < entries'[other].displayOrder
    BY <1>1, <2>1, <2>2, <2>3, <2>5 DEF PositionsGrow
  <2> QED
    BY <2>6, <2>7, <2>8 DEF PositionsGrow
<1>8. ASSUME NEW row \in Row, At(c, "merge"), LoadStored(c, row) PROVE PositionsGrow'
  BY <1>4, <1>8, LoadStoredDoes
<1>9. CASE WriteStored(c)
  <2> DEFINE id == edit[c].id
  <2>1. GoesAlone(c) /\ edit'[c] = NoEdit /\ edit[c].at = "write" /\ lockedRows' = lockedRows
    BY <1>9, WriteStoredDoes
  <2>2. id \in Entry
    BY <1>9, WriteStoredDoes, WriteTargets
  <2>3. \A other \in Entry : other # id => entries'[other] = entries[other]
    BY <1>9, RowsWritten
  <2>4. ~tied' => ~tied /\ Present' = Present
                  /\ (id \in Present => entries'[id].displayOrder = entries[id].displayOrder)
    <3>1. CASE entries' = entries /\ (tied' = tied)
      BY <3>1 DEF Present
    <3>2. ASSUME NEW saved \in Row, entries' = [entries EXCEPT ![id] = saved],
                 edit[c].stored # NoRow =>
                   /\ entries[id] # NoRow
                   /\ saved.displayOrder =
                        IF edit[c].row.displayOrder # edit[c].stored.displayOrder
                        THEN edit[c].row.displayOrder ELSE entries[id].displayOrder,
                 ~tied' => ~tied /\ ~MovesEntry(c), ~tied'
          PROVE  ~tied /\ Present' = Present /\ entries'[id].displayOrder = entries[id].displayOrder
      <4>1. entries[id] # NoRow /\ saved.displayOrder = entries[id].displayOrder
        BY <3>2 DEF MovesEntry
      <4>2. entries'[id] = saved /\ id \in Present
        BY <1>1, <2>2, <3>2, <4>1, PresentIs DEF PSTypeOK
      <4>3. Present' = Present
        BY <1>9, <4>2, RowsWritten
      <4> QED
        BY <3>2, <4>1, <4>2, <4>3
    <3> QED
      BY <1>9, <3>1, <3>2, WriteStoredDoes
  <2>5. lockedRows' \subseteq Present' /\ Present \subseteq Entry
    BY <1>1, <1>9, <2>1, RowsWritten, PresentIs DEF PSTypeOK
  <2> HIDE DEF id
  <2> SUFFICES ASSUME ~tied' PROVE PositionsGrow'
    BY DEF PositionsGrow
  <2>6. \A other \in Present' : entries'[other].displayOrder = entries[other].displayOrder
    BY <2>3, <2>4, <2>5
  <2> QED
    BY <1>2, <1>3, <2>1, <2>4, <2>5, <2>6
<1>10. CASE Remove(c)
  <2>1. PICK id \in Entry \ lockedRows :
          /\ \A other \in Entry : other # id => entries'[other] = entries[other]
          /\ Present' = Present \ {id}
    BY <1>10, RemoveDoes
  <2>2. GoesAlone(c) /\ edit'[c] = NoEdit /\ lockedRows' = lockedRows /\ (tied' = tied)
    BY <1>10, RemoveDoes
  <2>3. Present \subseteq Entry /\ lockedRows \subseteq Present
    BY <1>1, PresentIs DEF PSTypeOK
  <2>4. lockedRows' \subseteq Present'
    BY <2>1, <2>2, <2>3
  <2>5. \A other \in Present' : entries'[other].displayOrder = entries[other].displayOrder
    BY <2>1, <2>3
  <2> QED
    BY <1>2, <1>3, <2>1, <2>2, <2>4, <2>5
<1>11. CASE LockRows(c)
  <2>1. Present' = Present
    BY <1>11 DEF LockRows, Present
  <2>2. GoesAlone(c) /\ edit'[c].at = "renumber" /\ lockedRows' = Present /\ UNCHANGED <<entries, tied>>
    BY <1>11, LockRowsDoes
  <2> QED
    BY <1>3, <2>1, <2>2
<1>12. CASE Renumber(c)
  <2> DEFINE order == edit[c].order
  <2> SUFFICES ASSUME ~tied' PROVE PositionsGrow'
    BY DEF PositionsGrow
  <2>1. /\ GoesAlone(c) /\ edit'[c] = NoEdit /\ lockedRows' = {} /\ order \in Seq(Entry)
        /\ Present' = Present
        /\ \A id \in Entry \ lockedRows : entries'[id] = entries[id]
        /\ \/ ~tied /\ Len(order) <= Cardinality(lockedRows)
           \/ lockedRows = Present /\ \A d \in Editor : edit[d].at # "insert"
    BY <1>12, RenumberDoes
  <2>2. PICK place \in [lockedRows -> DOMAIN order] : \A id \in lockedRows :
          order[place[id]] = id /\ entries'[id].displayOrder = place[id] - 1
    BY <1>12, RenumberDoes
  <2>3. Present \subseteq Entry /\ lockedRows \subseteq Present
        /\ \A id \in Present : entries[id].displayOrder \in Nat
    BY <1>1, PresentIs DEF PSTypeOK, Row
  <2>4. Len(order) \in Nat /\ \A id \in lockedRows : place[id] \in 1..Len(order)
    BY <2>1, <2>2
  <2>5. Cardinality(lockedRows) \in Nat
    BY <1>1, <2>3, FS_Subset, FS_CardinalityType
  <2> HIDE DEF order
  <2>6. \A i, j \in lockedRows : i # j => entries'[i].displayOrder # entries'[j].displayOrder
    BY <2>2, <2>4
  <2>7. CASE lockedRows = Present /\ \A d \in Editor : edit[d].at # "insert"
    <3>1. \A d \in Editor : edit'[d].at # "insert"
      BY <1>2, <2>1, <2>7
    <3> QED
      BY <2>1, <2>6, <2>7, <3>1 DEF PositionsGrow
  <2>8. CASE ~tied /\ Len(order) <= Cardinality(lockedRows)
    <3>1. ASSUME NEW id \in lockedRows
          PROVE  /\ entries'[id].displayOrder \in Nat
                 /\ entries'[id].displayOrder < Cardinality(lockedRows)
      BY <2>2, <2>4, <2>5, <2>8
    <3>2. \A i, j \in Present : i # j => entries[i].displayOrder # entries[j].displayOrder
      BY <1>1, <2>8 DEF PositionsGrow
    <3>3. ASSUME NEW id \in Present \ lockedRows
          PROVE  /\ entries'[id].displayOrder = entries[id].displayOrder
                 /\ Cardinality(lockedRows) <= entries[id].displayOrder
      <4>1. \A locked \in lockedRows : entries[locked].displayOrder < entries[id].displayOrder
        BY <1>1, <2>8, <3>3 DEF PositionsGrow
      <4>2. Cardinality(lockedRows) <= entries[id].displayOrder
        BY <1>1, <2>3, <3>2, <4>1, AboveLocked
      <4> QED
        BY <2>1, <2>3, <4>2
    <3>4. ASSUME NEW d \in Editor, edit'[d].at = "insert"
          PROVE  /\ d # c /\ edit'[d].displayOrder \in Nat
                 /\ Cardinality(lockedRows) <= edit'[d].displayOrder
                 /\ \A id \in Present : entries[id].displayOrder < edit'[d].displayOrder
      <4>1. d # c /\ edit'[d] = edit[d]
        BY <1>2, <2>1, <3>4
      <4>2. edit[d].displayOrder \in Nat
        BY <1>1, <3>4, <4>1, EditKinds
      <4>3. \A id \in Present : entries[id].displayOrder < edit[d].displayOrder
        BY <1>1, <2>8, <3>4, <4>1 DEF PositionsGrow
      <4>4. Cardinality(lockedRows) <= edit[d].displayOrder
        BY <1>1, <2>3, <3>2, <4>2, <4>3, AboveLocked
      <4> QED
        BY <4>1, <4>2, <4>3, <4>4
    <3>5. \A i, j \in Present : i # j => entries'[i].displayOrder # entries'[j].displayOrder
      <4> SUFFICES ASSUME NEW i \in Present, NEW j \in Present, i # j
                   PROVE  entries'[i].displayOrder # entries'[j].displayOrder
        OBVIOUS
      <4>1. CASE i \in lockedRows /\ j \in lockedRows
        BY <2>6, <4>1
      <4>2. CASE i \in lockedRows /\ j \notin lockedRows
        BY <2>3, <2>5, <3>1, <3>3, <4>2
      <4>3. CASE i \notin lockedRows /\ j \in lockedRows
        BY <2>3, <2>5, <3>1, <3>3, <4>3
      <4>4. CASE i \notin lockedRows /\ j \notin lockedRows
        BY <3>2, <3>3, <4>4
      <4> QED
        BY <4>1, <4>2, <4>3, <4>4
    <3>6. ASSUME NEW d \in Editor, NEW id \in Present, edit'[d].at = "insert"
          PROVE  entries'[id].displayOrder < edit'[d].displayOrder
      <4>1. CASE id \in lockedRows
        BY <2>5, <3>1, <3>4, <3>6, <4>1
      <4>2. CASE id \notin lockedRows
        BY <3>3, <3>4, <3>6, <4>2
      <4> QED
        BY <4>1, <4>2
    <3> QED
      BY <2>1, <3>5, <3>6 DEF PositionsGrow
  <2> QED
    BY <2>1, <2>7, <2>8
<1>13. CASE Abort(c)
  <2>1. Present' = Present
    BY <1>13 DEF Abort, Present
  <2>2. /\ GoesAlone(c) /\ edit'[c] = NoEdit /\ UNCHANGED <<entries, tied>>
        /\ lockedRows' = lockedRows \/ lockedRows' = {}
    BY <1>13, AbortDoes
  <2>3. lockedRows' \subseteq Present'
    BY <1>1, <2>1, <2>2 DEF PSTypeOK
  <2> QED
    BY <1>2, <1>3, <2>1, <2>2, <2>3
<1> QED
  BY <1>5, <1>6, <1>7, <1>8, <1>9, <1>10, <1>11, <1>12, <1>13 DEF Step

\* A sequence no longer than the set that it names has nothing twice.
LEMMA NamedOnce ==
  ASSUME NEW S, NEW order \in Seq(S), NEW T, IsFiniteSet(T),
         T = {order[i] : i \in DOMAIN order}, Len(order) <= Cardinality(T)
  PROVE  \A i, j \in DOMAIN order : order[i] = order[j] => i = j
<1>1. Len(order) \in Nat /\ DOMAIN order = 1..Len(order)
  OBVIOUS
<1>2. order \in Surjection(1..Len(order), T)
  <2>1. order \in [1..Len(order) -> T]
    BY <1>1
  <2>2. \A t \in T : \E i \in 1..Len(order) : order[i] = t
    BY <1>1
  <2> QED
    BY <2>1, <2>2 DEF Surjection
<1>3. IsFiniteSet(1..Len(order)) /\ Cardinality(1..Len(order)) = Len(order)
  <2>1. \A n \in Nat : IsFiniteSet(1..n) /\ Cardinality(1..n) = n
    BY FS_Interval
  <2> QED
    BY <1>1, <2>1
<1>4. Cardinality(T) \in Nat
  BY FS_CardinalityType
<1>5. /\ Cardinality(T) <= Len(order)
      /\ Cardinality(T) = Len(order) <=> order \in Injection(1..Len(order), T)
  BY <1>2, <1>3, FS_Surjection
<1>6. order \in Injection(1..Len(order), T)
  BY <1>1, <1>4, <1>5
<1> QED
  BY <1>1, <1>6 DEF Injection, IsInjective

\* Each step preserves InPlace.
LEMMA InPlaceStep ==
  ASSUME SectionsInv, NEW c \in Editor, Step(c)
  PROVE  InPlace'
<1> USE DEF GoesAlone, At
<1>1. PSTypeOK /\ IdsKnown /\ LocksHeld /\ InPlace
  BY DEF SectionsInv
<1>2. NoEdit.at = "idle"
  BY DEF NoEdit
<1>3. \A i \in DOMAIN arranged : arranged[i] \in Entry /\ arranged[i] \in Present \cup removed
  BY <1>1 DEF PSTypeOK, IdsKnown, Known
<1>4. ASSUME GoesAlone(c), arranged' = arranged,
             \A i \in DOMAIN arranged :
               arranged[i] \in Present' => entries'[arranged[i]].displayOrder = i - 1,
             \A i \in DOMAIN arranged : edit'[c].at = "merge" /\ edit'[c].id = arranged[i] =>
               edit'[c].row.displayOrder = i - 1,
             \A i \in DOMAIN arranged : edit'[c].at = "write" /\ edit'[c].id = arranged[i] =>
               edit'[c].row.displayOrder = i - 1
      PROVE  InPlace'
  <2>1. \A d \in Editor : d # c => edit'[d] = edit[d] /\ (MovesEntry(d)' <=> MovesEntry(d))
    BY <1>4 DEF MovesEntry
  <2> QED
    BY <1>1, <1>4, <2>1 DEF InPlace
<1>5. ASSUME GoesAlone(c), Still,
             \A i \in DOMAIN arranged : edit'[c].at = "merge" /\ edit'[c].id = arranged[i] =>
               edit'[c].row.displayOrder = i - 1,
             \A i \in DOMAIN arranged : edit'[c].at = "write" /\ edit'[c].id = arranged[i] =>
               edit'[c].row.displayOrder = i - 1
      PROVE  InPlace'
  <2>1. Present' = Present /\ entries' = entries /\ arranged' = arranged
    BY <1>5, StillKeeps DEF Still
  <2> QED
    BY <1>1, <1>4, <1>5, <2>1 DEF InPlace
<1>6. CASE ReadMax(c)
  BY <1>5, <1>6, ReadMaxDoes
<1>7. CASE ReadOwned(c, "merge") \/ ReadOwned(c, "remove")
  <2>1. CASE ReadOwned(c, "merge")
    BY <1>1, <1>5, <2>1, ReadOwnedDoes DEF InPlace
  <2>2. CASE ReadOwned(c, "remove")
    BY <1>5, <2>2, ReadOwnedDoes
  <2> QED
    BY <1>7, <2>1, <2>2
<1>8. ASSUME NEW start \in Date, NEW end \in Date \cup {Ongoing}, NEW isCurrent \in BOOLEAN,
             Insert(c, start, end, isCurrent)
      PROVE  InPlace'
  <2>1. PICK id \in Entry \ (Present \cup removed) :
          /\ \A other \in Entry : other # id => entries'[other] = entries[other]
          /\ Present' = Present \cup {id}
    BY <1>8, InsertDoes
  <2>2. GoesAlone(c) /\ edit'[c] = NoEdit /\ arranged' = arranged
    BY <1>8, InsertDoes
  <2>3. \A i \in DOMAIN arranged :
          arranged[i] \in Present' => entries'[arranged[i]].displayOrder = i - 1
    BY <1>1, <1>3, <2>1 DEF InPlace
  <2> QED
    BY <1>2, <1>4, <2>2, <2>3
<1>9. ASSUME NEW row \in Row, At(c, "merge"), LoadStored(c, row),
             row.displayOrder = edit[c].row.displayOrder
      PROVE  InPlace'
  <2>1. GoesAlone(c) /\ Still /\ edit'[c].at = "write" /\ edit'[c].id = edit[c].id /\ edit'[c].row = row
    BY <1>9, LoadStoredDoes
  <2>2. \A i \in DOMAIN arranged : edit[c].id = arranged[i] => row.displayOrder = i - 1
    BY <1>1, <1>9 DEF InPlace
  <2> QED
    BY <1>5, <2>1, <2>2
<1>10. CASE WriteStored(c)
  <2> DEFINE id == edit[c].id
  <2>1. GoesAlone(c) /\ edit'[c] = NoEdit /\ edit[c].at = "write" /\ arranged' = arranged
    BY <1>10, WriteStoredDoes
  <2>2. id \in Entry
    BY <1>10, WriteStoredDoes, WriteTargets
  <2>3. /\ \A other \in Entry : other # id => entries'[other] = entries[other]
        /\ Present' \subseteq Present \cup {id}
    BY <1>10, RowsWritten
  <2>4. ASSUME NEW i \in DOMAIN arranged, id = arranged[i], id \in Present'
        PROVE  entries'[id].displayOrder = i - 1
    <3>1. CASE entries' = entries
      <4>1. id \in Present
        BY <2>4, <3>1 DEF Present
      <4> QED
        BY <1>1, <2>4, <3>1, <4>1 DEF InPlace
    <3>2. ASSUME NEW saved \in Row, entries' = [entries EXCEPT ![id] = saved],
                 edit[c].stored = NoRow => saved = edit[c].row,
                 edit[c].stored # NoRow =>
                   /\ entries[id] # NoRow
                   /\ saved.displayOrder =
                        IF edit[c].row.displayOrder # edit[c].stored.displayOrder
                        THEN edit[c].row.displayOrder ELSE entries[id].displayOrder
          PROVE  entries'[id].displayOrder = i - 1
      <4>1. entries'[id] = saved
        BY <1>1, <2>2, <3>2 DEF PSTypeOK
      <4>2. MovesEntry(c) => edit[c].row.displayOrder = i - 1
        BY <1>1, <2>1, <2>4 DEF InPlace
      <4>3. CASE edit[c].stored = NoRow
        BY <3>2, <4>1, <4>2, <4>3 DEF MovesEntry
      <4>4. CASE edit[c].stored # NoRow
        <5>1. entries[id] # NoRow => entries[id].displayOrder = i - 1
          BY <1>1, <2>2, <2>4, PresentIs DEF InPlace
        <5> QED
          BY <3>2, <4>1, <4>2, <4>4, <5>1 DEF MovesEntry
      <4> QED
        BY <4>3, <4>4
    <3> QED
      BY <1>10, <3>1, <3>2, WriteStoredDoes
  <2> HIDE DEF id
  <2>5. \A i \in DOMAIN arranged :
          arranged[i] \in Present' => entries'[arranged[i]].displayOrder = i - 1
    BY <1>1, <1>3, <2>3, <2>4 DEF InPlace
  <2> QED
    BY <1>2, <1>4, <2>1, <2>5
<1>11. CASE Remove(c)
  <2>1. PICK id : /\ \A other \in Entry : other # id => entries'[other] = entries[other]
                  /\ Present' = Present \ {id}
    BY <1>11, RemoveDoes
  <2>2. GoesAlone(c) /\ edit'[c] = NoEdit /\ arranged' = arranged
    BY <1>11, RemoveDoes
  <2>3. \A i \in DOMAIN arranged :
          arranged[i] \in Present' => entries'[arranged[i]].displayOrder = i - 1
    BY <1>1, <1>3, <2>1 DEF InPlace
  <2> QED
    BY <1>2, <1>4, <2>2, <2>3
<1>12. CASE LockRows(c)
  <2>1. Present' = Present
    BY <1>12 DEF LockRows, Present
  <2>2. GoesAlone(c) /\ edit'[c].at = "renumber" /\ UNCHANGED <<entries, arranged>>
    BY <1>12, LockRowsDoes
  <2> QED
    BY <1>1, <1>4, <2>1, <2>2 DEF InPlace
<1>13. CASE Renumber(c)
  <2> DEFINE order == edit[c].order
  <2>1. /\ GoesAlone(c) /\ edit'[c] = NoEdit /\ edit[c].at = "renumber" /\ order \in Seq(Entry)
        /\ Present' = Present
        /\ \/ arranged' = <<>>
           \/ /\ arranged' = order /\ Len(order) <= Cardinality(lockedRows)
              /\ \A d \in Editor : ~WritesOldOrder(d)
    BY <1>13, RenumberDoes
  <2>2. PICK place \in [lockedRows -> DOMAIN order] : \A id \in lockedRows :
          order[place[id]] = id /\ entries'[id].displayOrder = place[id] - 1
    BY <1>13, RenumberDoes
  <2>3. lockedRows = {order[i] : i \in DOMAIN order}
    BY <1>1, <2>1 DEF LocksHeld
  <2>4. IsFiniteSet(lockedRows)
    BY <1>1, FS_Subset DEF IdsKnown, PSTypeOK
  <2> HIDE DEF order
  <2>5. CASE arranged' = <<>>
    BY <2>5 DEF InPlace
  <2>6. CASE /\ arranged' = order /\ Len(order) <= Cardinality(lockedRows)
             /\ \A d \in Editor : ~WritesOldOrder(d)
    <3>1. \A i, j \in DOMAIN order : order[i] = order[j] => i = j
      BY <2>1, <2>3, <2>4, <2>6, NamedOnce
    <3>2. ASSUME NEW i \in DOMAIN order PROVE entries'[order[i]].displayOrder = i - 1
      <4>1. order[i] \in lockedRows
        BY <2>3
      <4>2. place[order[i]] \in DOMAIN order /\ order[place[order[i]]] = order[i]
        BY <2>2, <4>1
      <4>3. place[order[i]] = i
        BY <3>1, <4>2
      <4> QED
        BY <2>2, <4>1, <4>3
    <3>3. ASSUME NEW d \in Editor
          PROVE  edit'[d].at # "merge" /\ ~(edit'[d].at = "write" /\ MovesEntry(d)')
      <4>1. CASE d = c
        BY <1>2, <2>1, <4>1
      <4>2. CASE d # c
        BY <2>1, <2>6, <4>2 DEF WritesOldOrder, MovesEntry
      <4> QED
        BY <4>1, <4>2
    <3> QED
      BY <2>6, <3>2, <3>3 DEF InPlace
  <2> QED
    BY <2>1, <2>5, <2>6
<1>14. CASE Abort(c)
  <2>1. Present' = Present
    BY <1>14 DEF Abort, Present
  <2>2. GoesAlone(c) /\ edit'[c] = NoEdit /\ UNCHANGED <<entries, arranged>>
    BY <1>14, AbortDoes
  <2> QED
    BY <1>1, <1>2, <1>4, <2>1, <2>2 DEF InPlace
<1> QED
  BY <1>6, <1>7, <1>8, <1>9, <1>10, <1>11, <1>12, <1>13, <1>14 DEF Step

\* A new profile satisfies the invariant.
LEMMA SectionsInit == PSInit => SectionsInv
<1> SUFFICES ASSUME PSInit PROVE SectionsInv
  OBVIOUS
<1>1. PICK place \in [EntriesOf["components"] -> 0 .. Cardinality(EntriesOf["components"]) - 1] :
        /\ \A i, j \in EntriesOf["components"] : i # j => place[i] # place[j]
        /\ entries = [id \in Entry |->
                        IF list = "components" /\ id \in EntriesOf[list]
                        THEN [displayOrder |-> place[id], start |-> AnyDate, end |-> AnyDate,
                              isCurrent |-> FALSE]
                        ELSE NoRow]
  BY DEF PSInit
<1>2. /\ list \in List /\ lockedRows = {} /\ edit = [c \in Editor |-> NoEdit]
      /\ removed = {} /\ ghosts = {} /\ arranged = <<>> /\ tied = FALSE /\ mixed = {}
  BY DEF PSInit
<1>3. AnyDate \in Date
  BY SectionsAssumption DEF AnyDate
<1>4. Cardinality(EntriesOf["components"]) \in Nat
  BY SectionsAssumption, FS_CardinalityType
<1>5. ASSUME NEW id \in EntriesOf["components"]
      PROVE  [displayOrder |-> place[id], start |-> AnyDate, end |-> AnyDate,
              isCurrent |-> FALSE] \in Row
  <2>1. place[id] \in Nat
    BY <1>1, <1>4
  <2> QED
    BY <1>3, <2>1 DEF Row
<1>6. ASSUME NEW id \in Entry
      PROVE  \/ entries[id] = NoRow /\ (list = "components" => id \notin EntriesOf["components"])
             \/ /\ list = "components" /\ id \in EntriesOf["components"] /\ entries[id] \in Row
                /\ entries[id].displayOrder = place[id]
  <2>1. CASE list = "components" /\ id \in EntriesOf["components"]
    BY <1>1, <1>5, <2>1
  <2>2. CASE ~ (list = "components" /\ id \in EntriesOf["components"])
    BY <1>1, <2>2
  <2> QED
    BY <2>1, <2>2
<1>7. entries \in [Entry -> MaybeRow]
  <2>1. \A id \in Entry : entries[id] \in MaybeRow
    BY <1>6 DEF MaybeRow
  <2>2. \E f : entries = [id \in Entry |-> f[id]]
    <3>1. entries = [id \in Entry |-> entries[id]]
      BY <1>1
    <3> QED
      BY <3>1
  <2> QED
    BY <2>1, <2>2
<1>8. Present \subseteq EntriesOf[list] /\ IsFiniteSet(Present)
      /\ (list # "components" => Present = {})
      /\ (Present \subseteq EntriesOf["components"])
  <2>1. \A id \in Present : list = "components" /\ id \in EntriesOf["components"]
    BY <1>6 DEF Present
  <2>2. IsFiniteSet(Present)
    <3>1. Present \subseteq EntriesOf["components"]
      BY <2>1
    <3> QED
      BY <3>1, SectionsAssumption, FS_Subset
  <2> QED
    BY <2>1, <2>2
<1>9. NoEdit \in Edit /\ NoEdit.at = "idle"
  BY DEF Edit, NoEdit
<1>10. \A c \in Editor : edit[c].at = "idle"
  BY <1>2, <1>9
<1>11. PSTypeOK
  <2>1. lockedRows \subseteq Present /\ ghosts \subseteq removed /\ removed \subseteq Entry
        /\ mixed \subseteq Entry /\ (tied \in BOOLEAN) /\ edit \in [Editor -> Edit]
    BY <1>2, <1>9
  <2>2. arranged \in Seq(Entry)
    BY <1>2
  <2> QED
    BY <1>2, <1>7, <1>8, <2>1, <2>2 DEF PSTypeOK
<1>12. IdsKnown
  BY <1>2, <1>8, <1>10 DEF IdsKnown
<1>13. GhostsKnown
  BY <1>2, <1>10 DEF GhostsKnown, DeletedStaysDeleted, At
<1>14. WritesChecked
  <2>1. list = "components" => DatesConsistent
    BY DEF DatesConsistent
  <2>2. list # "components" => DatesConsistent
    BY <1>8 DEF DatesConsistent
  <2> QED
    BY <1>10, <2>1, <2>2 DEF WritesChecked, At
<1>15. LocksHeld /\ InPlace
  BY <1>2, <1>10 DEF LocksHeld, InPlace, At
<1>16. PositionsGrow
  <2>1. \A i, j \in Present : i # j => entries[i].displayOrder # entries[j].displayOrder
    <3>1. \A i \in Present : i \in EntriesOf["components"] /\ entries[i].displayOrder = place[i]
      BY <1>6 DEF Present
    <3> QED
      BY <1>1, <3>1
  <2> QED
    BY <1>2, <1>10, <2>1 DEF PositionsGrow, At
<1> QED
  BY <1>11, <1>12, <1>13, <1>14, <1>15, <1>16 DEF SectionsInv

\* The invariant is about the variables of the lists only.
LEMMA SectionsStill == SectionsInv /\ UNCHANGED sectionVars => SectionsInv'
BY DEF SectionsInv, sectionVars, PSTypeOK, Present, IdsKnown, Known, GhostsKnown,
       DeletedStaysDeleted, WritesChecked, DatesConsistent, Checked, EndYearAfterStartYear,
       validateWorkExperienceDates, SameDates, LocksHeld, PositionsGrow, InPlace, MovesEntry, At

\* The lists keep their invariant.
LEMMA SectionsInvariant == PSSpec => []SectionsInv
<1>1. SectionsInv /\ PSNext => SectionsInv'
  <2> SUFFICES ASSUME SectionsInv, PSNext PROVE SectionsInv'
    OBVIOUS
  <2>1. PICK c \in Editor : Step(c)
    BY StepsOfLists DEF SectionsInv
  <2>2. PSTypeOK' /\ IdsKnown' /\ GhostsKnown' /\ WritesChecked'
    BY <2>1, SectionTypes, IdsStep, GhostsStep, WritesStep
  <2>3. LocksHeld' /\ PositionsGrow' /\ InPlace'
    BY <2>1, LocksStep, PositionsStep, InPlaceStep
  <2> QED
    BY <2>2, <2>3 DEF SectionsInv
<1>2. SectionsInv /\ [PSNext]_sectionVars => SectionsInv'
  BY <1>1, SectionsStill
<1> QED
  BY <1>2, SectionsInit, PTL DEF PSSpec

(***************************************************************************)
(* The state of a list has its types: an order that is locked or answered  *)
(* is of entries of this list.                                             *)
(***************************************************************************)
THEOREM SectionTypesHold == PSSpec => []PSTypeOK
<1>1. SectionsInv => PSTypeOK
  BY DEF SectionsInv
<1> QED
  BY <1>1, SectionsInvariant, PTL

(***************************************************************************)
(* However many tabs edit a list, the dates of an entry are consistent     *)
(* unless two updates have written it at once, and a deleted entry comes   *)
(* back only through an update that had read it before (save() of the      *)
(* merged entity).                                                         *)
(***************************************************************************)
THEOREM EntriesStaySound == PSSpec => []EntriesSound
<1>1. SectionsInv => EntriesSound
  BY DEF SectionsInv, WritesChecked, GhostsKnown, EntriesSound
<1> QED
  BY <1>1, SectionsInvariant, PTL

(***************************************************************************)
(* However many tabs edit a list, two entries get one position only by the *)
(* overlaps that the model marks as tied: two creates, an update that      *)
(* moves an entry, a create and a reorder that names an id twice.          *)
(***************************************************************************)
THEOREM PositionsStayDistinct == PSSpec => []PositionsDistinct
<1>1. SectionsInv => PositionsDistinct
  BY DEF SectionsInv, PositionsGrow, PositionsDistinct
<1> QED
  BY <1>1, SectionsInvariant, PTL

(***************************************************************************)
(* The order that a reorder has answered holds until the next one,         *)
(* whatever is created, changed and deleted meanwhile, unless an update    *)
(* that had read its entry before writes it afterwards.                    *)
(***************************************************************************)
THEOREM AnsweredOrderHolds == PSSpec => []OrderHolds
<1>1. ASSUME SectionsInv PROVE OrderHolds
  <2> SUFFICES ASSUME NEW i \in DOMAIN arranged, NEW j \in DOMAIN arranged,
                      i < j, {arranged[i], arranged[j]} \subseteq Present
               PROVE  entries[arranged[i]].displayOrder < entries[arranged[j]].displayOrder
    BY DEF OrderHolds
  <2>1. entries[arranged[i]].displayOrder = i - 1 /\ entries[arranged[j]].displayOrder = j - 1
    BY <1>1 DEF SectionsInv, InPlace
  <2>2. arranged \in Seq(Entry) /\ i \in Nat /\ j \in Nat
    BY <1>1 DEF SectionsInv, PSTypeOK
  <2> QED
    BY <2>1, <2>2
<1> QED
  BY <1>1, SectionsInvariant, PTL
=============================================================================
