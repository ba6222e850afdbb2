-------------------------- MODULE ProfileSections --------------------------
(***************************************************************************)
(* The ordered lists of a profile: components, skills, education, work     *)
(* experience and awards, each a table ordered by displayOrder that the    *)
(* owner edits from several tabs.  A behaviour is about one list, as no    *)
(* operation touches two.  save() reads the row again and updates the      *)
(* columns in which the entity differs, or inserts it if the row is gone.  *)
(***************************************************************************)
EXTENDS Naturals, FiniteSets, Sequences
Sets == INSTANCE FiniteSetsExt

CONSTANTS
  Editor,    \* the owner's tabs, each with one request at a time
  EntriesOf, \* for each list the ids its rows may get
  Date,      \* years, or months of years
  Ongoing,   \* an end that is not set
  NoRow      \* there is no row with this id

List == {"components", "skills", "education", "workExperience", "awards"}
Entry == UNION {EntriesOf[l] : l \in List}

ASSUME SectionsAssumption ==
  /\ DOMAIN EntriesOf = List /\ IsFiniteSet(EntriesOf["components"])
  /\ Date \subseteq Nat /\ Date # {}
  /\ Ongoing \notin Date

Row == [displayOrder : Nat, start : Date, end : Date \cup {Ongoing}, isCurrent : BOOLEAN]
ASSUME NoRowAssumption == NoRow \notin Row

MaybeRow == Row \cup {NoRow}

NoEdit == [at |-> "idle"]
Edit ==
  {NoEdit}
  \cup [at : {"insert"}, displayOrder : Nat]
  \cup [at : {"merge"}, id : Entry, row : Row]
  \cup [at : {"write"}, id : Entry, row : Row, stored : MaybeRow]
  \cup [at : {"remove"}, id : Entry]
  \cup [at : {"renumber"}, order : Seq(Entry)]

VARIABLES
  list,       \* which of the lists this is
  entries,    \* its table, by id
  lockedRows, \* the rows a reorder has selected FOR UPDATE
  edit,       \* where the request of each tab is
  removed,    \* ids that have been deleted
  ghosts,     \* those of them that an update had read and not yet read again
  arranged,   \* the order that was answered last and has to hold, or <<>>
  tied,       \* overlapping requests may have given two entries one position
  mixed       \* entries that two overlapping updates have written

sectionVars == <<list, entries, lockedRows, edit, removed, ghosts, arranged, tied, mixed>>
Present == {id \in Entry : entries[id] # NoRow}

PSTypeOK ==
  /\ list \in List
  /\ entries \in [Entry -> MaybeRow] /\ Present \subseteq EntriesOf[list]
  /\ lockedRows \subseteq Present
  /\ edit \in [Editor -> Edit]
  /\ ghosts \subseteq removed /\ removed \subseteq Entry
  /\ arranged \in Seq(Entry)
  /\ tied \in BOOLEAN
  /\ mixed \subseteq Entry

\* The lists that have no dates get this one.
AnyDate == CHOOSE date \in Date : TRUE

\* createProfile gives a profile its components, in order; the other lists are
\* empty, and components are neither added nor deleted.
PSInit ==
  /\ list \in List
  /\ \E place \in [EntriesOf["components"] -> 0 .. Cardinality(EntriesOf["components"]) - 1] :
       /\ \A i, j \in EntriesOf["components"] : i # j => place[i] # place[j]
       /\ entries = [id \in Entry |->
                       IF list = "components" /\ id \in EntriesOf[list]
                       THEN [displayOrder |-> place[id], start |-> AnyDate, end |-> AnyDate,
                             isCurrent |-> FALSE]
                       ELSE NoRow]
  /\ lockedRows = {}
  /\ edit = [c \in Editor |-> NoEdit]
  /\ removed = {} /\ ghosts = {}
  /\ arranged = <<>>
  /\ tied = FALSE
  /\ mixed = {}

Idle(c) == edit[c] = NoEdit
At(c, label) == edit[c].at = label
GoOn(c, request) == edit' = [edit EXCEPT ![c] = request]
Done(c) == GoOn(c, NoEdit)

(***************************************************************************)
(* What the operations on the lists have in common.                        *)
(***************************************************************************)

\* Mutant: the number of rows.
NextOrderByCount(ids) == Cardinality(ids)

\* (MAX(displayOrder) ?? -1) + 1 of the profile's rows.
NextOrder(ids) ==
  LET orders == {entries[id].displayOrder : id \in ids}
  IN  IF orders = {} THEN 0 ELSE Sets!Max(orders) + 1

\* The ids are enough for as many rows as are created (a bound).
ReadMax(c) ==
  /\ Idle(c) /\ EntriesOf[list] \ (Present \cup removed) # {}
  /\ GoOn(c, [at |-> "insert", displayOrder |-> NextOrder(Present)])
  /\ UNCHANGED <<list, entries, lockedRows, removed, ghosts, arranged, tied, mixed>>

\* save() of a new entity, with a fresh uuid.
Insert(c, start, end, isCurrent) ==
  /\ At(c, "insert")
  /\ \E id \in EntriesOf[list] \ (Present \cup removed) :
       entries' = [entries EXCEPT ![id] = [displayOrder |-> edit[c].displayOrder, start |-> start,
                                           end |-> end, isCurrent |-> isCurrent]]
  /\ tied' = (tied \/ \E d \in Editor \ {c} : At(d, "insert"))
  /\ Done(c)
  /\ UNCHANGED <<list, lockedRows, removed, ghosts, arranged, mixed>>

\* The entry is read, and found to belong to the user.
ReadOwned(c, label) ==
  /\ Idle(c)
  /\ \E id \in Present :
       GoOn(c, IF label = "merge" THEN [at |-> "merge", id |-> id, row |-> entries[id]]
                                  ELSE [at |-> label, id |-> id])
  /\ UNCHANGED <<list, entries, lockedRows, removed, ghosts, arranged, tied, mixed>>

\* The entity has been changed to row, and save() reads what is stored now.
LoadStored(c, row) ==
  /\ GoOn(c, [at |-> "write", id |-> edit[c].id, row |-> row, stored |-> entries[edit[c].id]])
  /\ UNCHANGED <<list, entries, lockedRows, removed, ghosts, arranged, tied, mixed>>

\* Whether the position that the request writes is not the one it has found.
MovesEntry(c) == edit[c].stored = NoRow \/ edit[c].row.displayOrder # edit[c].stored.displayOrder

\* Mutant: every column is written.
SavedWhole(row, stored, now) == row

\* The row that save() leaves: an INSERT, or an UPDATE of the columns that differ.
Saved(row, stored, now) ==
  LET column(name) == IF row[name] # stored[name] THEN row[name] ELSE now[name]
  IN  IF NoRow \in {stored, now} THEN row
      ELSE [displayOrder |-> column("displayOrder"), start |-> column("start"),
            end |-> column("end"), isCurrent |-> column("isCurrent")]

\* Mutant: an upsert.
HitsAlways(stored, now) == TRUE

\* The UPDATE changes nothing if the row has gone, and the INSERT fails if it is back.
Hits(stored, now) == (stored = NoRow) = (now = NoRow)

\* The statement waits for the row's lock.
WriteStored(c) ==
  /\ At(c, "write")
  /\ LET id == edit[c].id
         now == entries[id]
         writes == Hits(edit[c].stored, now)
         others == {d \in Editor \ {c} : At(d, "write") /\ edit[d].id = id}
     IN  /\ id \notin lockedRows
         /\ entries' = IF writes THEN [entries EXCEPT ![id] = Saved(edit[c].row, edit[c].stored, now)]
                                 ELSE entries
         /\ tied' = (tied \/ (writes /\ MovesEntry(c)))
         /\ mixed' = IF others # {} THEN mixed \cup {id}
                     ELSE IF now = edit[c].stored THEN mixed \ {id} ELSE mixed
  /\ Done(c)
  /\ UNCHANGED <<list, lockedRows, removed, ghosts, arranged>>

\* remove(): a DELETE by id, which waits for the row's lock.
Remove(c) ==
  /\ At(c, "remove")
  /\ LET id == edit[c].id
     IN  /\ id \notin lockedRows
         /\ entries' = [entries EXCEPT ![id] = NoRow]
         /\ removed' = removed \cup {id}
         /\ ghosts' = IF \E d \in Editor : At(d, "merge") /\ edit[d].id = id
                      THEN ghosts \cup {id} ELSE ghosts
  /\ Done(c)
  /\ UNCHANGED <<list, lockedRows, arranged, tied, mixed>>

\* Only ReorderComponentsDto asks for distinct ids; an id may be named twice
\* in the others (MaxRepeats bounds how often).
MaxRepeats == 1
Orders(ids) ==
  LET n == Cardinality(ids)
      lengths == IF list = "components" THEN {n} ELSE n .. n + MaxRepeats
  IN  {order \in UNION {[1..length -> ids] : length \in lengths} : {order[i] : i \in DOMAIN order} = ids}

\* SELECT ... FOR UPDATE of the profile's rows, and the comparison of the sets.
LockRows(c) ==
  /\ Idle(c) /\ lockedRows = {} /\ Present # {}
  /\ \E order \in Orders(Present) : GoOn(c, [at |-> "renumber", order |-> order])
  /\ lockedRows' = Present
  /\ UNCHANGED <<list, entries, removed, ghosts, arranged, tied, mixed>>

\* Whether an update in flight still writes a position from before the reorder.
WritesOldOrder(c) == At(c, "merge") \/ (At(c, "write") /\ MovesEntry(c))

\* UPDATE ... FROM (VALUES ...) and COMMIT; an id named twice gets either place.
Renumber(c) ==
  /\ At(c, "renumber")
  /\ LET order == edit[c].order
     IN  /\ \E place \in [lockedRows -> DOMAIN order] :
              /\ \A id \in lockedRows : order[place[id]] = id
              /\ entries' = [id \in Entry |-> IF id \in lockedRows
                                              THEN [entries[id] EXCEPT !.displayOrder = place[id] - 1]
                                              ELSE entries[id]]
         /\ arranged' = IF \/ Len(order) > Cardinality(lockedRows)
                           \/ \E d \in Editor : WritesOldOrder(d)
                        THEN <<>> ELSE order
         /\ tied' = /\ tied \/ Len(order) > Cardinality(lockedRows)
                    /\ lockedRows # Present \/ \E d \in Editor : At(d, "insert")
  /\ lockedRows' = {}
  /\ Done(c)
  /\ UNCHANGED <<list, removed, ghosts, mixed>>

\* A query throws or the process dies: a transaction is rolled back.
Abort(c) ==
  /\ ~Idle(c)
  /\ lockedRows' = IF At(c, "renumber") THEN {} ELSE lockedRows
  /\ Done(c)
  /\ UNCHANGED <<list, entries, removed, ghosts, arranged, tied, mixed>>

(***************************************************************************)
(* Components.                                                             *)
(***************************************************************************)
\* What the fields other than the dates say does not matter here.
SaveMerged(c) == At(c, "merge") /\ LoadStored(c, edit[c].row)

patchComponent(c) ==
  list = "components" /\ (ReadOwned(c, "merge") \/ SaveMerged(c) \/ WriteStored(c))

reorderComponents(c) == list = "components" /\ (LockRows(c) \/ Renumber(c))

(***************************************************************************)
(* Skills.                                                                 *)
(***************************************************************************)
Undated(c) == Insert(c, AnyDate, AnyDate, FALSE)

createSkill(c) == list = "skills" /\ (ReadMax(c) \/ Undated(c))
updateSkill(c) == list = "skills" /\ (ReadOwned(c, "merge") \/ SaveMerged(c) \/ WriteStored(c))
deleteSkill(c) == list = "skills" /\ (ReadOwned(c, "remove") \/ Remove(c))
reorderSkills(c) == list = "skills" /\ (LockRows(c) \/ Renumber(c))

(***************************************************************************)
(* Education: the DTO compares the years it has; an update compares again  *)
(* after merging.                                                          *)
(***************************************************************************)
EndYearAfterStartYear(row) == row.end >= row.start

createEducation(c) ==
  /\ list = "education"
  /\ \/ ReadMax(c)
     \/ \E start, end \in Date : end >= start /\ Insert(c, start, end, FALSE)

\* Mutant: the merged entity is not checked; the DTO checks what it has.
updateEducationUnchecked(c) ==
  /\ list = "education"
  /\ \/ ReadOwned(c, "merge")
     \/ /\ At(c, "merge")
        /\ \E start, end \in Date :
             /\ start = edit[c].row.start \/ end = edit[c].row.end \/ end >= start
             /\ LoadStored(c, [edit[c].row EXCEPT !.start = start, !.end = end])
     \/ WriteStored(c)

updateEducation(c) ==
  /\ list = "education"
  /\ \/ ReadOwned(c, "merge")
     \/ /\ At(c, "merge")
        /\ \E start, end \in Date :
             LET row == [edit[c].row EXCEPT !.start = start, !.end = end]
             IN  EndYearAfterStartYear(row) /\ LoadStored(c, row)
     \/ WriteStored(c)

deleteEducation(c) == list = "education" /\ (ReadOwned(c, "remove") \/ Remove(c))
reorderEducation(c) == list = "education" /\ (LockRows(c) \/ Renumber(c))

(***************************************************************************)
(* Work experience: a position that is current has no end.                 *)
(***************************************************************************)
validateWorkExperienceDates(row) ==
  IF row.isCurrent THEN row.end = Ongoing ELSE row.end # Ongoing /\ row.end >= row.start

createWorkExperience(c) ==
  /\ list = "workExperience"
  /\ \/ ReadMax(c)
     \/ \E start, end \in Date : end >= start /\ Insert(c, start, end, FALSE)
     \/ \E start \in Date : Insert(c, start, Ongoing, TRUE)

updateWorkExperience(c) ==
  /\ list = "workExperience"
  /\ \/ ReadOwned(c, "merge")
     \/ /\ At(c, "merge")
        /\ \E start \in Date, end \in Date \cup {Ongoing}, isCurrent \in BOOLEAN :
             LET row == [edit[c].row EXCEPT !.start = start, !.isCurrent = isCurrent,
                                            !.end = IF isCurrent THEN Ongoing ELSE end]
             IN  validateWorkExperienceDates(row) /\ LoadStored(c, row)
     \/ WriteStored(c)

deleteWorkExperience(c) == list = "workExperience" /\ (ReadOwned(c, "remove") \/ Remove(c))
reorderWorkExperience(c) == list = "workExperience" /\ (LockRows(c) \/ Renumber(c))

(***************************************************************************)
(* Awards.                                                                 *)
(***************************************************************************)
createAward(c) == list = "awards" /\ (ReadMax(c) \/ Undated(c))
updateAward(c) == list = "awards" /\ (ReadOwned(c, "merge") \/ SaveMerged(c) \/ WriteStored(c))
deleteAward(c) == list = "awards" /\ (ReadOwned(c, "remove") \/ Remove(c))
reorderAwards(c) == list = "awards" /\ (LockRows(c) \/ Renumber(c))

PSNext ==
  \E c \in Editor :
    \/ patchComponent(c) \/ reorderComponents(c)
    \/ createSkill(c) \/ updateSkill(c) \/ deleteSkill(c) \/ reorderSkills(c)
    \/ createEducation(c) \/ updateEducation(c) \/ deleteEducation(c) \/ reorderEducation(c)
    \/ createWorkExperience(c) \/ updateWorkExperience(c)
    \/ deleteWorkExperience(c) \/ reorderWorkExperience(c)
    \/ createAward(c) \/ updateAward(c) \/ deleteAward(c) \/ reorderAwards(c)
    \/ Abort(c)

PSSpec == PSInit /\ [][PSNext]_sectionVars

(***************************************************************************)
(* Properties.                                                             *)
(***************************************************************************)

(***************************************************************************)
(* Two entries have one position only if two creates have overlapped, or   *)
(* an update a reorder or a delete of what it changes, or a create a       *)
(* reorder that names an id twice; a reorder that no create overlaps       *)
(* repairs it.  Creates and deletes during other reorders do no harm.      *)
(***************************************************************************)
PositionsDistinct ==
  ~tied => \A i, j \in Present : i # j => entries[i].displayOrder # entries[j].displayOrder

(***************************************************************************)
(* "Display order changes only happen via PUT .../order"                   *)
(* (patch-component.dto.ts): the order that a reorder has answered holds   *)
(* until the next reorder, whatever is created, changed and deleted, if no *)
(* update had read its entry before the reorder and writes it afterwards.  *)
(***************************************************************************)
OrderHolds ==
  \A i, j \in DOMAIN arranged :
    i < j /\ {arranged[i], arranged[j]} \subseteq Present
    => entries[arranged[i]].displayOrder < entries[arranged[j]].displayOrder

\* An entry's dates are in order, and it has no end if it is current.
DatesConsistent ==
  \A id \in Present \ mixed :
    /\ list = "education" => EndYearAfterStartYear(entries[id])
    /\ list = "workExperience" => validateWorkExperienceDates(entries[id])

\* A deleted entry is not in its list again.
DeletedStaysDeleted == removed \cap Present \subseteq ghosts

(***************************************************************************)
(* Updates that read an entry, check it and save() it do it no harm: its   *)
(* dates stay consistent after any sequence of partial updates, except for *)
(* entries that two updates have written at once and nobody since; and it  *)
(* stays deleted, unless an update that had read it before was to read it  *)
(* once more, when save() inserts it.                                      *)
(***************************************************************************)
EntriesSound == DatesConsistent /\ DeletedStaysDeleted
=============================================================================
