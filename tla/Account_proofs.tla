--------------------------- MODULE Account_proofs ---------------------------
(***************************************************************************)
(* Proofs about accounts: a status change takes hold after the cache's TTL *)
(* plus the slowest fill; calls on the rows of users keep to the columns   *)
(* they name, and each takes effect in one step or not at all.             *)
(***************************************************************************)
EXTENDS AccountStatus, Accounts, TLAPS

(***************************************************************************)
(* The inductive invariant: a value that is not the current status is only *)
(* as old as its reader can be slow (in a check) plus the age of the key   *)
(* (in the cache).                                                         *)
(***************************************************************************)
Freshness ==
  /\ cache \notin {NoStatus, status} => sinceChange <= MaxDelay + cacheAge
  /\ \A k \in Check : Filling(k) /\ seen[k] # status => sinceChange <= readAge[k]
  /\ \A k \in Check : startedAfter[k] <= sinceChange
  /\ \A k \in Check :
       checkPc[k] = "done" /\ startedAfter[k] >= Horizon => seen[k] = status

\* A call of apply knows its argument, and what it read once it is to write.
Arguments ==
  \A c \in Change :
    /\ changePc[c] \in {"read", "write"} => action[c] # NoAction
    /\ changePc[c] = "write" => readStatus[c] # NoStatus

IInv == TypeOK /\ Arguments /\ Freshness

(***************************************************************************)
(* Every transition of the table leads to a status.                        *)
(***************************************************************************)
LEMMA TargetType == \A a \in Action : target[a] \in Status
  BY DEF target, Action, Status

(***************************************************************************)
(* No step of apply, of resolveStatus or of time leaves the types, and apply *)
(* never writes without an argument and a status it has read.              *)
(***************************************************************************)
LEMMA TypeInductive ==
  ASSUME TypeOK, Arguments, [Next]_vars
  PROVE  TypeOK' /\ Arguments'
<1> USE TimingAssumption, NothingAssumption
      DEF TypeOK, Arguments, row, keyVars, changes, checks, clocks, EndChange, Horizon
<1>1. ASSUME NEW c \in Change, NEW a \in Action, BeginChange(c, a)
      PROVE  TypeOK' /\ Arguments'
  BY <1>1 DEF BeginChange
<1>2. ASSUME NEW c \in Change, ReadUser(c)
      PROVE  TypeOK' /\ Arguments'
  BY <1>2 DEF ReadUser
<1>3. ASSUME NEW c \in Change, Write(c)
      PROVE  TypeOK' /\ Arguments'
  BY <1>3, TargetType DEF Write
<1>4. ASSUME NEW c \in Change, Purge(c)
      PROVE  TypeOK' /\ Arguments'
  BY <1>4 DEF Purge
<1>5. ASSUME NEW c \in Change, ChangeFails(c)
      PROVE  TypeOK' /\ Arguments'
  BY <1>5 DEF ChangeFails
<1>6. ASSUME NEW k \in Check, BeginCheck(k)
      PROVE  TypeOK' /\ Arguments'
  BY <1>6 DEF BeginCheck
<1>7. ASSUME NEW k \in Check, CacheHit(k)
      PROVE  TypeOK' /\ Arguments'
  BY <1>7 DEF CacheHit
<1>8. ASSUME NEW k \in Check, CacheMiss(k)
      PROVE  TypeOK' /\ Arguments'
  BY <1>8 DEF CacheMiss
<1>9. ASSUME NEW k \in Check, ReadRow(k)
      PROVE  TypeOK' /\ Arguments'
  BY <1>9 DEF ReadRow
<1>10. ASSUME NEW k \in Check, Fill(k)
      PROVE  TypeOK' /\ Arguments'
  BY <1>10 DEF Fill
<1>11. ASSUME NEW k \in Check, FillFails(k)
      PROVE  TypeOK' /\ Arguments'
  BY <1>11 DEF FillFails
<1>12. CASE Tick
  BY <1>12 DEF Tick, Filling
<1>13. CASE UNCHANGED vars
  BY <1>13 DEF vars
<1> QED
  BY <1>1, <1>2, <1>3, <1>4, <1>5, <1>6, <1>7, <1>8, <1>9, <1>10, <1>11, <1>12, <1>13
     DEF Next, ChangeStep, CheckStep

(***************************************************************************)
(* No step makes what a check has read or the key holds older than the     *)
(* slowness of the reader and the age of the key allow.                    *)
(***************************************************************************)
LEMMA FreshnessInductive ==
  ASSUME TypeOK, TypeOK', Freshness, [Next]_vars
  PROVE  Freshness'
<1> USE TimingAssumption, NothingAssumption
      DEF TypeOK, Freshness, Filling, row, keyVars, changes, checks, clocks, EndChange, Horizon
<1>1. ASSUME NEW c \in Change, NEW a \in Action, BeginChange(c, a)
      PROVE  Freshness'
  BY <1>1 DEF BeginChange
<1>2. ASSUME NEW c \in Change, ReadUser(c)
      PROVE  Freshness'
  BY <1>2 DEF ReadUser
<1>3. ASSUME NEW c \in Change, Write(c)
      PROVE  Freshness'
  BY <1>3 DEF Write
<1>4. ASSUME NEW c \in Change, Purge(c)
      PROVE  Freshness'
  BY <1>4 DEF Purge
<1>5. ASSUME NEW c \in Change, ChangeFails(c)
      PROVE  Freshness'
  BY <1>5 DEF ChangeFails
<1>6. ASSUME NEW k \in Check, BeginCheck(k)
      PROVE  Freshness'
  BY <1>6 DEF BeginCheck
<1>7. ASSUME NEW k \in Check, CacheHit(k)
      PROVE  Freshness'
  BY <1>7 DEF CacheHit
<1>8. ASSUME NEW k \in Check, CacheMiss(k)
      PROVE  Freshness'
  BY <1>8 DEF CacheMiss
<1>9. ASSUME NEW k \in Check, ReadRow(k)
      PROVE  Freshness'
  BY <1>9 DEF ReadRow
<1>10. ASSUME NEW k \in Check, Fill(k)
      PROVE  Freshness'
  BY <1>10 DEF Fill
<1>11. ASSUME NEW k \in Check, FillFails(k)
      PROVE  Freshness'
  BY <1>11 DEF FillFails
<1>12. CASE Tick
  <2>1. (cache \notin {NoStatus, status} => sinceChange <= MaxDelay + cacheAge)'
    <3>1. sinceChange' <= sinceChange + 1
      BY <1>12 DEF Tick
    <3>2. status' = status
      BY <1>12 DEF Tick
    <3>3. CASE cache = NoStatus
      BY <1>12, <3>3 DEF Tick
    <3>4. CASE cache # NoStatus /\ cacheAge + 1 < Ttl
      <4>1. cache' = cache /\ cacheAge' = cacheAge + 1
        BY <1>12, <3>4 DEF Tick
      <4> QED
        BY <3>1, <3>2, <3>4, <4>1
    <3>5. CASE cache # NoStatus /\ cacheAge + 1 >= Ttl
      <4>1. cache' = NoStatus
        BY <1>12, <3>5 DEF Tick
      <4> QED
        BY <4>1
    <3>6. cacheAge + 1 < Ttl \/ cacheAge + 1 >= Ttl
      OBVIOUS
    <3> QED
      BY <3>3, <3>4, <3>5, <3>6
  <2>2. ASSUME NEW k \in Check
        PROVE  /\ (Filling(k) /\ seen[k] # status => sinceChange <= readAge[k])'
               /\ (startedAfter[k] <= sinceChange)'
    BY <1>12, <2>2 DEF Tick
  <2>3. ASSUME NEW k \in Check
        PROVE  (checkPc[k] = "done" /\ startedAfter[k] >= Horizon => seen[k] = status)'
    BY <1>12, <2>3 DEF Tick
  <2> QED
    BY <2>1, <2>2, <2>3
<1>13. CASE UNCHANGED vars
  BY <1>13 DEF vars
<1> QED
  BY <1>1, <1>2, <1>3, <1>4, <1>5, <1>6, <1>7, <1>8, <1>9, <1>10, <1>11, <1>12, <1>13
     DEF Next, ChangeStep, CheckStep

(***************************************************************************)
(* The inductive invariant holds in every reachable state.                 *)
(***************************************************************************)
LEMMA Inductive == Spec => []IInv
<1>1. Init => IInv
  BY TimingAssumption, NothingAssumption
     DEF Init, IInv, TypeOK, Arguments, Freshness, Filling, Horizon
<1>2. IInv /\ [Next]_vars => IInv'
  BY TypeInductive, FreshnessInductive DEF IInv
<1> QED
  BY <1>1, <1>2, PTL DEF Spec

(***************************************************************************)
(* Every variable of the account keeps to its type; in particular no key   *)
(* outlives its TTL and no fill its delay.                                 *)
(***************************************************************************)
THEOREM StatusTypeCorrect == Spec => []TypeOK
<1>1. IInv => TypeOK
  BY DEF IInv
<1> QED
  BY <1>1, Inductive, PTL

(***************************************************************************)
(* A check that begins Ttl + MaxDelay after the last change answers by the *)
(* status in the table, whatever failed and whatever overlapped before.    *)
(***************************************************************************)
THEOREM BoundedStaleness == Spec => []ChangeTakesHold
<1>1. IInv => ChangeTakesHold
  BY DEF IInv, Freshness, ChangeTakesHold, IsActive
<1> QED
  BY <1>1, Inductive, PTL

-----------------------------------------------------------------------------
(***************************************************************************)
(* The rows of users.                                                      *)
(***************************************************************************)

(***************************************************************************)
(* The inductive invariant: a call that is to save a row has locked it by  *)
(* itself, and the row is still what the call has read.                    *)
(***************************************************************************)
Saving(c) == called[c].at = "save"

LockInv ==
  /\ called = [c \in AccountCall |-> called[c]]
  /\ users = [id \in AccountId |-> users[id]]
  /\ \A c \in AccountCall :
       Saving(c) => /\ called[c].row = users[called[c].id]
                    /\ users[called[c].id] # NoUser
  /\ \A c, d \in AccountCall : Saving(c) /\ Saving(d) /\ called[c].id = called[d].id => c = d

\* The calls that are not at the save are told apart by their label only.
Progress(c) ==
  /\ users' = users
  /\ \E call : call.at # "save" /\ called' = [called EXCEPT ![c] = call]

(***************************************************************************)
(* A call that reads, moves on, is refused or fails leaves the locked rows *)
(* as they are.                                                            *)
(***************************************************************************)
LEMMA ProgressKeepsLocks ==
  ASSUME LockInv, NEW c \in AccountCall, Progress(c)
  PROVE  LockInv'
<1>1. PICK call : call.at # "save" /\ called' = [called EXCEPT ![c] = call]
  BY DEF Progress
<1>2. \A d \in AccountCall : Saving(d)' => Saving(d) /\ called'[d] = called[d]
  BY <1>1 DEF LockInv, Saving
<1>3. called' = [d \in AccountCall |-> called'[d]]
  BY <1>1 DEF LockInv
<1>4. users' = users
  BY DEF Progress
<1> QED
  BY <1>2, <1>3, <1>4 DEF LockInv, Saving

\* The step of updatePreferences that locks the row.
Locks(c) ==
  /\ ~RowLocked(called[c].id) /\ users[called[c].id] # NoUser
  /\ users' = users
  /\ called' = [called EXCEPT ![c] = LockedRow(c)]

\* The steps that write: into no row that another call has locked, and over the
\* columns of the request only.
Writes(c) ==
  /\ called[c].at \in {"write", "save"}
  /\ called' = [called EXCEPT ![c] = NotCalled]
  /\ \A d \in AccountCall \ {c} : ~(Saving(d) /\ called[d].id = called[c].id)
  /\ \E value :
       /\ users' = [users EXCEPT ![called[c].id] = value]
       /\ \/ users[called[c].id] = NoUser
          \/ value = NoUser
          \/ value = With(users[called[c].id], called[c].dto)

(***************************************************************************)
(* Every step of a call is one of the three.                               *)
(***************************************************************************)
LEMMA KindsOfSteps ==
  ASSUME LockInv, ACNext
  PROVE  \E c \in AccountCall : Progress(c) \/ Locks(c) \/ Writes(c)
<1>1. PICK c \in AccountCall :
        \/ create(c) \/ createEmailUser(c) \/ createGoogleUser(c) \/ update(c) \/ remove(c)
        \/ markOnboardingComplete(c) \/ updateEmail(c) \/ updatePreferences(c)
        \/ FindOne(c) \/ FindTaken(c) \/ InsertUser(c) \/ UpdateColumns(c) \/ CallFails(c)
  BY DEF ACNext
<1>2. ASSUME NEW op, NEW id, NEW label, NEW dto, label # "save", Goes(c, op, id, label, dto)
      PROVE  Progress(c)
  BY <1>2 DEF Goes, Progress
<1>3. ASSUME Refuse(c)
      PROVE  Progress(c)
  BY <1>3 DEF Refuse, Return, Progress, NotCalled
<1>4. CASE create(c) \/ createEmailUser(c) \/ createGoogleUser(c)
  BY <1>4, <1>2 DEF create, createEmailUser, createGoogleUser, Begin
<1>5. CASE update(c) \/ markOnboardingComplete(c)
  BY <1>5, <1>2 DEF update, markOnboardingComplete, Begin
<1>6. CASE FindOne(c)
  BY <1>6, <1>2, <1>3 DEF FindOne, MoveOn
<1>7. CASE FindTaken(c)
  BY <1>7, <1>2, <1>3 DEF FindTaken, MoveOn
<1>8. CASE CallFails(c)
  BY <1>8, <1>3 DEF CallFails
<1>9. CASE updateEmail(c)
  BY <1>9, <1>2, <1>3 DEF updateEmail, MoveOn, Begin
<1>10. CASE InsertUser(c)
  <2>1. CASE users[called[c].id] = NoUser
    BY <1>10, <2>1 DEF InsertUser, Return, CalledAt, LockInv, Saving, Writes, Progress, NotCalled
  <2>2. CASE users[called[c].id] # NoUser
    BY <1>10, <2>2, <1>3 DEF InsertUser, Refuse
  <2> QED
    BY <2>1, <2>2
<1>11. CASE UpdateColumns(c)
  <2>1. CASE users' = users
    BY <1>11, <2>1, <1>3 DEF UpdateColumns, Refuse
  <2>2. CASE users' # users
    BY <1>11, <2>2 DEF UpdateColumns, Return, CalledAt, RowLocked, Saving, Writes
  <2> QED
    BY <2>1, <2>2
<1>12. CASE remove(c)
  <2>1. CASE \E id \in AccountId : Begin(c, "remove", id, "find", [n \in {} |-> 0])
    BY <2>1, <1>2 DEF Begin
  <2>2. CASE CalledAt(c, "remove", "write")
    BY <1>12, <2>2 DEF remove, Begin, Return, CalledAt, RowLocked, Saving, Writes, NotCalled
  <2> QED
    BY <1>12, <2>1, <2>2 DEF remove
<1>13. CASE updatePreferences(c)
  <2>1. CASE \E id \in AccountId, dto \in Preference : Begin(c, "preferences", id, "find", dto)
    BY <2>1, <1>2 DEF Begin
  <2>2. CASE CalledAt(c, "preferences", "lock")
    BY <1>13, <2>2, <1>3 DEF updatePreferences, Begin, CalledAt, NotCalled, Locks
  <2>3. CASE CalledAt(c, "preferences", "save")
    <3>1. called[c].at = "save"
      BY <2>3 DEF CalledAt
    <3>2. /\ users' = [users EXCEPT ![called[c].id] = With(called[c].row, called[c].dto)]
          /\ Return(c)
      BY <1>13, <3>1 DEF updatePreferences, Begin, CalledAt, NotCalled
    <3>3. called[c].row = users[called[c].id]
      BY <3>1 DEF LockInv, Saving
    <3>4. \A d \in AccountCall \ {c} : ~(Saving(d) /\ called[d].id = called[c].id)
      BY <3>1 DEF LockInv, Saving
    <3>5. Writes(c)
      BY <3>1, <3>2, <3>3, <3>4 DEF Return, Writes
    <3> QED
      BY <3>5
  <2> QED
    BY <1>13, <2>1, <2>2, <2>3 DEF updatePreferences
<1> QED
  BY <1>1, <1>4, <1>5, <1>6, <1>7, <1>8, <1>9, <1>10, <1>11, <1>12, <1>13

(***************************************************************************)
(* Every step keeps a locked row as its owner has read it.                 *)
(***************************************************************************)
LEMMA LocksKept ==
  ASSUME LockInv, [ACNext]_accountVars
  PROVE  LockInv'
<1>1. CASE UNCHANGED accountVars
  BY <1>1 DEF accountVars, LockInv, Saving
<1>2. CASE ACNext
  <2>1. PICK c \in AccountCall : Progress(c) \/ Locks(c) \/ Writes(c)
    BY <1>2, KindsOfSteps
  <2>2. CASE Progress(c)
    BY <2>2, ProgressKeepsLocks
  <2>3. CASE Locks(c)
    <3>1. called' = [d \in AccountCall |-> called'[d]] /\ users' = users
      BY <2>3 DEF Locks, LockInv
    <3>2. called'[c] = LockedRow(c)
      BY <2>3 DEF Locks, LockInv
    <3>3. \A d \in AccountCall \ {c} : called'[d] = called[d]
      BY <2>3 DEF Locks, LockInv
    <3>4. \A d \in AccountCall \ {c} : Saving(d) => called[d].id # called[c].id
      BY <2>3 DEF Locks, RowLocked, Saving
    <3>5. called'[c].id = called[c].id /\ called'[c].row = users[called[c].id]
      BY <3>2 DEF LockedRow
    <3>6. users[called[c].id] # NoUser
      BY <2>3 DEF Locks
    <3> QED
      BY <3>1, <3>3, <3>4, <3>5, <3>6 DEF LockInv, Saving
  <2>4. CASE Writes(c)
    <3>1. PICK value : users' = [users EXCEPT ![called[c].id] = value]
      BY <2>4 DEF Writes
    <3>2. called' = [called EXCEPT ![c] = NotCalled]
      BY <2>4 DEF Writes
    <3>3. called' = [d \in AccountCall |-> called'[d]] /\ users' = [id \in AccountId |-> users'[id]]
      BY <3>1, <3>2 DEF LockInv
    <3>4. \A d \in AccountCall : Saving(d)' => d # c /\ Saving(d) /\ called'[d] = called[d]
      BY <3>2 DEF LockInv, Saving, NotCalled
    <3>5. \A d \in AccountCall : Saving(d)' => users'[called[d].id] = users[called[d].id]
      BY <2>4, <3>1, <3>4 DEF Writes, LockInv
    <3> QED
      BY <3>3, <3>4, <3>5 DEF LockInv, Saving
  <2> QED
    BY <2>1, <2>2, <2>3, <2>4
<1> QED
  BY <1>1, <1>2

(***************************************************************************)
(* A call of UsersService writes the columns that its request names, and   *)
(* updatePreferences, which saves a whole row, sets none of the others     *)
(* back, however many calls overlap.                                       *)
(***************************************************************************)
THEOREM ColumnsKept == ACSpec => OnlyNamedColumnsChange
<1>1. ACInit => LockInv
  BY DEF ACInit, LockInv, Saving, NotCalled
<1>2. LockInv /\ [ACNext]_accountVars => LockInv'
  BY LocksKept
<1>3. ASSUME LockInv, ACNext, NEW id \in AccountId, users[id] # NoUser, users'[id] # NoUser,
             NEW name \in ColumnName, users'[id][name] # users[id][name]
      PROVE  \E c \in AccountCall :
               called'[c] # called[c] /\ called[c].id = id /\ name \in DOMAIN called[c].dto
  <2>1. PICK c \in AccountCall : Progress(c) \/ Locks(c) \/ Writes(c)
    BY <1>3, KindsOfSteps
  <2>2. Writes(c)
    BY <1>3, <2>1 DEF Progress, Locks
  <2>3. called[c].id = id /\ users'[id] = With(users[id], called[c].dto)
    BY <1>3, <2>2 DEF Writes, LockInv
  <2>4. name \in DOMAIN called[c].dto
    BY <1>3, <2>3 DEF With
  <2>5. called'[c] # called[c]
    BY <1>3, <2>2 DEF Writes, LockInv, NotCalled
  <2> QED
    BY <2>3, <2>4, <2>5
<1>4. LockInv /\ [ACNext]_accountVars =>
        [\A id \in AccountId :
           users[id] # NoUser /\ users'[id] # NoUser =>
             \A name \in ColumnName :
               users'[id][name] # users[id][name] =>
                 \E c \in AccountCall :
                   called'[c] # called[c] /\ called[c].id = id
                   /\ name \in DOMAIN called[c].dto]_accountVars
  BY <1>3
<1> QED
  BY <1>1, <1>2, <1>4, PTL DEF ACSpec, OnlyNamedColumnsChange

-----------------------------------------------------------------------------
(***************************************************************************)
(* The refinement of UserTable.                                            *)
(***************************************************************************)

\* updatePreferences asks for no column but the preferences.
PreferencesOnly ==
  \A c \in AccountCall : called[c].op = "preferences" => called[c].dto \in Preference

\* A call that goes anywhere keeps that, if what it takes with it does.
LEMMA CallKeepsPreferences ==
  ASSUME LockInv, PreferencesOnly, NEW c \in AccountCall, NEW call,
         called' = [called EXCEPT ![c] = call],
         call.op = "preferences" => call.dto \in Preference
  PROVE  PreferencesOnly'
BY DEF LockInv, PreferencesOnly

\* Every step keeps it.
LEMMA PreferencesKept ==
  ASSUME LockInv, PreferencesOnly, [ACNext]_accountVars
  PROVE  PreferencesOnly'
<1>1. ASSUME NEW c \in AccountCall, NEW op, NEW id, NEW label, NEW dto,
             op = "preferences" => dto \in Preference, Goes(c, op, id, label, dto)
      PROVE  PreferencesOnly'
  <2> DEFINE new == [at |-> label, op |-> op, id |-> id, dto |-> dto]
  <2>1. new.op = "preferences" => new.dto \in Preference
    BY <1>1
  <2>2. called' = [called EXCEPT ![c] = new]
    BY <1>1 DEF Goes
  <2> HIDE DEF new
  <2> QED
    BY <2>1, <2>2, CallKeepsPreferences
<1>2. ASSUME NEW c \in AccountCall, NEW op, NEW label,
             op = "preferences" => called[c].op = "preferences", MoveOn(c, op, label)
      PROVE  PreferencesOnly'
  BY <1>1, <1>2 DEF MoveOn, PreferencesOnly
<1>3. ASSUME NEW c \in AccountCall, Return(c)
      PROVE  PreferencesOnly'
  BY <1>3, CallKeepsPreferences DEF Return, NotCalled
<1>4. ASSUME NEW c \in AccountCall,
             \/ create(c) \/ createEmailUser(c) \/ createGoogleUser(c) \/ update(c)
             \/ markOnboardingComplete(c)
      PROVE  PreferencesOnly'
  BY <1>1, <1>4 DEF create, createEmailUser, createGoogleUser, update, markOnboardingComplete, Begin
<1>5. ASSUME NEW c \in AccountCall, FindOne(c) \/ FindTaken(c)
      PROVE  PreferencesOnly'
  BY <1>2, <1>3, <1>5 DEF FindOne, FindTaken, Refuse
<1>6. ASSUME NEW c \in AccountCall, InsertUser(c) \/ UpdateColumns(c) \/ CallFails(c)
      PROVE  PreferencesOnly'
  BY <1>3, <1>6 DEF InsertUser, UpdateColumns, CallFails, Refuse
<1>7. ASSUME NEW c \in AccountCall, remove(c)
      PROVE  PreferencesOnly'
  BY <1>1, <1>3, <1>7 DEF remove, Begin
<1>8. ASSUME NEW c \in AccountCall, updateEmail(c)
      PROVE  PreferencesOnly'
  BY <1>1, <1>2, <1>3, <1>8 DEF updateEmail, Begin, Refuse
<1>9. ASSUME NEW c \in AccountCall, updatePreferences(c)
      PROVE  PreferencesOnly'
  <2>1. CASE \E id \in AccountId, dto \in Preference : Begin(c, "preferences", id, "find", dto)
    BY <1>1, <2>1 DEF Begin
  <2>2. CASE Return(c)
    BY <1>3, <2>2
  <2>3. CASE CalledAt(c, "preferences", "lock") /\ called' = [called EXCEPT ![c] = LockedRow(c)]
    <3>1. LockedRow(c).op = "preferences" /\ LockedRow(c).dto \in Preference
      BY <2>3 DEF LockedRow, CalledAt, PreferencesOnly
    <3> QED
      BY <2>3, <3>1, CallKeepsPreferences
  <2> QED
    BY <1>9, <2>1, <2>2, <2>3 DEF updatePreferences, Refuse
<1>10. CASE UNCHANGED accountVars
  BY <1>10 DEF accountVars, PreferencesOnly
<1> QED
  BY <1>4, <1>5, <1>6, <1>7, <1>8, <1>9, <1>10 DEF ACNext

\* A call under way asks for something.
LEMMA CallsWish ==
  ASSUME NEW c \in AccountCall, called[c] # NotCalled
  PROVE  /\ Wanted[c] = [kind |-> Kind(called[c].op), id |-> called[c].id, dto |-> called[c].dto]
         /\ Wanted[c] # NoWish
<1>1. Wanted[c] = [kind |-> Kind(called[c].op), id |-> called[c].id, dto |-> called[c].dto]
  BY DEF Wanted
<1>2. Wanted[c].kind # NoWish.kind
  BY <1>1 DEF Kind, NoWish
<1> QED
  BY <1>1, <1>2

\* A call that begins asks.
LEMMA BeginAsks ==
  ASSUME LockInv, NEW c \in AccountCall, NEW op, NEW id, NEW label, NEW dto, label # "idle",
         Begin(c, op, id, label, dto), [kind |-> Kind(op), id |-> id, dto |-> dto] \in Wish
  PROVE  UserTable!Ask(c) /\ Wanted' # Wanted
<1> DEFINE new == [at |-> label, op |-> op, id |-> id, dto |-> dto]
           wish == [kind |-> Kind(op), id |-> id, dto |-> dto]
<1>1. called' = [called EXCEPT ![c] = new] /\ called[c] = NotCalled /\ users' = users
  BY DEF Begin, Goes
<1>2. new # NotCalled /\ wish = [kind |-> Kind(new.op), id |-> new.id, dto |-> new.dto]
  BY DEF NotCalled
<1>3. wish \in Wish
  OBVIOUS
<1> HIDE DEF new, wish
<1>4. Wanted' = [Wanted EXCEPT ![c] = wish] /\ Wanted'[c] = wish
  BY <1>1, <1>2 DEF Wanted, LockInv
<1>5. Wanted[c] = NoWish
  BY <1>1 DEF Wanted
<1>6. wish # NoWish
  <2>1. wish.kind # NoWish.kind
    BY DEF wish, Kind, NoWish
  <2> QED
    BY <2>1
<1> QED
  BY <1>1, <1>3, <1>4, <1>5, <1>6 DEF UserTable!Ask

\* A call that moves on asks for the same.
LEMMA MoveKeepsWish ==
  ASSUME LockInv, NEW c \in AccountCall, called[c] # NotCalled, NEW call, call # NotCalled,
         Kind(call.op) = Kind(called[c].op), call.id = called[c].id, call.dto = called[c].dto,
         called' = [called EXCEPT ![c] = call]
  PROVE  Wanted' = Wanted
BY DEF Wanted, LockInv

\* A call that ends asks for nothing more.
LEMMA ReturnSettles ==
  ASSUME LockInv, NEW c \in AccountCall, Return(c)
  PROVE  UserTable!Settle(c)
BY DEF Return, Wanted, LockInv, UserTable!Settle

\* It asked for something before.
LEMMA SettlingShows ==
  ASSUME NEW c \in AccountCall, called[c] # NotCalled, UserTable!Settle(c)
  PROVE  Wanted' # Wanted
<1>1. Wanted[c] # NoWish
  BY CallsWish
<1>2. Wanted'[c] = NoWish
  <2>1. c \in DOMAIN Wanted
    BY DEF Wanted
  <2> QED
    BY <2>1 DEF UserTable!Settle
<1> QED
  BY <1>1, <1>2

\* A call that is refused was under way.
LEMMA RefuseTurnsDown ==
  ASSUME LockInv, NEW c \in AccountCall, called[c] # NotCalled, Return(c), UNCHANGED users
  PROVE  UserTable!TurnDown(c) /\ Wanted' # Wanted
BY CallsWish, ReturnSettles, SettlingShows DEF UserTable!TurnDown

\* A step of the table, or one that its clients do not see.
TableStep == UserTable!Next \/ UNCHANGED <<users, Wanted>>

\* A call that begins makes one.
LEMMA BeginAsTable ==
  ASSUME LockInv, NEW c \in AccountCall, NEW op, NEW id, NEW label, NEW dto, label # "idle",
         Begin(c, op, id, label, dto), [kind |-> Kind(op), id |-> id, dto |-> dto] \in Wish
  PROVE  TableStep
BY BeginAsks DEF TableStep, UserTable!Next

\* So does a call that moves on.
LEMMA MoveAsTable ==
  ASSUME LockInv, NEW c \in AccountCall, called[c] # NotCalled, NEW op, NEW label,
         label # "idle", Kind(op) = Kind(called[c].op), MoveOn(c, op, label)
  PROVE  TableStep
<1> DEFINE new == [at |-> label, op |-> op, id |-> called[c].id, dto |-> called[c].dto]
<1>1. /\ new # NotCalled /\ Kind(new.op) = Kind(called[c].op)
      /\ new.id = called[c].id /\ new.dto = called[c].dto
  BY DEF NotCalled
<1>2. called' = [called EXCEPT ![c] = new] /\ users' = users
  BY DEF MoveOn, Goes
<1> HIDE DEF new
<1> QED
  BY <1>1, <1>2, MoveKeepsWish DEF TableStep

\* And one that is refused.
LEMMA RefuseAsTable ==
  ASSUME LockInv, NEW c \in AccountCall, called[c] # NotCalled, Refuse(c)
  PROVE  TableStep
BY RefuseTurnsDown DEF TableStep, UserTable!Next, Refuse

\* What the requests of the client may ask for.
LEMMA WishesOfClients ==
  /\ \A id \in AccountId, dto \in Column : [kind |-> Kind("insert"), id |-> id, dto |-> dto] \in Wish
  /\ \A id \in AccountId, email \in Email, op \in {"update", "updateEmail"} :
       [kind |-> Kind(op), id |-> id, dto |-> [email |-> email]] \in Wish
  /\ \A id \in AccountId :
       /\ [kind |-> Kind("update"), id |-> id, dto |-> [onboarded |-> TRUE]] \in Wish
       /\ [kind |-> Kind("remove"), id |-> id, dto |-> [n \in {} |-> 0]] \in Wish
  /\ \A id \in AccountId, dto \in Preference :
       [kind |-> Kind("preferences"), id |-> id, dto |-> dto] \in Wish
<1>1. /\ Kind("insert") = "insert" /\ Kind("remove") = "remove"
      /\ Kind("update") = "change" /\ Kind("updateEmail") = "change"
      /\ Kind("preferences") = "change"
  BY DEF Kind
<1>2. \A email \in Email : [email |-> email] \in [email : Email]
  OBVIOUS
<1>3. [onboarded |-> TRUE] \in [onboarded : {TRUE}]
  OBVIOUS
<1> QED
  BY <1>1, <1>2, <1>3 DEF Wish

(***************************************************************************)
(* Every step of a call is one of the table, or hidden.                    *)
(***************************************************************************)
LEMMA StepOfTable ==
  ASSUME LockInv, PreferencesOnly, ACNext
  PROVE  TableStep
<1>1. PICK c \in AccountCall :
        \/ create(c) \/ createEmailUser(c) \/ createGoogleUser(c) \/ update(c) \/ remove(c)
        \/ markOnboardingComplete(c) \/ updateEmail(c) \/ updatePreferences(c)
        \/ FindOne(c) \/ FindTaken(c) \/ InsertUser(c) \/ UpdateColumns(c) \/ CallFails(c)
  BY DEF ACNext
<1>2. \A email \in Email : Lower(email) \in Email
  BY DEF Email, Lower
<1>3. ASSUME NEW id \in AccountId, NEW email \in Email, NEW provider \in {"email", "google"},
             NEW onboarded \in BOOLEAN,
             Begin(c, "insert", id, "taken", NewUser(email, provider, onboarded))
      PROVE  TableStep
  <2>1. NewUser(email, provider, onboarded) \in Column
    BY DEF NewUser, Column
  <2> QED
    BY <1>3, <2>1, WishesOfClients, BeginAsTable
<1>4. CASE create(c) \/ createEmailUser(c) \/ createGoogleUser(c)
  BY <1>2, <1>3, <1>4 DEF create, createEmailUser, createGoogleUser
<1>5. CASE update(c) \/ markOnboardingComplete(c)
  BY <1>5, WishesOfClients, BeginAsTable DEF update, markOnboardingComplete
<1>6. ASSUME called[c].at # "idle" PROVE called[c] # NotCalled
  BY <1>6 DEF NotCalled
<1>7. CASE FindOne(c)
  BY <1>6, <1>7, MoveAsTable, RefuseAsTable DEF FindOne
<1>8. CASE FindTaken(c)
  BY <1>6, <1>8, MoveAsTable, RefuseAsTable DEF FindTaken
<1>9. CASE CallFails(c)
  BY <1>9, RefuseAsTable DEF CallFails
<1>10. CASE updateEmail(c)
  <2>1. CASE \E id \in AccountId, email \in Email :
               Begin(c, "updateEmail", id, "find", [email |-> Lower(email)])
    BY <1>2, <2>1, WishesOfClients, BeginAsTable
  <2>2. CASE CalledAt(c, "updateEmail", "find") /\ (Refuse(c) \/ MoveOn(c, "update", "taken"))
    <3>1. Kind("update") = Kind(called[c].op) /\ called[c].at = "find"
      BY <2>2 DEF CalledAt, Kind
    <3> QED
      BY <1>6, <2>2, <3>1, MoveAsTable, RefuseAsTable
  <2> QED
    BY <1>10, <2>1, <2>2 DEF updateEmail
<1>11. CASE InsertUser(c)
  <2>1. called[c] # NotCalled /\ Return(c)
    BY <1>6, <1>11 DEF InsertUser, CalledAt
  <2>2. CASE users' = users
    BY <2>1, <2>2, RefuseAsTable DEF Refuse
  <2>3. CASE users' # users
    <3>1. Wanted[c] = [kind |-> "insert", id |-> called[c].id, dto |-> called[c].dto]
      BY <1>11, <2>1, CallsWish DEF InsertUser, CalledAt, Kind
    <3>2. /\ users[called[c].id] = NoUser /\ FindByEmail(called[c].dto.email) = {}
          /\ users' = [users EXCEPT ![called[c].id] = called[c].dto]
      BY <1>11, <2>3 DEF InsertUser
    <3>3. ~UserTable!Taken(Wanted[c])
      BY <3>1, <3>2 DEF UserTable!Taken, FindByEmail
    <3>4. UserTable!Asked(c, "insert")
      <4>1. Wanted[c] # NoWish
        BY <2>1, CallsWish
      <4>2. Wanted[c].kind = "insert"
        BY <3>1
      <4> QED
        BY <4>1, <4>2 DEF UserTable!Asked
    <3>5. UserTable!Settle(c)
      BY <2>1, ReturnSettles
    <3>6. UserTable!Add(c)
      BY <3>1, <3>2, <3>3, <3>4, <3>5 DEF UserTable!Add
    <3> QED
      BY <2>1, <3>5, <3>6, SettlingShows DEF TableStep, UserTable!Next
  <2> QED
    BY <2>2, <2>3
<1>12. ASSUME called[c] # NotCalled, Return(c), Kind(called[c].op) = "change",
              users[called[c].id] # NoUser,
              "email" \in DOMAIN called[c].dto =>
                FindByEmail(called[c].dto.email) \ {called[c].id} = {},
              users' = [users EXCEPT ![called[c].id] = With(users[called[c].id], called[c].dto)]
       PROVE  TableStep
  <2>1. Wanted[c] = [kind |-> "change", id |-> called[c].id, dto |-> called[c].dto]
    BY <1>12, CallsWish
  <2>2. ~UserTable!Taken(Wanted[c])
    BY <1>12, <2>1 DEF UserTable!Taken, FindByEmail
  <2>3. users' = [users EXCEPT ![Wanted[c].id] =
                    UserTable!Merged(users[Wanted[c].id], Wanted[c].dto)]
    BY <1>12, <2>1 DEF UserTable!Merged, With
  <2>4. UserTable!Asked(c, "change") /\ users[Wanted[c].id] # NoUser
    BY <1>12, <2>1, CallsWish DEF UserTable!Asked
  <2>5. UserTable!Settle(c)
    BY <1>12, ReturnSettles
  <2>6. UserTable!Change(c)
    BY <2>2, <2>3, <2>4, <2>5 DEF UserTable!Change
  <2> QED
    BY <1>12, <2>5, <2>6, SettlingShows DEF TableStep, UserTable!Next
<1>13. CASE UpdateColumns(c)
  <2>1. called[c] # NotCalled /\ Return(c) /\ Kind(called[c].op) = "change"
    BY <1>6, <1>13 DEF UpdateColumns, CalledAt, Kind
  <2>2. CASE users' = users
    BY <2>1, <2>2, RefuseAsTable DEF Refuse
  <2>3. CASE users' # users
    BY <1>12, <1>13, <2>1, <2>3 DEF UpdateColumns
  <2> QED
    BY <2>2, <2>3
<1>14. CASE remove(c)
  <2>1. CASE \E id \in AccountId : Begin(c, "remove", id, "find", [n \in {} |-> 0])
    BY <2>1, WishesOfClients, BeginAsTable
  <2>2. CASE /\ CalledAt(c, "remove", "write") /\ Return(c)
             /\ users' = [users EXCEPT ![called[c].id] = NoUser]
    <3>1. called[c] # NotCalled
      BY <1>6, <2>2 DEF CalledAt
    <3>2. Wanted[c] = [kind |-> "remove", id |-> called[c].id, dto |-> called[c].dto]
      BY <2>2, <3>1, CallsWish DEF CalledAt, Kind
    <3>3. UserTable!Asked(c, "remove")
      <4>1. Wanted[c] # NoWish
        BY <3>1, CallsWish
      <4>2. Wanted[c].kind = "remove"
        BY <3>2
      <4> QED
        BY <4>1, <4>2 DEF UserTable!Asked
    <3>4. UserTable!Settle(c)
      BY <2>2, ReturnSettles
    <3>5. UserTable!Drop(c)
      BY <2>2, <3>2, <3>3, <3>4 DEF UserTable!Drop
    <3> QED
      BY <3>1, <3>4, <3>5, SettlingShows DEF TableStep, UserTable!Next
  <2> QED
    BY <1>14, <2>1, <2>2 DEF remove
<1>15. CASE updatePreferences(c)
  <2>1. CASE \E id \in AccountId, dto \in Preference : Begin(c, "preferences", id, "find", dto)
    BY <2>1, WishesOfClients, BeginAsTable
  <2>2. CASE CalledAt(c, "preferences", "lock") /\ Refuse(c)
    BY <1>6, <2>2, RefuseAsTable DEF CalledAt
  <2>3. CASE /\ CalledAt(c, "preferences", "lock") /\ UNCHANGED users
             /\ called' = [called EXCEPT ![c] = LockedRow(c)]
    <3>1. called[c] # NotCalled
      BY <1>6, <2>3 DEF CalledAt
    <3>2. /\ LockedRow(c) # NotCalled /\ Kind(LockedRow(c).op) = Kind(called[c].op)
          /\ LockedRow(c).id = called[c].id /\ LockedRow(c).dto = called[c].dto
      BY <2>3 DEF LockedRow, NotCalled, CalledAt
    <3> QED
      BY <2>3, <3>1, <3>2, MoveKeepsWish DEF TableStep
  <2>4. CASE /\ CalledAt(c, "preferences", "save") /\ Return(c)
             /\ users' = [users EXCEPT ![called[c].id] = With(called[c].row, called[c].dto)]
    <3>1. called[c] # NotCalled /\ Kind(called[c].op) = "change"
      BY <1>6, <2>4 DEF CalledAt, Kind
    <3>2. called[c].row = users[called[c].id] /\ users[called[c].id] # NoUser
      BY <2>4 DEF CalledAt, LockInv, Saving
    <3>3. "email" \notin DOMAIN called[c].dto
      <4>1. called[c].dto \in Preference
        BY <2>4 DEF CalledAt, PreferencesOnly
      <4> QED
        BY <4>1 DEF Preference
    <3> QED
      BY <1>12, <2>4, <3>1, <3>2, <3>3
  <2> QED
    BY <1>15, <2>1, <2>2, <2>3, <2>4 DEF updatePreferences
<1> QED
  BY <1>1, <1>4, <1>5, <1>7, <1>8, <1>9, <1>10, <1>11, <1>13, <1>14, <1>15

(***************************************************************************)
(* UsersService implements UserTable: every call takes effect in one step, *)
(* or not at all, whatever it has read before and whatever overlaps it.    *)
(***************************************************************************)
THEOREM AccountsImplement == ACSpec => ImplementsUserTable
<1>1. ACInit => LockInv /\ PreferencesOnly
  BY DEF ACInit, LockInv, Saving, NotCalled, PreferencesOnly
<1>2. LockInv /\ PreferencesOnly /\ [ACNext]_accountVars => (LockInv /\ PreferencesOnly)'
  BY LocksKept, PreferencesKept
<1>3. ACInit => UserTable!Init
  BY DEF ACInit, UserTable!Init, Wanted
<1>4. LockInv /\ PreferencesOnly /\ [ACNext]_accountVars => [UserTable!Next]_<<users, Wanted>>
  <2> SUFFICES ASSUME LockInv, PreferencesOnly, [ACNext]_accountVars
               PROVE  TableStep
    BY DEF TableStep
  <2>1. CASE UNCHANGED accountVars
    BY <2>1 DEF accountVars, Wanted, TableStep
  <2> QED
    BY <2>1, StepOfTable
<1> QED
  BY <1>1, <1>2, <1>3, <1>4, PTL DEF ACSpec, ImplementsUserTable, UserTable!Spec, UserTable!vars
=============================================================================
