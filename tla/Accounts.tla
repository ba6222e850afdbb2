------------------------------ MODULE Accounts ------------------------------
(***************************************************************************)
(* UsersService on the rows of users: what an administrator, the owner and *)
(* the sign-up of an address write, each after a look at the row.  One-    *)
(* time codes and passwords are the subject of OneTimeCodes and Passwords, *)
(* the status that of AccountStatus.                                       *)
(***************************************************************************)
CONSTANTS
  AccountId,
  AccountCall, \* calls of the service that overlap
  NoUser       \* there is no such row

Email == {"ann", "Ann", "bob"}
Lower(email) == IF email = "Ann" THEN "ann" ELSE email

\* preferences.mode stands for colorTheme too: each is merged by itself.
Column == [email : Email, provider : {"email", "google"}, onboarded : BOOLEAN,
           mode : {"light", "dark"}]
ColumnName == {"email", "provider", "onboarded", "mode"}

VARIABLES
  users, \* the rows
  called \* the calls: the columns they are to write, and the row they have locked

accountVars == <<users, called>>

NotCalled == [at |-> "idle", op |-> "none"]

ACTypeOK ==
  /\ users \in [AccountId -> Column \cup {NoUser}]
  /\ \A c \in AccountCall :
       \/ called[c] = NotCalled
       \/ /\ called[c].at \in {"find", "taken", "write", "lock", "save"}
          /\ called[c].id \in AccountId
          /\ DOMAIN called[c].dto \subseteq ColumnName

ACInit ==
  /\ users = [id \in AccountId |-> NoUser]
  /\ called = [c \in AccountCall |-> NotCalled]

CalledAt(c, op, label) == called[c].op = op /\ called[c].at = label
Return(c) == called' = [called EXCEPT ![c] = NotCalled]
Refuse(c) == Return(c) /\ UNCHANGED users

Goes(c, op, id, label, dto) ==
  /\ called' = [called EXCEPT ![c] = [at |-> label, op |-> op, id |-> id, dto |-> dto]]
  /\ UNCHANGED users

Begin(c, op, id, label, dto) == called[c] = NotCalled /\ Goes(c, op, id, label, dto)
MoveOn(c, op, label) == Goes(c, op, called[c].id, label, called[c].dto)

FindByEmail(email) == {id \in AccountId : users[id] # NoUser /\ users[id].email = email}

\* Mutant: nobody is kept out by FOR UPDATE.
NeverLocked(id) == FALSE

\* SELECT ... FOR UPDATE keeps other writers out until the transaction commits.
RowLocked(id) == \E c \in AccountCall : called[c].at = "save" /\ called[c].id = id

With(row, dto) == [name \in ColumnName |-> IF name \in DOMAIN dto THEN dto[name] ELSE row[name]]

\* findOne throws if there is no such user.
FindOne(c) ==
  /\ called[c].at = "find" /\ called[c].op # "updateEmail"
  /\ IF users[called[c].id] = NoUser THEN Refuse(c)
     ELSE MoveOn(c, called[c].op, IF called[c].op = "preferences" THEN "lock" ELSE "write")

\* findByEmail before an INSERT or an UPDATE of the address.
FindTaken(c) ==
  /\ called[c].at = "taken"
  /\ IF FindByEmail(called[c].dto.email) # {} THEN Refuse(c) ELSE MoveOn(c, called[c].op, "write")

\* The INSERT, or an error by the unique index of email.
InsertUser(c) ==
  /\ CalledAt(c, "insert", "write")
  /\ LET id == called[c].id
     IN  IF users[id] = NoUser /\ FindByEmail(called[c].dto.email) = {}
         THEN users' = [users EXCEPT ![id] = called[c].dto]
         ELSE UNCHANGED users
  /\ Return(c)

\* The UPDATE of the named columns: of no row, or an error by the unique index.
UpdateColumns(c) ==
  /\ CalledAt(c, "update", "write") /\ ~RowLocked(called[c].id)
  /\ LET id == called[c].id  dto == called[c].dto
     IN  IF users[id] = NoUser \/ ("email" \in DOMAIN dto /\ FindByEmail(dto.email) \ {id} # {})
         THEN UNCHANGED users
         ELSE users' = [users EXCEPT ![id] = With(@, dto)]
  /\ Return(c)

NewUser(email, provider, onboarded) ==
  [email |-> email, provider |-> provider, onboarded |-> onboarded, mode |-> "light"]

\* POST /users: the address is stored as the administrator writes it.
create(c) == \E id \in AccountId, email \in Email :
  Begin(c, "insert", id, "taken", NewUser(email, "email", FALSE))

\* Of an address that is there, OneTimeCodes tells.
createEmailUser(c) == \E id \in AccountId, email \in Email :
  Begin(c, "insert", id, "taken", NewUser(Lower(email), "email", FALSE))

\* validateGoogleUser looks the address up first.
createGoogleUser(c) == \E id \in AccountId, email \in Email, onboarded \in BOOLEAN :
  Begin(c, "insert", id, "taken", NewUser(Lower(email), "google", onboarded))

\* PATCH /users/:id: the dto may name the address, which is stored as it is.
update(c) == \E id \in AccountId, email \in Email :
  Begin(c, "update", id, "find", [email |-> email])

remove(c) ==
  \/ \E id \in AccountId : Begin(c, "remove", id, "find", [n \in {} |-> 0])
  \/ /\ CalledAt(c, "remove", "write") /\ ~RowLocked(called[c].id)
     /\ users' = [users EXCEPT ![called[c].id] = NoUser]
     /\ Return(c)

markOnboardingComplete(c) == \E id \in AccountId :
  Begin(c, "update", id, "find", [onboarded |-> TRUE])

\* UpdateEmailDto lowercases.  Who signs in with Google has no say, and the
\* address one has is left alone.
updateEmail(c) ==
  \/ \E id \in AccountId, email \in Email :
       Begin(c, "updateEmail", id, "find", [email |-> Lower(email)])
  \/ /\ CalledAt(c, "updateEmail", "find")
     /\ LET row == users[called[c].id]
        IN  IF row = NoUser THEN Refuse(c)
            ELSE IF row.provider # "email" \/ row.email = called[c].dto.email
                 THEN Refuse(c) ELSE MoveOn(c, "update", "taken")

Preference == {[mode |-> "light"], [mode |-> "dark"]}

LockedRow(c) ==
  [at |-> "save", op |-> "preferences", id |-> called[c].id, dto |-> called[c].dto,
   row |-> users[called[c].id]]

\* The transaction: the row is read under its lock, and a user who is gone is an
\* error; save({...locked, preferences}) then writes all columns that differ.
updatePreferences(c) ==
  \/ \E id \in AccountId, dto \in Preference : Begin(c, "preferences", id, "find", dto)
  \/ /\ CalledAt(c, "preferences", "lock") /\ ~RowLocked(called[c].id)
     /\ IF users[called[c].id] = NoUser THEN Refuse(c)
        ELSE called' = [called EXCEPT ![c] = LockedRow(c)] /\ UNCHANGED users
  \/ /\ CalledAt(c, "preferences", "save")
     /\ users' = [users EXCEPT ![called[c].id] = With(called[c].row, called[c].dto)]
     /\ Return(c)

\* An error of the database, which rolls a transaction back, or a crash.
CallFails(c) == called[c] # NotCalled /\ Refuse(c)

ACNext ==
  \E c \in AccountCall :
    \/ create(c) \/ createEmailUser(c) \/ createGoogleUser(c) \/ update(c) \/ remove(c)
    \/ markOnboardingComplete(c) \/ updateEmail(c) \/ updatePreferences(c)
    \/ FindOne(c) \/ FindTaken(c) \/ InsertUser(c) \/ UpdateColumns(c) \/ CallFails(c)

ACSpec == ACInit /\ [][ACNext]_accountVars

(***************************************************************************)
(* Properties.                                                             *)
(***************************************************************************)

(***************************************************************************)
(* A call changes the columns that its request names and no others,        *)
(* although updatePreferences saves the whole row that it has read: no     *)
(* address, preference or flag that another call has written in between is *)
(* set back.                                                               *)
(***************************************************************************)
OnlyNamedColumnsChange ==
  [][\A id \in AccountId :
       users[id] # NoUser /\ users'[id] # NoUser =>
         \A name \in ColumnName :
           users'[id][name] # users[id][name] =>
             \E c \in AccountCall :
               called'[c] # called[c] /\ called[c].id = id
               /\ name \in DOMAIN called[c].dto]_accountVars

(***************************************************************************)
(* What UsersService implements.                                           *)
(***************************************************************************)
NoWish == [kind |-> "nothing"]

\* Kinds of requests: updatePreferences and both updates change columns.
Kind(op) == IF op \in {"insert", "remove"} THEN op ELSE "change"

Wish ==
  [kind : {"insert"}, id : AccountId, dto : Column]
  \cup [kind : {"change"}, id : AccountId,
        dto : [email : Email] \cup [onboarded : {TRUE}] \cup Preference]
  \cup [kind : {"remove"}, id : AccountId, dto : {[n \in {} |-> 0]}]

\* What a call asks for, whatever it has looked up, locked or read by now.
Wanted ==
  [c \in AccountCall |->
     IF called[c] = NotCalled THEN NoWish
     ELSE [kind |-> Kind(called[c].op), id |-> called[c].id, dto |-> called[c].dto]]

UserTable == INSTANCE UserTable WITH wanted <- Wanted

(***************************************************************************)
(* Every call of UsersService takes effect in one step or not at all,      *)
(* although it looks the row or the address up, waits for a lock, reads    *)
(* and writes in steps of its own: what another call writes in between is  *)
(* neither lost nor does it make a row of a user who is gone.              *)
(***************************************************************************)
ImplementsUserTable == UserTable!Spec
=============================================================================
