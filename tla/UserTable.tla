----------------------------- MODULE UserTable -----------------------------
(***************************************************************************)
(* What UsersService promises about the rows of users, without saying how: *)
(* a request is for columns of one row; it takes effect in a single step,  *)
(* on the row as that step finds it and on no other column, or not at all; *)
(* no two rows have one e-mail address.                                    *)
(***************************************************************************)
CONSTANTS
  AccountId,
  AccountCall, \* requests that overlap
  ColumnName,
  Wish,        \* what may be asked for: [kind, id, dto]
  NoWish,
  NoUser       \* there is no such row

VARIABLES
  users,       \* the rows
  wanted       \* what each request under way asks for

vars == <<users, wanted>>

Init ==
  /\ users = [id \in AccountId |-> NoUser]
  /\ wanted = [c \in AccountCall |-> NoWish]

\* Another row has the address that is asked for.
Taken(wish) ==
  /\ "email" \in DOMAIN wish.dto
  /\ \E id \in AccountId \ {wish.id} : users[id] # NoUser /\ users[id].email = wish.dto.email

Merged(row, dto) == [name \in ColumnName |-> IF name \in DOMAIN dto THEN dto[name] ELSE row[name]]

\* A request for any of the wishes.
Ask(c) ==
  /\ wanted[c] = NoWish
  /\ wanted'[c] \in Wish
  /\ wanted' = [wanted EXCEPT ![c] = wanted'[c]]
  /\ UNCHANGED users

Asked(c, kind) == wanted[c] # NoWish /\ wanted[c].kind = kind
Settle(c) == wanted' = [wanted EXCEPT ![c] = NoWish]

\* The row appears as it was asked for.
Add(c) ==
  /\ Asked(c, "insert")
  /\ users[wanted[c].id] = NoUser /\ ~Taken(wanted[c])
  /\ users' = [users EXCEPT ![wanted[c].id] = wanted[c].dto]
  /\ Settle(c)

\* The columns that were asked for, and no others, are written over the row.
Change(c) ==
  /\ Asked(c, "change")
  /\ users[wanted[c].id] # NoUser /\ ~Taken(wanted[c])
  /\ users' = [users EXCEPT ![wanted[c].id] = Merged(@, wanted[c].dto)]
  /\ Settle(c)

Drop(c) ==
  /\ Asked(c, "remove")
  /\ users' = [users EXCEPT ![wanted[c].id] = NoUser]
  /\ Settle(c)

\* The request is refused or fails: the rows are as if it had not been made.
TurnDown(c) ==
  /\ wanted[c] # NoWish
  /\ Settle(c)
  /\ UNCHANGED users

\* Each step begins or ends a request; the first conjunct says no more, but
\* spares TLC the others in steps of the implementation that do neither.
Next ==
  /\ wanted' # wanted
  /\ \E c \in AccountCall : Ask(c) \/ Add(c) \/ Change(c) \/ Drop(c) \/ TurnDown(c)

Spec == Init /\ [][Next]_vars
=============================================================================
