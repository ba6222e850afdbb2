--------------------------- MODULE Announcements ---------------------------
(***************************************************************************)
(* One announcement: AnnouncementService.broadcast pages through the users *)
(* and queues a job per page, AnnouncementFanoutProcessor inserts a page's *)
(* notifications and emits those that are new, while users register, are   *)
(* deleted, and mark what they have got.  Users are in the order of their  *)
(* ids; the gateway's rooms are not modelled.                              *)
(***************************************************************************)
EXTENDS Naturals, FiniteSets, Sequences

CONSTANTS
  MaxUser,        \* users are 1..MaxUser, in the order of their ids
  FanoutBatchSize,
  FanoutAttempts, \* attempts of a job
  MaxStalls       \* BullMQ's maxStalledCount

ASSUME AnnouncementsAssumption ==
  /\ MaxUser \in Nat /\ FanoutBatchSize \in Nat \ {0}
  /\ FanoutAttempts \in Nat \ {0} /\ MaxStalls \in Nat

Member == 1..MaxUser
FanoutJob == [userIds : SUBSET Member, at : {"queued", "active", "emit", "over"},
              new : SUBSET Member, attempts : 0..FanoutAttempts, stalls : 0..MaxStalls]

VARIABLES
  registered,   \* the users there are
  newcomers,    \* ids that may still register
  audience,     \* who was registered when the broadcast began
  broadcasting, \* "new", "paging", "failed" or "answered"
  offset,
  fanoutJobs,
  notices,      \* each user's notification: "none", "unread" or "read"
  emitted,      \* how often it was emitted to each user
  shifted,      \* a user was deleted while the broadcast was paging
  unreached,    \* users in a job that has failed for good
  unshown       \* users whose row was inserted by an attempt that did not come to emit it

announcementVars == <<registered, newcomers, audience, broadcasting, offset, fanoutJobs,
                      notices, emitted, shifted, unreached, unshown>>

ANTypeOK ==
  /\ registered \subseteq Member
  /\ newcomers \subseteq Member \ registered
  /\ audience \subseteq Member
  /\ broadcasting \in {"new", "paging", "failed", "answered"}
  /\ offset \in Nat
  /\ fanoutJobs \in Seq(FanoutJob)
  /\ notices \in [Member -> {"none", "unread", "read"}]
  /\ \A u \in Member : notices[u] # "none" => u \in registered
  /\ emitted \in [Member -> Nat]
  /\ shifted \in BOOLEAN
  /\ unreached \subseteq Member /\ unshown \subseteq Member

ANInit ==
  /\ registered \in SUBSET Member
  /\ newcomers = Member \ registered
  /\ audience = {}
  /\ broadcasting = "new"
  /\ offset = 0
  /\ fanoutJobs = <<>>
  /\ notices = [u \in Member |-> "none"]
  /\ emitted = [u \in Member |-> 0]
  /\ shifted = FALSE
  /\ unreached = {} /\ unshown = {}

(***************************************************************************)
(* broadcast.                                                              *)
(***************************************************************************)
StartBroadcast ==
  /\ broadcasting = "new"
  /\ broadcasting' = "paging"
  /\ audience' = registered
  /\ UNCHANGED <<registered, newcomers, offset, fanoutJobs, notices, emitted,
                 shifted, unreached, unshown>>

\* How many rows ORDER BY id puts before a user.
Rank(u) == Cardinality({v \in registered : v < u})

\* Mutant: one page too far.
PageTooFar == {u \in registered : offset < Rank(u) /\ Rank(u) < offset + FanoutBatchSize}

\* SELECT id ... ORDER BY id OFFSET offset LIMIT FANOUT_BATCH_SIZE.
Page == {u \in registered : offset <= Rank(u) /\ Rank(u) < offset + FanoutBatchSize}

QueuePage ==
  /\ broadcasting = "paging" /\ Page # {}
  /\ fanoutJobs' = Append(fanoutJobs, [userIds |-> Page, at |-> "queued", new |-> {},
                                       attempts |-> FanoutAttempts, stalls |-> 0])
  /\ offset' = offset + FanoutBatchSize
  /\ UNCHANGED <<registered, newcomers, audience, broadcasting, notices, emitted,
                 shifted, unreached, unshown>>

\* There is no further page, or a query or addJob throws and the admin gets an error.
EndBroadcast ==
  /\ broadcasting = "paging"
  /\ broadcasting' \in IF Page = {} THEN {"answered", "failed"} ELSE {"failed"}
  /\ UNCHANGED <<registered, newcomers, audience, offset, fanoutJobs, notices, emitted,
                 shifted, unreached, unshown>>

(***************************************************************************)
(* AnnouncementFanoutProcessor.process.                                    *)
(***************************************************************************)
\* Mutant: the users of the page are told before their rows are inserted.
TellFirst(j) ==
  /\ fanoutJobs[j].at = "queued"
  /\ emitted' = [u \in Member |-> IF u \in fanoutJobs[j].userIds THEN emitted[u] + 1 ELSE emitted[u]]
  /\ fanoutJobs' = [fanoutJobs EXCEPT ![j].at = "active"]
  /\ UNCHANGED <<registered, newcomers, audience, broadcasting, offset, notices,
                 shifted, unreached, unshown>>

StartFanout(j) ==
  /\ fanoutJobs[j].at = "queued"
  /\ fanoutJobs' = [fanoutJobs EXCEPT ![j].at = "active"]
  /\ UNCHANGED <<registered, newcomers, audience, broadcasting, offset, notices,
                 emitted, shifted, unreached, unshown>>

\* Mutant: RETURNING gives the rows that were there already as well.
NewNoticesAll(userIds) == userIds

\* The rows that ON CONFLICT DO NOTHING inserts and RETURNING gives.
NewNotices(userIds) == {u \in userIds : notices[u] = "none"}

\* The INSERT of all rows; a user who is gone violates the foreign key, which
\* ON CONFLICT does not excuse.
StoreNotices(j) ==
  /\ fanoutJobs[j].at = "active"
  /\ fanoutJobs[j].userIds \subseteq registered
  /\ notices' = [u \in Member |-> IF u \in NewNotices(fanoutJobs[j].userIds)
                                  THEN "unread" ELSE notices[u]]

\* It is answered; without new rows the job is over.
InsertNotices(j) ==
  /\ StoreNotices(j)
  /\ LET new == NewNotices(fanoutJobs[j].userIds)
     IN  fanoutJobs' = [fanoutJobs EXCEPT ![j].at = IF new = {} THEN "over" ELSE "emit",
                                         ![j].new = new]
  /\ UNCHANGED <<registered, newcomers, audience, broadcasting, offset, emitted,
                 shifted, unreached, unshown>>

\* The job throws and is tried again, or is over.
Throw(j) ==
  LET left == fanoutJobs[j].attempts - 1
  IN  /\ fanoutJobs' = [fanoutJobs EXCEPT ![j].attempts = left,
                                          ![j].at = IF left = 0 THEN "over" ELSE "queued"]
      /\ unreached' = IF left = 0 THEN unreached \cup fanoutJobs[j].userIds ELSE unreached

\* The INSERT is committed, but its answer is lost.  The next attempt finds
\* nothing new and emits nothing.
InsertUnanswered(j) ==
  /\ StoreNotices(j)
  /\ Throw(j)
  /\ unshown' = unshown \cup NewNotices(fanoutJobs[j].userIds)
  /\ UNCHANGED <<registered, newcomers, audience, broadcasting, offset, emitted, shifted>>

\* The INSERT fails: a user is gone, or the query cannot be carried out.
FanoutFails(j) ==
  /\ fanoutJobs[j].at = "active"
  /\ Throw(j)
  /\ UNCHANGED <<registered, newcomers, audience, broadcasting, offset, notices,
                 emitted, shifted, unshown>>

\* emitToUser for each new row.
EmitNotices(j) ==
  /\ fanoutJobs[j].at = "emit"
  /\ emitted' = [u \in Member |-> IF u \in fanoutJobs[j].new THEN emitted[u] + 1 ELSE emitted[u]]
  /\ fanoutJobs' = [fanoutJobs EXCEPT ![j].at = "over"]
  /\ UNCHANGED <<registered, newcomers, audience, broadcasting, offset, notices,
                 shifted, unreached, unshown>>

\* The worker dies; BullMQ finds the job stalled and queues it again, or gives it up.
FanoutStalls(j) ==
  /\ fanoutJobs[j].at \in {"active", "emit"}
  /\ IF fanoutJobs[j].stalls < MaxStalls
     THEN /\ fanoutJobs' = [fanoutJobs EXCEPT ![j].at = "queued", ![j].new = {}, ![j].stalls = @ + 1]
          /\ UNCHANGED unreached
     ELSE /\ fanoutJobs' = [fanoutJobs EXCEPT ![j].at = "over", ![j].new = {}]
          /\ unreached' = unreached \cup fanoutJobs[j].userIds
  /\ unshown' = unshown \cup fanoutJobs[j].new
  /\ UNCHANGED <<registered, newcomers, audience, broadcasting, offset, notices, emitted, shifted>>

(***************************************************************************)
(* Users.                                                                  *)
(***************************************************************************)
RegisterMember(u) ==
  /\ u \in newcomers
  /\ registered' = registered \cup {u} /\ newcomers' = newcomers \ {u}
  /\ UNCHANGED <<audience, broadcasting, offset, fanoutJobs, notices, emitted,
                 shifted, unreached, unshown>>

\* deleteStaleUsers; the notifications go with the user.
DeleteMember(u) ==
  /\ u \in registered
  /\ registered' = registered \ {u}
  /\ notices' = [notices EXCEPT ![u] = "none"]
  /\ shifted' = (shifted \/ broadcasting = "paging")
  /\ UNCHANGED <<newcomers, audience, broadcasting, offset, fanoutJobs, emitted,
                 unreached, unshown>>

Mark(u, from, to) ==
  /\ notices[u] \in from
  /\ notices' = [notices EXCEPT ![u] = to]
  /\ UNCHANGED <<registered, newcomers, audience, broadcasting, offset, fanoutJobs,
                 emitted, shifted, unreached, unshown>>

markAsRead(u) == Mark(u, {"unread", "read"}, "read")
markAsUnread(u) == Mark(u, {"unread", "read"}, "unread")
markAllAsRead(u) == Mark(u, {"unread"}, "read")

ANNext ==
  \/ StartBroadcast \/ QueuePage \/ EndBroadcast
  \/ \E j \in DOMAIN fanoutJobs :
       \/ StartFanout(j) \/ InsertNotices(j) \/ InsertUnanswered(j) \/ FanoutFails(j)
       \/ EmitNotices(j) \/ FanoutStalls(j)
  \/ \E u \in Member :
       \/ RegisterMember(u) \/ DeleteMember(u)
       \/ markAsRead(u) \/ markAsUnread(u) \/ markAllAsRead(u)

ANSpec == ANInit /\ [][ANNext]_announcementVars

(***************************************************************************)
(* Properties.                                                             *)
(***************************************************************************)

(***************************************************************************)
(* Once the broadcast has been answered and its jobs are over, everybody   *)
(* who was a user when it began, and still is, has the announcement,       *)
(* whoever registers meanwhile: unless users were deleted while it was     *)
(* paging, which shifts the pages, or the job failed for good.             *)
(***************************************************************************)
AudienceReached ==
  /\ broadcasting = "answered" /\ ~shifted
  /\ \A j \in DOMAIN fanoutJobs : fanoutJobs[j].at = "over"
  => \A u \in (audience \cap registered) \ unreached : notices[u] # "none"

(***************************************************************************)
(* A notification is emitted once however often its job is run and in      *)
(* however many pages its user was, and not at all only if the worker died *)
(* between the insert and the emit or the answer to the insert was lost.   *)
(***************************************************************************)
EmittedOnce ==
  \A u \in registered :
    /\ emitted[u] <= 1
    /\ notices[u] # "none" =>
         \/ emitted[u] = 1
         \/ u \in unshown
         \/ \E j \in DOMAIN fanoutJobs : fanoutJobs[j].at = "emit" /\ u \in fanoutJobs[j].new

(***************************************************************************)
(* What the three services together implement.                             *)
(***************************************************************************)

\* Emits to users who have been deleted since reach nobody.
Shown == [u \in Member |-> IF u \in registered THEN emitted[u] ELSE 0]

Delivery == INSTANCE Delivery
  WITH members <- registered, strangers <- newcomers, announced <- broadcasting # "new",
       ledger <- notices, shown <- Shown

(***************************************************************************)
(* Pages that overlap, jobs that are tried or started again, and users who *)
(* come and go: to each user it is one announcement, stored once, shown at *)
(* most once and not before, and gone when the user is.                    *)
(***************************************************************************)
ImplementsDelivery == Delivery!Spec
=============================================================================
