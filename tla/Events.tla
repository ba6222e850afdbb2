------------------------------- MODULE Events -------------------------------
(***************************************************************************)
(* EventsService.recordEvent for the views and link clicks of one profile: *)
(* the deduplication key in Redis, the write with its retries, the dead    *)
(* letter, the view counter, and the merge of a visitor's events once he   *)
(* has signed in.  An INSERT may be committed and its answer be lost.      *)
(***************************************************************************)
EXTENDS Naturals

CONSTANTS
  EventCall,  \* calls of recordEvent, each made once
  Visitor,    \* anonymous visitors, each with a dedup key
  MaxRetries  \* DEFAULT_RETRY_CONFIG.maxRetries

ASSUME EventsAssumption == MaxRetries \in Nat

VARIABLES
  eventPc,    \* the await each call is at
  visitor,    \* whose event it records; PROFILE_VIEWED, or LINK_CLICKED
  attempt,    \* its attempt in writeEventWithRetry
  dedupKeys,  \* visitors whose dedup key is set
  eventRows,  \* rows of events that each call has inserted
  attributed, \* calls whose rows have an actorId
  deadLetters, \* calls with a row in failed_events, or 0, and its attemptCount
  viewCount,  \* view_count of the profile
  unanswered, \* calls with an INSERT that was committed without an answer
  lost        \* calls that died, or whose dead letter got an error

eventVars == <<eventPc, visitor, attempt, dedupKeys, eventRows, attributed,
               deadLetters, viewCount, unanswered, lost>>

EventPcs == {"new", "dedup", "write", "deadLetter", "count", "duplicate", "done"}

EVTypeOK ==
  /\ eventPc \in [EventCall -> EventPcs]
  /\ visitor \in [EventCall -> [id : Visitor, views : BOOLEAN]]
  /\ attempt \in [EventCall -> 0..MaxRetries]
  /\ dedupKeys \subseteq Visitor
  /\ eventRows \in [EventCall -> 0..MaxRetries + 1]
  /\ attributed \subseteq EventCall
  /\ deadLetters \in [EventCall -> 0..MaxRetries + 1]
  /\ viewCount \in Nat
  /\ unanswered \subseteq EventCall
  /\ lost \subseteq EventCall

EVInit ==
  /\ eventPc = [c \in EventCall |-> "new"]
  /\ visitor \in [EventCall -> [id : Visitor, views : {TRUE}]]
  /\ attempt = [c \in EventCall |-> 0]
  /\ dedupKeys = {}
  /\ eventRows = [c \in EventCall |-> 0]
  /\ attributed = {}
  /\ deadLetters = [c \in EventCall |-> 0]
  /\ viewCount = 0
  /\ unanswered = {}
  /\ lost = {}

EventGoTo(c, label) == eventPc' = [eventPc EXCEPT ![c] = label]

\* The profile is public and not the visitor's own.
recordProfileView(c) ==
  /\ eventPc[c] = "new"
  /\ EventGoTo(c, "dedup")
  /\ UNCHANGED <<visitor, attempt, dedupKeys, eventRows, attributed, deadLetters,
                 viewCount, unanswered, lost>>

\* The link is on the profile.
recordLinkClick(c) ==
  /\ eventPc[c] = "new"
  /\ visitor' = [visitor EXCEPT ![c].views = FALSE]
  /\ EventGoTo(c, "dedup")
  /\ UNCHANGED <<attempt, dedupKeys, eventRows, attributed, deadLetters,
                 viewCount, unanswered, lost>>

\* SET NX EX of the key.  An error of Redis counts as not duplicate, whether
\* or not the command was carried out.
isDuplicateEvent(c) ==
  /\ eventPc[c] = "dedup"
  /\ \/ /\ visitor[c].id \in dedupKeys
        /\ EventGoTo(c, "duplicate")
        /\ UNCHANGED dedupKeys
     \/ /\ dedupKeys' \in {dedupKeys, dedupKeys \cup {visitor[c].id}}
        /\ EventGoTo(c, "write")
  /\ UNCHANGED <<visitor, attempt, eventRows, attributed, deadLetters,
                 viewCount, unanswered, lost>>

Inserted(c) == eventRows' = [eventRows EXCEPT ![c] = @ + 1]

\* The write is answered; a view is counted.
WriteEvent(c) ==
  /\ eventPc[c] = "write"
  /\ Inserted(c)
  /\ EventGoTo(c, IF visitor[c].views THEN "count" ELSE "done")
  /\ UNCHANGED <<visitor, attempt, dedupKeys, attributed, deadLetters,
                 viewCount, unanswered, lost>>

\* Mutant: nothing is dead-lettered after the last retry.
retryOrForget(c) ==
  /\ attempt' = [attempt EXCEPT ![c] = IF @ < MaxRetries THEN @ + 1 ELSE @]
  /\ EventGoTo(c, IF attempt[c] < MaxRetries THEN "write" ELSE "done")

\* After a retryable error.
retryOrGiveUp(c) ==
  \/ /\ attempt[c] < MaxRetries
     /\ attempt' = [attempt EXCEPT ![c] = @ + 1]
     /\ UNCHANGED eventPc
  \/ /\ attempt[c] = MaxRetries
     /\ EventGoTo(c, "deadLetter")
     /\ UNCHANGED attempt

\* The write fails: the error may be retryable or not, and the INSERT may
\* have been committed or not, whatever isRetryableError makes of the error.
WriteFails(c) ==
  /\ eventPc[c] = "write"
  /\ \/ retryOrGiveUp(c)
     \/ EventGoTo(c, "deadLetter") /\ UNCHANGED attempt
  /\ \/ UNCHANGED <<eventRows, unanswered>>
     \/ Inserted(c) /\ unanswered' = unanswered \cup {c}
  /\ UNCHANGED <<visitor, dedupKeys, attributed, deadLetters, viewCount, lost>>

\* safeOnExhausted: the insert into failed_events, whose error is swallowed,
\* whether or not the row was written.
DeadLetter(c) ==
  /\ eventPc[c] = "deadLetter"
  /\ \/ /\ deadLetters' = [deadLetters EXCEPT ![c] = attempt[c] + 1]
        /\ lost' \in {lost, lost \cup {c}}
     \/ lost' = lost \cup {c} /\ UNCHANGED deadLetters
  /\ EventGoTo(c, "done")
  /\ UNCHANGED <<visitor, attempt, dedupKeys, eventRows, attributed, viewCount, unanswered>>

\* The UPDATE ... RETURNING view_count, whose error is swallowed.  TypeORM
\* answers an UPDATE with <<rows, count>>, of which result[0] is the array of
\* rows: its view_count is undefined, which is no milestone, so none is ever
\* notified.
checkProfileViewMilestone(c) ==
  /\ eventPc[c] = "count"
  /\ viewCount' \in {viewCount, viewCount + 1}
  /\ EventGoTo(c, "done")
  /\ UNCHANGED <<visitor, attempt, dedupKeys, eventRows, attributed, deadLetters,
                 unanswered, lost>>

\* The visitor has signed in, and his anonymousId is merged: one UPDATE of
\* the events that have no actorId.
mergeAnonymousEvents(v) ==
  /\ attributed' = attributed \cup {c \in EventCall : visitor[c].id = v /\ eventRows[c] > 0}
  /\ UNCHANGED <<eventPc, visitor, attempt, dedupKeys, eventRows, deadLetters,
                 viewCount, unanswered, lost>>

DedupKeyExpires(v) ==
  /\ v \in dedupKeys
  /\ dedupKeys' = dedupKeys \ {v}
  /\ UNCHANGED <<eventPc, visitor, attempt, eventRows, attributed, deadLetters,
                 viewCount, unanswered, lost>>

\* The process dies.
EventCrash(c) ==
  /\ eventPc[c] \in {"dedup", "write", "deadLetter", "count"}
  /\ EventGoTo(c, "done")
  /\ lost' = lost \cup {c}
  /\ UNCHANGED <<visitor, attempt, dedupKeys, eventRows, attributed, deadLetters,
                 viewCount, unanswered>>

EVNext ==
  \/ \E c \in EventCall :
       \/ recordProfileView(c) \/ recordLinkClick(c) \/ isDuplicateEvent(c)
       \/ WriteEvent(c) \/ WriteFails(c) \/ DeadLetter(c)
       \/ checkProfileViewMilestone(c) \/ EventCrash(c)
  \/ \E v \in Visitor : mergeAnonymousEvents(v) \/ DedupKeyExpires(v)

EVSpec == EVInit /\ [][EVNext]_eventVars

(***************************************************************************)
(* Properties.                                                             *)
(***************************************************************************)

(***************************************************************************)
(* writeEventWithRetry "never throws": an event that was not dropped as a  *)
(* duplicate is in the end recorded once or dead-lettered, never both, and *)
(* no event twice, unless the answer to an INSERT was lost; only a crash   *)
(* or a failure of the dead letter itself loses it.                        *)
(***************************************************************************)
EventAccounted ==
  /\ \A c \in EventCall : eventPc[c] = "done" /\ c \notin lost =>
       IF c \in unanswered THEN eventRows[c] > 0
       ELSE eventRows[c] + (IF deadLetters[c] > 0 THEN 1 ELSE 0) = 1
  /\ \A c \in EventCall \ unanswered : eventRows[c] <= 1
=============================================================================
