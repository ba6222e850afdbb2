-------------------------- MODULE Services_proofs --------------------------
(***************************************************************************)
(* Proofs about the services: what is written or mailed once although it   *)
(* may be tried several times (events and dead letters, the welcome of the *)
(* waitlist, invites with their links, the notices of an announcement);    *)
(* a change of the password signs out; limits hold and lift.  For any      *)
(* number of calls, retries, attempts, users and ids.                      *)
(***************************************************************************)
EXTENDS MCServices, Sections_proofs, FiniteSetTheorems, TLAPS

(***************************************************************************)
(* Events.                                                                 *)
(***************************************************************************)

\* An INSERT per attempt at most.
RowsOf(c) ==
  eventRows[c] <= IF eventPc[c] \in {"new", "dedup", "duplicate", "write"}
                  THEN attempt[c] ELSE attempt[c] + 1

\* Where a call is says what it has left behind.
CallSoFar(c) ==
  /\ eventPc[c] \in {"new", "dedup", "duplicate"} => eventRows[c] = 0 /\ c \notin unanswered
  /\ eventPc[c] \in {"write", "deadLetter"} /\ c \notin unanswered => eventRows[c] = 0
  /\ eventPc[c] = "count" /\ c \notin unanswered => eventRows[c] = 1
  /\ eventPc[c] # "done" => deadLetters[c] = 0
  /\ eventPc[c] = "done" /\ c \notin lost /\ c \notin unanswered =>
       eventRows[c] + (IF deadLetters[c] > 0 THEN 1 ELSE 0) = 1
  /\ c \in unanswered => eventRows[c] > 0
  /\ c \notin unanswered => eventRows[c] <= 1

EventInv == EVTypeOK /\ \A c \in EventCall : RowsOf(c) /\ CallSoFar(c)

\* No call has been made yet.
LEMMA EventInit == EVInit => EventInv
<1> SUFFICES ASSUME EVInit PROVE EventInv
  OBVIOUS
<1>1. EVTypeOK
  <2>1. visitor \in [EventCall -> [id : Visitor, views : BOOLEAN]]
    BY DEF EVInit
  <2>2. /\ attempt \in [EventCall -> 0..MaxRetries]
        /\ eventRows \in [EventCall -> 0..MaxRetries + 1]
        /\ deadLetters \in [EventCall -> 0..MaxRetries + 1]
    BY EventsAssumption DEF EVInit
  <2>3. eventPc \in [EventCall -> EventPcs]
    BY DEF EVInit, EventPcs
  <2> QED  BY <2>1, <2>2, <2>3 DEF EVInit, EVTypeOK
<1>2. ASSUME NEW c \in EventCall PROVE RowsOf(c) /\ CallSoFar(c)
  BY DEF EVInit, RowsOf, CallSoFar
<1> QED  BY <1>1, <1>2 DEF EventInv

\* A click is no view: that is all it says of its visitor.
LEMMA ClickIsNoView ==
  ASSUME visitor \in [EventCall -> [id : Visitor, views : BOOLEAN]], NEW c \in EventCall,
         recordLinkClick(c)
  PROVE  visitor' \in [EventCall -> [id : Visitor, views : BOOLEAN]]
BY DEF recordLinkClick

\* A step of one call, or of Redis or a merge, keeps what is known of every call.
LEMMA EventInductive == EventInv /\ [EVNext]_eventVars => EventInv'
<1> SUFFICES ASSUME EventInv, [EVNext]_eventVars PROVE EventInv'
  OBVIOUS
<1> USE EventsAssumption DEF EventInv, EVTypeOK, EventPcs, EventGoTo, Inserted, RowsOf, CallSoFar
<1>1. ASSUME NEW c \in EventCall, recordProfileView(c) PROVE EventInv'
  <2>1. eventPc' = [eventPc EXCEPT ![c] = "dedup"] /\ eventPc[c] = "new"
    BY <1>1 DEF recordProfileView
  <2>2. UNCHANGED <<visitor, attempt, dedupKeys, eventRows, attributed, deadLetters, viewCount,
                    unanswered, lost>>
    BY <1>1 DEF recordProfileView
  <2>3. EVTypeOK'
    BY <2>1, <2>2
  <2>4. ASSUME NEW d \in EventCall PROVE RowsOf(d)' /\ CallSoFar(d)'
    BY <2>1, <2>2
  <2> QED  BY <2>3, <2>4
<1>2. ASSUME NEW c \in EventCall, recordLinkClick(c) PROVE EventInv'
  <2>1. visitor' \in [EventCall -> [id : Visitor, views : BOOLEAN]]
    BY <1>2, ClickIsNoView
  <2> QED  BY <1>2, <2>1 DEF recordLinkClick
<1>3. ASSUME NEW c \in EventCall, isDuplicateEvent(c) PROVE EventInv'
  BY <1>3 DEF isDuplicateEvent
<1>4. ASSUME NEW c \in EventCall, WriteEvent(c) PROVE EventInv'
  BY <1>4 DEF WriteEvent
<1>5. ASSUME NEW c \in EventCall, WriteFails(c) PROVE EventInv'
  <2>1. CASE attempt[c] < MaxRetries /\ attempt' = [attempt EXCEPT ![c] = @ + 1] /\ UNCHANGED eventPc
    <3>1. UNCHANGED <<visitor, dedupKeys, attributed, deadLetters, viewCount, lost>>
      BY <1>5 DEF WriteFails
    <3>2. CASE UNCHANGED <<eventRows, unanswered>>
      BY <1>5, <2>1, <3>1, <3>2 DEF WriteFails
    <3>3. CASE eventRows' = [eventRows EXCEPT ![c] = @ + 1] /\ unanswered' = unanswered \cup {c}
      <4>1. EVTypeOK'
        BY <1>5, <2>1, <3>1, <3>3 DEF WriteFails
      <4>2. ASSUME NEW d \in EventCall PROVE RowsOf(d)' /\ CallSoFar(d)'
        BY <1>5, <2>1, <3>1, <3>3 DEF WriteFails
      <4> QED  BY <4>1, <4>2
    <3> QED  BY <1>5, <3>2, <3>3 DEF WriteFails
  <2>2. CASE EventGoTo(c, "deadLetter") /\ UNCHANGED attempt
    <3>1. eventPc[c] = "write" /\ eventPc' = [eventPc EXCEPT ![c] = "deadLetter"]
      BY <1>5, <2>2 DEF WriteFails
    <3>2. UNCHANGED <<visitor, attempt, dedupKeys, attributed, deadLetters, viewCount, lost>>
      BY <1>5, <2>2 DEF WriteFails
    <3>3. CASE UNCHANGED <<eventRows, unanswered>>
      <4>1. EVTypeOK'
        BY <3>1, <3>2, <3>3
      <4>2. ASSUME NEW d \in EventCall PROVE RowsOf(d)' /\ CallSoFar(d)'
        BY <3>1, <3>2, <3>3
      <4> QED  BY <4>1, <4>2
    <3>4. CASE eventRows' = [eventRows EXCEPT ![c] = @ + 1] /\ unanswered' = unanswered \cup {c}
      <4>1. EVTypeOK'
        BY <3>1, <3>2, <3>4
      <4>2. ASSUME NEW d \in EventCall PROVE RowsOf(d)' /\ CallSoFar(d)'
        BY <3>1, <3>2, <3>4
      <4> QED  BY <4>1, <4>2
    <3> QED  BY <1>5, <3>3, <3>4 DEF WriteFails
  <2> QED  BY <1>5, <2>1, <2>2 DEF WriteFails, retryOrGiveUp
<1>6. ASSUME NEW c \in EventCall, DeadLetter(c) PROVE EventInv'
  BY <1>6 DEF DeadLetter
<1>7. ASSUME NEW c \in EventCall, checkProfileViewMilestone(c) PROVE EventInv'
  BY <1>7 DEF checkProfileViewMilestone
<1>8. ASSUME NEW c \in EventCall, EventCrash(c) PROVE EventInv'
  BY <1>8 DEF EventCrash
<1>9. ASSUME NEW v \in Visitor, mergeAnonymousEvents(v) \/ DedupKeyExpires(v) PROVE EventInv'
  BY <1>9 DEF mergeAnonymousEvents, DedupKeyExpires
<1>10. CASE UNCHANGED eventVars
  BY <1>10 DEF eventVars
<1> QED  BY <1>1, <1>2, <1>3, <1>4, <1>5, <1>6, <1>7, <1>8, <1>9, <1>10 DEF EVNext

\* EventAccounted: for any number of views and clicks at once and of retries,
\* recordEvent writes an event or dead-letters it, once, unless an answer was lost.
THEOREM EventsAccounted == EVSpec => []EventAccounted
<1>1. EventInv => EventAccounted
  BY DEF EventInv, EVTypeOK, CallSoFar, EventAccounted
<1> QED  BY EventInit, EventInductive, <1>1, PTL DEF EVSpec

\* Calls, rows and dead letters have their types, and no call is tried too often.
THEOREM EventTypesHold == EVSpec => []EVTypeOK
<1>1. EventInv => EVTypeOK
  BY DEF EventInv
<1> QED  BY EventInit, EventInductive, <1>1, PTL DEF EVSpec

(***************************************************************************)
(* The waitlist.                                                           *)
(***************************************************************************)

\* A job exists, or has sent its mail.
Made(j) == welcomes[j] > 0 \/ welcomeJobs[j].left > 0

\* A worker has mailed before only where that counts as resent.
MailedOnce(j) ==
  /\ welcomeJobs[j].at # "queued" => welcomeJobs[j].left > 0 /\ welcomeJobs[j].entry # NoEntry
  /\ j \notin resent =>
       /\ welcomes[j] <= 1
       /\ welcomeJobs[j].left > 0 /\ welcomeJobs[j].at \in {"queued", "send"} => welcomes[j] = 0
  /\ asking[j] \in {"new", "create", "queue"} => ~Made(j)
  /\ welcomes[j] + welcomeJobs[j].left <=
       IF welcomeJobs[j].at \in {"find", "save"} THEN WelcomeAttempts + 1 ELSE WelcomeAttempts

\* The row is that of the one request that queues its mail, or has queued it.
RowOfJob ==
  doubted = {} =>
    \A c \in WaitlistCall :
      /\ asking[c] \in {"queue", "undo"} => waiting = c
      /\ Made(c) => waiting = c /\ asking[c] # "undo"

WaitlistInv == WLTypeOK /\ (\A j \in WaitlistCall : MailedOnce(j)) /\ RowOfJob

\* Nobody has asked yet.
LEMMA WaitlistInit == WLInit => WaitlistInv
<1> SUFFICES ASSUME WLInit PROVE WaitlistInv
  OBVIOUS
<1> USE WaitlistAssumption
<1>1. NoJob \in [left : 0..WelcomeAttempts, at : {"queued", "send", "find", "save"},
                 entry : WaitlistCall \cup {NoEntry}]
  BY DEF NoJob
<1>2. WLTypeOK
  <2>1. welcomes \in [WaitlistCall -> 0..WelcomeAttempts]
    BY DEF WLInit
  <2>2. asking \in [WaitlistCall -> {"new", "create", "queue", "undo", "answered", "failed"}]
    BY DEF WLInit
  <2> QED  BY <1>1, <2>1, <2>2 DEF WLInit, WLTypeOK
<1>3. \A j \in WaitlistCall : MailedOnce(j) /\ ~Made(j) /\ asking[j] = "new"
  BY DEF WLInit, NoJob, MailedOnce, Made
<1> QED  BY <1>2, <1>3 DEF WaitlistInv, RowOfJob

Job == [left : 0..WelcomeAttempts, at : {"queued", "send", "find", "save"},
        entry : WaitlistCall \cup {NoEntry}]

\* What an attempt that fails leaves of its job.
LEMMA FailedAttempt ==
  ASSUME WaitlistInv, NEW j \in WaitlistCall, welcomeJobs[j].left > 0, AttemptFails(j)
  PROVE  /\ welcomeJobs' \in [WaitlistCall -> Job]
         /\ welcomeJobs'[j].left < welcomeJobs[j].left /\ welcomeJobs'[j].at = "queued"
         /\ \A i \in WaitlistCall : i # j => welcomeJobs'[i] = welcomeJobs[i]
         /\ resent' = IF welcomeJobs[j].at \in {"find", "save"} THEN resent \cup {j} ELSE resent
<1> USE WaitlistAssumption DEF WaitlistInv, WLTypeOK
<1>1. DEFINE failed == [left |-> welcomeJobs[j].left - 1, at |-> "queued", entry |-> NoEntry]
<1>2. welcomeJobs[j] \in Job
  BY DEF Job
<1>3. failed \in Job
  BY <1>2 DEF Job
<1>4. welcomeJobs' = [welcomeJobs EXCEPT ![j] = failed]
  BY DEF AttemptFails
<1>5. failed.left < welcomeJobs[j].left /\ failed.at = "queued"
  BY <1>2 DEF Job
<1>6. welcomeJobs \in [WaitlistCall -> Job]
  BY DEF Job
<1>7. resent' = IF welcomeJobs[j].at \in {"find", "save"} THEN resent \cup {j} ELSE resent
  BY DEF AttemptFails
<1> HIDE DEF failed, WaitlistInv, WLTypeOK
<1> QED  BY <1>3, <1>4, <1>5, <1>6, <1>7

\* A worker that goes on leaves the job's attempts as they are.
LEMMA WorkerMoves ==
  ASSUME WaitlistInv, NEW j \in WaitlistCall, NEW label \in {"send", "find", "save"},
         NEW e \in WaitlistCall, Worker(j, label, e)
  PROVE  /\ welcomeJobs' \in [WaitlistCall -> Job]
         /\ welcomeJobs'[j].left = welcomeJobs[j].left /\ welcomeJobs'[j].at = label
         /\ welcomeJobs'[j].entry = e
         /\ \A i \in WaitlistCall : i # j => welcomeJobs'[i] = welcomeJobs[i]
<1> USE DEF WaitlistInv, WLTypeOK
<1>1. DEFINE moved == [left |-> welcomeJobs[j].left, at |-> label, entry |-> e]
<1>2. welcomeJobs[j] \in Job /\ welcomeJobs \in [WaitlistCall -> Job]
  BY DEF Job
<1>3. moved \in Job
  BY <1>2 DEF Job
<1>4. welcomeJobs' = [welcomeJobs EXCEPT ![j] = moved]
  BY DEF Worker
<1>5. moved.left = welcomeJobs[j].left /\ moved.at = label /\ moved.entry = e
  OBVIOUS
<1> HIDE DEF moved, WaitlistInv, WLTypeOK
<1> QED  BY <1>2, <1>3, <1>4, <1>5

\* A step of one request or one worker keeps what is known of every job.
LEMMA WaitlistInductive == WaitlistInv /\ [WLNext]_waitlistVars => WaitlistInv'
<1> SUFFICES ASSUME WaitlistInv, [WLNext]_waitlistVars PROVE WaitlistInv'
  OBVIOUS
<1> USE WaitlistAssumption DEF WaitlistInv, WLTypeOK, MailedOnce, RowOfJob, Made, Ask
<1>1. welcomeJobs \in [WaitlistCall -> Job]
  BY DEF Job
<1>2. ASSUME NEW c \in WaitlistCall,
             findExisting(c) \/ createEntry(c) \/ deleteById(c) \/ AskFails(c)
      PROVE WaitlistInv'
  <2>1. CASE findExisting(c)  BY <2>1 DEF findExisting
  <2>2. CASE createEntry(c)
    <3>1. asking[c] = "create" /\ UNCHANGED <<welcomeJobs, welcomes, doubted, resent, dropped>>
      BY <2>2 DEF createEntry
    <3>2. \/ waiting = NoEntry /\ waiting' = c /\ Ask(c, "create", "queue")
          \/ waiting # NoEntry /\ waiting' = waiting /\ Ask(c, "create", "failed")
      BY <2>2 DEF createEntry
    <3>3. emailSent' = emailSent /\ (waiting' = NoEntry => ~emailSent)
      BY <2>2 DEF createEntry
    <3>4. WLTypeOK'
      <4>1. waiting' \in WaitlistCall \cup {NoEntry} /\ asking' \in [WaitlistCall ->
              {"new", "create", "queue", "undo", "answered", "failed"}]
        BY <3>2
      <4> QED  BY <3>1, <3>3, <4>1
    <3>5. ASSUME NEW i \in WaitlistCall PROVE MailedOnce(i)'
      BY <3>1, <3>2
    <3>6. RowOfJob'
      BY <3>1, <3>2
    <3> QED  BY <3>4, <3>5, <3>6
  <2>3. CASE deleteById(c)
    <3>1. emailSent' \in BOOLEAN /\ (waiting' = NoEntry => ~emailSent')
      BY <2>3, Zenon DEF deleteById
    <3>2. waiting' \in {waiting, NoEntry} /\ (waiting # c => waiting' = waiting)
      BY <2>3 DEF deleteById
    <3>3. asking' = [asking EXCEPT ![c] = "failed"] /\ asking[c] = "undo"
          /\ UNCHANGED <<welcomeJobs, welcomes, doubted, resent, dropped>>
      BY <2>3 DEF deleteById
    <3>4. WLTypeOK'
      BY <3>1, <3>2, <3>3
    <3>5. ASSUME NEW i \in WaitlistCall PROVE MailedOnce(i)'
      BY <3>3
    <3>6. RowOfJob'
      BY <3>2, <3>3
    <3> QED  BY <3>4, <3>5, <3>6
  <2>4. CASE AskFails(c)  BY <2>4 DEF AskFails
  <2> QED  BY <1>2, <2>1, <2>2, <2>3, <2>4
<1>3. ASSUME NEW c \in WaitlistCall, QueueWelcome(c) PROVE WaitlistInv'
  <2>1. CASE UNCHANGED <<welcomeJobs, doubted>>
    BY <1>3, <2>1 DEF QueueWelcome, AddWelcome
  <2>2. CASE AddWelcome(c)
    <3>1. DEFINE added == [left |-> WelcomeAttempts, at |-> "queued", entry |-> NoEntry]
    <3>2. added \in Job /\ added.left = WelcomeAttempts /\ added.at = "queued"
      BY DEF Job
    <3>3. welcomeJobs' = [welcomeJobs EXCEPT ![c] = added]
      BY <2>2 DEF AddWelcome
    <3> HIDE DEF added
    <3>4. /\ welcomeJobs' \in [WaitlistCall -> Job]
          /\ welcomeJobs'[c].left = WelcomeAttempts /\ welcomeJobs'[c].at = "queued"
          /\ \A i \in WaitlistCall : i # c => welcomeJobs'[i] = welcomeJobs[i]
      BY <1>1, <3>2, <3>3
    <3>5. /\ asking[c] = "queue" /\ UNCHANGED <<waiting, emailSent, welcomes, resent, dropped>>
          /\ \/ Ask(c, "queue", "answered") /\ UNCHANGED doubted
             \/ Ask(c, "queue", "undo") /\ doubted' = doubted \cup {c}
             \/ Ask(c, "queue", "undo") /\ welcomeJobs' = welcomeJobs
      BY <1>3 DEF QueueWelcome
    <3>6. welcomes[c] = 0 /\ welcomeJobs[c].left = 0 /\ welcomeJobs[c].at = "queued"
      BY <1>1, <3>5 DEF Job
    <3>7. welcomeJobs' # welcomeJobs
      BY <3>4, <3>6
    <3>8. WLTypeOK'
      <4>1. asking' \in [WaitlistCall ->
                           {"new", "create", "queue", "undo", "answered", "failed"}]
        BY <3>5
      <4>2. doubted' \subseteq WaitlistCall
        BY <3>5, <3>7
      <4> QED  BY <3>4, <3>5, <4>1, <4>2 DEF Job
    <3>9. ASSUME NEW i \in WaitlistCall PROVE MailedOnce(i)'
      <4>1. CASE i = c
        BY <3>4, <3>5, <3>6, <3>7, <4>1
      <4>2. CASE i # c
        BY <3>4, <3>5, <4>2
      <4> QED  BY <4>1, <4>2
    <3>10. RowOfJob'
      <4>1. CASE Ask(c, "queue", "answered") /\ UNCHANGED doubted
        BY <3>4, <3>5, <4>1
      <4>2. CASE doubted' = doubted \cup {c}
        BY <4>2
      <4> QED  BY <3>5, <3>7, <4>1, <4>2
    <3> QED  BY <3>8, <3>9, <3>10
  <2> QED  BY <1>3, <2>1, <2>2 DEF QueueWelcome
<1>4. ASSUME NEW j \in WaitlistCall, AttemptFails(j), welcomeJobs[j].left > 0,
             UNCHANGED <<waiting, emailSent, asking, welcomes, doubted, dropped>>
      PROVE WaitlistInv'
  BY <1>4, FailedAttempt DEF Job
<1>11. ASSUME NEW j \in WaitlistCall, NEW label \in {"send", "find", "save"},
              NEW e \in WaitlistCall, Worker(j, label, e),
              welcomeJobs[j].left > 0, label = "send" => welcomeJobs[j].at = "queued",
              UNCHANGED <<waiting, emailSent, asking, doubted, dropped, resent>>,
              IF label = "find" THEN /\ welcomeJobs[j].at = "send"
                                     /\ welcomes' = [welcomes EXCEPT ![j] = @ + 1]
                                ELSE UNCHANGED welcomes
       PROVE WaitlistInv'
  <2>1. /\ welcomeJobs' \in [WaitlistCall -> Job]
        /\ welcomeJobs'[j].left = welcomeJobs[j].left /\ welcomeJobs'[j].at = label
        /\ welcomeJobs'[j].entry = e
        /\ \A i \in WaitlistCall : i # j => welcomeJobs'[i] = welcomeJobs[i]
    BY <1>11, WorkerMoves
  <2>2. welcomes' \in [WaitlistCall -> 0..WelcomeAttempts]
    <3>1. CASE label = "find"
      <4>1. welcomes[j] + welcomeJobs[j].left <= WelcomeAttempts /\ welcomeJobs[j] \in Job
        BY <1>1, <1>11, <3>1
      <4>2. welcomes[j] + 1 \in 0..WelcomeAttempts
        BY <1>11, <4>1 DEF Job
      <4> QED  BY <1>11, <3>1, <4>2
    <3> QED  BY <1>11, <3>1
  <2>3. WLTypeOK'
    BY <1>11, <2>1, <2>2 DEF Job
  <2>4. ASSUME NEW i \in WaitlistCall PROVE MailedOnce(i)'
    <3>1. CASE i # j
      <4>1. welcomes'[i] = welcomes[i] /\ welcomeJobs'[i] = welcomeJobs[i]
        BY <1>11, <2>1, <3>1
      <4> QED  BY <1>11, <4>1
    <3>2. CASE i = j
      BY <1>11, <2>1, <2>2, <3>2
    <3> QED  BY <3>1, <3>2
  <2>5. RowOfJob'
    BY <1>11, <2>1, <2>2
  <2> QED  BY <2>3, <2>4, <2>5
<1>5. ASSUME NEW j \in WaitlistCall, FindAddress(j) PROVE WaitlistInv'
  <2>1. CASE waiting = NoEntry
    BY <1>4, <1>5, <2>1 DEF FindAddress
  <2>2. CASE waiting # NoEntry
    <3>1. Worker(j, "send", waiting) /\ UNCHANGED resent /\ welcomeJobs[j].at = "queued" /\ welcomeJobs[j].left > 0 /\ waiting # NoEntry
          /\ UNCHANGED <<waiting, emailSent, asking, welcomes, doubted, dropped>>
      BY <1>5, <2>2 DEF FindAddress
    <3> QED  BY <1>11, <3>1
  <2> QED  BY <1>5, <2>1, <2>2 DEF FindAddress
<1>6. ASSUME NEW j \in WaitlistCall, SendWelcome(j) PROVE WaitlistInv'
  <2>1. welcomeJobs[j].entry \in WaitlistCall
    BY <1>1, <1>6 DEF Job, SendWelcome
  <2> QED  BY <1>6, <1>11, <2>1 DEF SendWelcome
<1>7. ASSUME NEW j \in WaitlistCall, findToMark(j) PROVE WaitlistInv'
  <2>1. CASE waiting # welcomeJobs[j].entry
    BY <1>4, <1>7, <2>1 DEF findToMark
  <2>2. CASE waiting = welcomeJobs[j].entry
    <3>1. Worker(j, "save", waiting) /\ UNCHANGED resent /\ welcomeJobs[j].at = "find" /\ welcomeJobs[j].left > 0 /\ waiting = welcomeJobs[j].entry
          /\ waiting # NoEntry /\ UNCHANGED <<waiting, emailSent, asking, welcomes, doubted, dropped>>
      BY <1>7, <2>2 DEF findToMark
    <3> QED  BY <1>11, <3>1
  <2> QED  BY <1>7, <2>1, <2>2 DEF findToMark
<1>8. ASSUME NEW j \in WaitlistCall, markEmailSent(j) PROVE WaitlistInv'
  <2>1. CASE AttemptFails(j) /\ UNCHANGED <<waiting, emailSent>>
    BY <1>4, <1>8, <2>1 DEF markEmailSent
  <2>2. CASE waiting \in {NoEntry, welcomeJobs[j].entry}
    <3>1. NoJob \in Job /\ NoJob.left = 0 /\ NoJob.at = "queued"
      BY DEF NoJob, Job
    <3>2. /\ welcomeJobs' = [welcomeJobs EXCEPT ![j] = NoJob] /\ welcomeJobs[j].at = "save"
          /\ waiting' = welcomeJobs[j].entry /\ waiting' # NoEntry /\ emailSent' = TRUE
          /\ UNCHANGED <<asking, welcomes, resent, doubted, dropped>>
      BY <1>8, <2>2 DEF markEmailSent
    <3>3. /\ welcomeJobs' \in [WaitlistCall -> Job]
          /\ welcomeJobs'[j].left = 0 /\ welcomeJobs'[j].at = "queued"
          /\ \A i \in WaitlistCall : i # j => welcomeJobs'[i] = welcomeJobs[i]
      BY <1>1, <3>1, <3>2
    <3>4. waiting' \in WaitlistCall /\ (waiting # NoEntry => waiting' = waiting)
      BY <1>1, <2>2, <3>2 DEF Job
    <3>5. WLTypeOK'
      <4>1. emailSent' \in BOOLEAN
        BY <3>2, Zenon
      <4> QED  BY <3>2, <3>3, <3>4, <4>1 DEF Job
    <3>6. ASSUME NEW i \in WaitlistCall PROVE MailedOnce(i)'
      <4>1. CASE i = j
        <5>1. welcomes[j] + welcomeJobs[j].left <= WelcomeAttempts + 1 /\ welcomeJobs[j].left > 0
              /\ welcomeJobs[j].left \in Nat /\ welcomes[j] \in Nat
          BY <1>1, <3>2 DEF Job
        <5> QED  BY <3>2, <3>3, <4>1, <5>1
      <4>2. CASE i # j
        BY <3>2, <3>3, <4>2
      <4> QED  BY <4>1, <4>2
    <3>7. RowOfJob'
      BY <3>2, <3>3, <3>4
    <3> QED  BY <3>5, <3>6, <3>7
  <2> QED  BY <1>8, <2>1, <2>2 DEF markEmailSent
<1>9. ASSUME NEW j \in WaitlistCall, WelcomeFails(j) PROVE WaitlistInv'
  BY <1>4, <1>9 DEF WelcomeFails
<1>10. CASE UNCHANGED waitlistVars
  BY <1>10 DEF waitlistVars
<1> QED  BY <1>2, <1>3, <1>5, <1>6, <1>7, <1>8, <1>9, <1>10 DEF WLNext

\* WelcomedOnce: however often an address asks and however often the jobs are
\* tried, one job welcomes it, once, unless a worker failed after it had mailed or
\* queue.add threw although it had added the job.
THEOREM WelcomeOnce == WLSpec => []WelcomedOnce
<1>1. WaitlistInv => WelcomedOnce
  BY DEF WaitlistInv, MailedOnce, RowOfJob, Made, WelcomedOnce
<1> QED  BY WaitlistInit, WaitlistInductive, <1>1, PTL DEF WLSpec

\* The waitlist, its requests and the welcome jobs have their types.
THEOREM WaitlistTypesHold == WLSpec => []WLTypeOK
<1>1. WaitlistInv => WLTypeOK
  BY DEF WaitlistInv
<1> QED  BY WaitlistInit, WaitlistInductive, <1>1, PTL DEF WLSpec

(***************************************************************************)
(* Invites.                                                                *)
(***************************************************************************)

\* A request that is about an invite, and whether it has just inserted it.
Asks(s) == tab[s].at \in {"replace", "enqueue", "undo"}
Inserts(s) == tab[s].at \in {"enqueue", "undo"}

\* What a request knows of the invite it is about.
RequestKnows(s) ==
  /\ Asks(s) => tab[s].id \in InviteId
  /\ ~Asks(s) => tab[s].id = NoInvite
  /\ tab[s].at = "replace" /\ Existing(tab[s].id) =>
       invites[tab[s].id].expired /\ ~invites[tab[s].id].claimed
  /\ Inserts(s) /\ tab[s].id \notin unsure =>
       tab[s].id \notin linksOut /\ mailJobs[tab[s].id] = 0

\* An invite is inserted by one request.
OneInserter == \A s, t \in InviteTab : Inserts(s) /\ Inserts(t) /\ tab[s].id = tab[t].id => s = t

\* PendingIsMailed needs only the request that has inserted the invite: one that
\* replaces it may die without harm.
Accounted(i) ==
  i \notin unmailed /\ PendingInvite(i) =>
    \/ i \in linksOut \/ mailJobs[i] > 0
    \/ \E s \in InviteTab : Inserts(s) /\ tab[s].id = i

InviteInv ==
  /\ IVTypeOK
  /\ \A s \in InviteTab : RequestKnows(s)
  /\ OneInserter
  /\ \A i \in InviteId : Accounted(i)

\* There are no invites and no requests yet.
LEMMA InviteInit == IVInit => InviteInv
BY InvitesAssumption
   DEF IVInit, InviteInv, IVTypeOK, NoRequest, RequestKnows, Asks, Inserts, OneInserter, Accounted,
       PendingInvite, Existing

\* What a request's step leaves in its tab.
LEMMA RequestMoves ==
  ASSUME IVTypeOK, NEW s \in InviteTab,
         NEW label \in {"idle", "replace", "insert", "enqueue", "undo"},
         NEW i \in {NoInvite} \cup InviteId,
         tab' = [tab EXCEPT ![s] = [at |-> label, id |-> i]]
  PROVE  /\ tab' \in [InviteTab -> [at : {"idle", "replace", "insert", "enqueue", "undo"},
                                    id : {NoInvite} \cup InviteId]]
         /\ tab'[s].at = label /\ tab'[s].id = i
         /\ \A t \in InviteTab : t # s => tab'[t] = tab[t]
BY DEF IVTypeOK

\* A row may expire, be clicked, and be claimed before it has expired.
LEMMA RowChanges ==
  ASSUME InviteInv, NEW i \in InviteId, Existing(i), NEW row \in Invite,
         invites' = [invites EXCEPT ![i] = row],
         invites[i].expired /\ ~invites[i].claimed => row.expired /\ ~row.claimed,
         invites[i].claimed => row.claimed,
         UNCHANGED <<tab, mailJobs, linksOut, unsure, unmailed>>,
         clicking' \subseteq InviteId, toNotify' \subseteq InviteId, notified' = notified
  PROVE  InviteInv' /\ \A j \in InviteId : Existing(j) => Existing(j)'
<1>1. /\ invites' \in [InviteId -> {NoInvite} \cup Invite]
      /\ invites'[i] = row /\ row # NoInvite
      /\ \A j \in InviteId : j # i => invites'[j] = invites[j]
  BY InvitesAssumption DEF InviteInv, IVTypeOK
<1>2. IVTypeOK'
  BY <1>1 DEF InviteInv, IVTypeOK
<1>3. ASSUME NEW s \in InviteTab PROVE RequestKnows(s)'
  BY <1>1 DEF InviteInv, RequestKnows, Asks, Inserts, Existing
<1>4. OneInserter'
  BY DEF InviteInv, OneInserter, Inserts
<1>5. ASSUME NEW j \in InviteId PROVE Accounted(j)'
  <2>1. PendingInvite(j)' => PendingInvite(j)
    BY <1>1 DEF PendingInvite, Existing
  <2> QED  BY <2>1 DEF InviteInv, Accounted, Inserts
<1>6. \A j \in InviteId : Existing(j) => Existing(j)'
  BY <1>1 DEF Existing
<1> QED  BY <1>2, <1>3, <1>4, <1>5, <1>6 DEF InviteInv

\* createInvite keeps the invariant.
LEMMA RequestInductive ==
  ASSUME InviteInv, NEW s \in InviteTab,
         \/ FindExisting(s) \/ DeleteExpired(s) \/ InsertInvite(s)
         \/ EnqueueInvite(s) \/ UndoInvite(s) \/ InviteFails(s)
  PROVE  InviteInv'
<1> USE InvitesAssumption
    DEF InviteInv, IVTypeOK, RequestKnows, Asks, Inserts, OneInserter, Accounted, PendingInvite,
        Existing, InviteRequest, InviteAnswered, NoRequest, DeleteInvite, requestState
<1>1. CASE FindExisting(s)
  BY <1>1, RequestMoves DEF FindExisting, Replaceable
<1>2. CASE DeleteExpired(s)
  BY <1>2, RequestMoves DEF DeleteExpired
<1>3. CASE InsertInvite(s)
  <2>1. CASE \E i \in InviteId : PendingInvite(i)
    <3>1. /\ tab' = [tab EXCEPT ![s] = [at |-> "idle", id |-> NoInvite]] /\ tab[s].at = "insert"
          /\ UNCHANGED <<invites, mailJobs, linksOut, clicking, toNotify, notified, unsure, unmailed>>
      BY <1>3, <2>1 DEF InsertInvite
    <3>2. /\ tab' \in [InviteTab -> [at : {"idle", "replace", "insert", "enqueue", "undo"},
                                    id : {NoInvite} \cup InviteId]]
          /\ tab'[s].at = "idle" /\ tab'[s].id = NoInvite
          /\ \A t \in InviteTab : t # s => tab'[t] = tab[t]
      BY <3>1, RequestMoves
    <3> QED  BY <3>1, <3>2
  <2>2. CASE ~\E i \in InviteId : PendingInvite(i)
    <3> DEFINE row == InviteRow(FALSE, FALSE, FALSE)
    <3>1. PICK i \in InviteId :
            /\ Fresh(i)
            /\ invites' = [invites EXCEPT ![i] = row]
            /\ tab' = [tab EXCEPT ![s] = [at |-> "enqueue", id |-> i]]
      BY <1>3, <2>2 DEF InsertInvite
    <3>2. row \in Invite
      BY DEF Invite, InviteRow
    <3> HIDE DEF row
    <3>3. /\ invites' \in [InviteId -> {NoInvite} \cup Invite]
          /\ \A j \in InviteId : j # i => invites'[j] = invites[j]
      BY <3>1, <3>2
    <3>4. /\ tab' \in [InviteTab -> [at : {"idle", "replace", "insert", "enqueue", "undo"},
                                    id : {NoInvite} \cup InviteId]]
          /\ tab'[s].at = "enqueue" /\ tab'[s].id = i
          /\ \A t \in InviteTab : t # s => tab'[t] = tab[t]
      BY <3>1, RequestMoves
    <3>5. UNCHANGED <<mailJobs, linksOut, clicking, toNotify, notified, unsure, unmailed>>
      BY <1>3 DEF InsertInvite
    <3>6. /\ mailJobs[i] = 0 /\ i \notin linksOut
          /\ \A t \in InviteTab : tab[t].id # i
      BY <3>1 DEF Fresh
    <3>7. IVTypeOK'
      BY <3>3, <3>4, <3>5
    <3>8. ASSUME NEW t \in InviteTab PROVE RequestKnows(t)'
      <4>1. CASE t = s
        BY <3>4, <3>5, <3>6, <4>1
      <4>2. CASE t # s
        BY <3>3, <3>4, <3>5, <3>6, <4>2
      <4> QED  BY <4>1, <4>2
    <3>9. OneInserter'
      BY <3>4, <3>6
    <3>10. ASSUME NEW j \in InviteId PROVE Accounted(j)'
      <4>1. CASE j = i
        BY <3>4, <4>1
      <4>2. CASE j # i
        <5>1. invites'[j] = invites[j] /\ UNCHANGED <<mailJobs, linksOut, unmailed>>
          BY <3>3, <3>5, <4>2
        <5>2. ASSUME NEW t \in InviteTab, Inserts(t), tab[t].id = j PROVE Inserts(t)' /\ tab'[t].id = j
          BY <3>4, <5>2, <1>3 DEF InsertInvite
        <5> QED  BY <5>1, <5>2
      <4> QED  BY <4>1, <4>2
    <3> QED  BY <3>7, <3>8, <3>9, <3>10
  <2> QED  BY <2>1, <2>2
<1>4. CASE EnqueueInvite(s)
  <2> DEFINE i == tab[s].id
  <2>1. CASE AddMailJob(i) /\ InviteAnswered(s) /\ UNCHANGED unsure
    BY <1>4, <2>1, RequestMoves DEF EnqueueInvite, AddMailJob
  <2>2. CASE UNCHANGED <<mailJobs, unsure>> /\ InviteRequest(s, "undo", i)
    BY <1>4, <2>2, RequestMoves DEF EnqueueInvite
  <2>3. CASE AddMailJob(i) /\ unsure' = unsure \cup {i} /\ InviteRequest(s, "undo", i)
    BY <1>4, <2>3, RequestMoves DEF EnqueueInvite, AddMailJob
  <2> QED  BY <1>4, <2>1, <2>2, <2>3 DEF EnqueueInvite
<1>5. CASE UndoInvite(s)
  BY <1>5, RequestMoves DEF UndoInvite
<1>6. CASE InviteFails(s)
  BY <1>6, RequestMoves DEF InviteFails
<1> QED  BY <1>1, <1>2, <1>3, <1>4, <1>5, <1>6

\* The mail, a click, the claim and its notification, and time keep it.
LEMMA InviteRowInductive ==
  ASSUME InviteInv, NEW i \in InviteId,
         \/ SendInviteEmail(i) \/ InviteExpires(i) \/ recordInviteClick(i)
         \/ claimInvite(i) \/ handleInviteClaimedNotify(i)
  PROVE  InviteInv' /\ \A j \in InviteId : Existing(j) => Existing(j)'
<1>1. CASE SendInviteEmail(i) \/ handleInviteClaimedNotify(i)
  <2> USE InvitesAssumption
      DEF InviteInv, IVTypeOK, RequestKnows, Asks, Inserts, OneInserter, Accounted, PendingInvite,
          Existing, requestState
  <2>1. CASE SendInviteEmail(i)
    BY <2>1 DEF SendInviteEmail
  <2>2. CASE handleInviteClaimedNotify(i)
    BY <2>2 DEF handleInviteClaimedNotify
  <2> QED  BY <1>1, <2>1, <2>2
<1>2. invites \in [InviteId -> {NoInvite} \cup Invite]
      /\ clicking \subseteq InviteId /\ toNotify \subseteq InviteId
  BY DEF InviteInv, IVTypeOK
<1>3. ASSUME Existing(i) PROVE invites[i] \in [claimed : BOOLEAN, expired : BOOLEAN, clicked : BOOLEAN]
  BY <1>2, <1>3 DEF Existing, Invite
<1>4. CASE InviteExpires(i)
  <2>1. DEFINE row == [claimed |-> invites[i].claimed, expired |-> TRUE, clicked |-> invites[i].clicked]
  <2>2. Existing(i) /\ invites' = [invites EXCEPT ![i] = row]
        /\ UNCHANGED <<tab, mailJobs, linksOut, clicking, toNotify, notified, unsure, unmailed>>
    BY <1>2, <1>4 DEF InviteExpires, InviteRow, requestState
  <2>4. row \in Invite /\ row.expired = TRUE /\ row.claimed = invites[i].claimed
    BY <1>3, <2>2 DEF Invite
  <2> HIDE DEF row
  <2> QED  BY <1>2, <2>2, <2>4, RowChanges
<1>5. CASE claimInvite(i)
  <2>1. DEFINE row == [claimed |-> TRUE, expired |-> invites[i].expired, clicked |-> invites[i].clicked]
  <2>2. Existing(i) /\ ~invites[i].expired /\ invites' = [invites EXCEPT ![i] = row]
        /\ UNCHANGED <<tab, mailJobs, linksOut, clicking, notified, unsure, unmailed>>
        /\ toNotify' = toNotify \cup {i}
    BY <1>2, <1>5 DEF claimInvite, Claimable, PendingInvite, InviteRow
  <2>4. row \in Invite /\ row.claimed = TRUE
    BY <1>3, <2>2 DEF Invite
  <2> HIDE DEF row
  <2> QED  BY <1>2, <2>2, <2>4, RowChanges
<1>6. CASE recordInviteClick(i)
  <2>1. DEFINE row == [claimed |-> invites[i].claimed, expired |-> invites[i].expired, clicked |-> TRUE]
  <2>2. /\ UNCHANGED <<tab, mailJobs, linksOut, toNotify, notified, unsure, unmailed>>
        /\ clicking' \subseteq InviteId
        /\ \/ invites' = invites
           \/ Existing(i) /\ invites' = [invites EXCEPT ![i] = row]
    BY <1>2, <1>6 DEF recordInviteClick, InviteRow
  <2>3. Existing(i) => row \in Invite /\ row.expired = invites[i].expired /\ row.claimed = invites[i].claimed
    BY <1>3 DEF Invite
  <2> HIDE DEF row
  <2>4. CASE invites' = invites
    BY <2>2, <2>4 DEF InviteInv, IVTypeOK, RequestKnows, Asks, Inserts, OneInserter, Accounted,
                      PendingInvite, Existing
  <2>5. CASE Existing(i) /\ invites' = [invites EXCEPT ![i] = row]
    BY <1>2, <2>2, <2>3, <2>5, RowChanges
  <2> QED  BY <2>2, <2>4, <2>5
<1> QED  BY <1>1, <1>4, <1>5, <1>6

LEMMA InviteInductive == InviteInv /\ [IVNext]_inviteVars => InviteInv'
<1> SUFFICES ASSUME InviteInv, [IVNext]_inviteVars PROVE InviteInv'
  OBVIOUS
<1>1. CASE UNCHANGED inviteVars
  BY <1>1 DEF inviteVars, InviteInv, IVTypeOK, RequestKnows, Asks, Inserts, OneInserter, Accounted,
              PendingInvite, Existing
<1> QED  BY <1>1, RequestInductive, InviteRowInductive DEF IVNext

\* PendingIsMailed: whatever requests of any number of tabs overlap, are refused,
\* rolled back or die, createInvite answers a conflict for no invite that has
\* neither been mailed nor will be, but for those of the requests that died, could
\* not roll back, or used up the attempts of the mail.
THEOREM PendingMailed == IVSpec => []PendingIsMailed
<1>1. InviteInv => PendingIsMailed
  BY DEF InviteInv, Accounted, PendingIsMailed
<1> QED  BY InviteInit, InviteInductive, <1>1, PTL DEF IVSpec

\* MailedLinksWork: no step of any request takes an invite away whose link has been
\* mailed, unless it has expired unclaimed or addJob had added the job it threw for.
THEOREM MailedLinks == IVSpec => MailedLinksWork
<1>1. ASSUME InviteInv, [IVNext]_inviteVars
      PROVE [\A i \in linksOut \ unsure :
               Existing(i) /\ ~Existing(i)' => invites[i].expired /\ ~invites[i].claimed]_inviteVars
  <2>1. SUFFICES ASSUME IVNext, NEW i \in linksOut \ unsure, Existing(i), ~Existing(i)'
                 PROVE  invites[i].expired /\ ~invites[i].claimed
    BY <1>1
  <2> USE <1>1, InvitesAssumption DEF InviteInv, IVTypeOK, Existing
  <2>2. ASSUME NEW s \in InviteTab, FindExisting(s) \/ EnqueueInvite(s) \/ InviteFails(s) PROVE FALSE
    BY <2>1, <2>2 DEF FindExisting, EnqueueInvite, InviteFails
  <2>3. ASSUME NEW s \in InviteTab, InsertInvite(s) PROVE FALSE
    BY <2>1, <2>3 DEF InsertInvite, Fresh, Invite
  <2>4. ASSUME NEW s \in InviteTab, DeleteExpired(s) PROVE invites[i].expired /\ ~invites[i].claimed
    BY <2>1, <2>4 DEF DeleteExpired, DeleteInvite, RequestKnows
  <2>5. ASSUME NEW s \in InviteTab, UndoInvite(s) PROVE FALSE
    BY <2>1, <2>5 DEF UndoInvite, DeleteInvite, RequestKnows, Inserts
  <2>6. ASSUME NEW j \in InviteId,
               \/ SendInviteEmail(j) \/ InviteExpires(j) \/ recordInviteClick(j)
               \/ claimInvite(j) \/ handleInviteClaimedNotify(j)
        PROVE  FALSE
    <3>1. Existing(i)' \/ i \notin InviteId
      BY <2>1, <2>6, InviteRowInductive
    <3> QED  BY <2>1, <3>1
  <2> QED  BY <2>1, <2>2, <2>3, <2>4, <2>5, <2>6 DEF IVNext
<1> QED  BY InviteInit, InviteInductive, <1>1, PTL DEF IVSpec, MailedLinksWork

\* Invites, tabs, mail jobs and links have their types.
THEOREM InviteTypesHold == IVSpec => []IVTypeOK
<1>1. InviteInv => IVTypeOK
  BY DEF InviteInv
<1> QED  BY InviteInit, InviteInductive, <1>1, PTL DEF IVSpec

(***************************************************************************)
(* Announcements.  A user who has registered in time is on a page that is  *)
(* queued, or is still before the broadcast, and a job tells of each of    *)
(* its users who have a row, an emit behind or ahead, or an excuse.        *)
(***************************************************************************)

\* A user is in the job of a page.
Listed(u) == \E j \in DOMAIN fanoutJobs : u \in fanoutJobs[j].userIds

\* Users who are yet to register are on no page and have got nothing.
NewcomersUntold ==
  \A u \in newcomers : u \notin audience /\ ~Listed(u) /\ emitted[u] = 0

\* OFFSET counts rows that are queued: a user whose page is not was placed after it.
PagesCover ==
  /\ broadcasting = "new" => offset = 0 /\ fanoutJobs = <<>>
  /\ broadcasting = "paging" /\ ~shifted =>
       \A u \in audience \cap registered : Listed(u) \/ offset <= Rank(u)
  /\ broadcasting = "answered" /\ ~shifted =>
       \A u \in audience \cap registered : Listed(u)

\* What has become of the rows of a job.
JobSound(job) ==
  /\ job.new \subseteq job.userIds
  /\ job.at # "over" => job.attempts > 0
  /\ job.at \in {"emit", "over"} =>
       \A u \in (job.userIds \cap registered) \ unreached : notices[u] # "none"
  /\ job.at = "emit" =>
       \A u \in job.new \cap registered : notices[u] # "none" /\ emitted[u] = 0

JobsSound == \A j \in DOMAIN fanoutJobs : JobSound(fanoutJobs[j])

\* A row is new to one job, and nothing is emitted before there is a row.
NewOnce ==
  /\ \A i, j \in DOMAIN fanoutJobs :
       fanoutJobs[i].at = "emit" /\ fanoutJobs[j].at = "emit" /\ i # j =>
         fanoutJobs[i].new \cap fanoutJobs[j].new \cap registered = {}
  /\ \A u \in registered : notices[u] = "none" => emitted[u] = 0

AnnouncementInv ==
  ANTypeOK /\ NewcomersUntold /\ PagesCover /\ JobsSound /\ NewOnce /\ EmittedOnce

\* A set of naturals that is not empty has a least element.
LEMMA LeastNatural ==
  ASSUME NEW S \in SUBSET Nat, S # {}
  PROVE  \E n \in S : \A m \in S : n <= m
<1>1. PICK n \in S : \A m \in S : ~ (<<m, n>> \in OpToRel(<, Nat))
  BY NatLessThanWellFounded, WFMin
<1>2. \A m \in S : ~ m < n
  BY <1>1 DEF OpToRel
<1> QED
  BY <1>2

\* A bounded set of naturals that is not empty has a greatest element.
LEMMA GreatestNatural ==
  ASSUME NEW S \in SUBSET Nat, S # {}, NEW b \in Nat, \A n \in S : n <= b
  PROVE  \E n \in S : \A m \in S : m <= n
<1> DEFINE Bounds == {k \in Nat : \A n \in S : n <= k}
<1>1. PICK k \in Bounds : \A l \in Bounds : k <= l
  BY LeastNatural
<1>2. k \in S
  <2> SUFFICES ASSUME k \notin S PROVE FALSE
    OBVIOUS
  <2>1. \A n \in S : n <= k /\ n # k
    OBVIOUS
  <2>2. k \in Nat /\ \A n \in S : n \in Nat /\ n < k
    BY <2>1
  <2>3. PICK any \in S : TRUE
    OBVIOUS
  <2>4. k - 1 \in Nat /\ \A n \in S : n <= k - 1
    BY <2>2, <2>3
  <2> QED
    BY <1>1, <2>4
<1> QED
  BY <1>1, <1>2

\* Those of S that come before u, of whom Rank counts the registered.
Before(S, u) == {v \in S : v < u}

\* There are finitely many users before a user.
LEMMA BeforeFinite ==
  ASSUME NEW S \in SUBSET Member, NEW u \in Member
  PROVE  IsFiniteSet(Before(S, u)) /\ Cardinality(Before(S, u)) \in Nat
<1>1. IsFiniteSet(Member)
  BY AnnouncementsAssumption, FS_Interval DEF Member
<1>2. Before(S, u) \in SUBSET Member
  BY DEF Before
<1>3. IsFiniteSet(Before(S, u))
  BY <1>1, <1>2, FS_Subset
<1> QED
  BY <1>3, FS_CardinalityType

\* A user who registers puts nobody earlier in the order.
LEMMA RegisteringShifts ==
  ASSUME NEW S \in SUBSET Member, NEW T \in SUBSET Member, S \subseteq T, NEW u \in Member
  PROVE  Cardinality(Before(S, u)) <= Cardinality(Before(T, u))
<1>1. Before(S, u) \in SUBSET Before(T, u)
  BY DEF Before
<1> QED
  BY <1>1, BeforeFinite, FS_Subset

\* The ranks of users have no gap: if no user has rank n, none has a greater one.
LEMMA LastPageEmpty ==
  ASSUME NEW S \in SUBSET Member, NEW n \in Nat,
         \A u \in S : Cardinality(Before(S, u)) # n
  PROVE  \A u \in S : Cardinality(Before(S, u)) < n
<1> DEFINE Late == {u \in S : n <= Cardinality(Before(S, u))}
<1>1. \A u \in S : Cardinality(Before(S, u)) \in Nat
  BY BeforeFinite
<1>2. SUFFICES ASSUME Late # {} PROVE FALSE
  <2>1. \A u \in S : ~ n <= Cardinality(Before(S, u))
    BY <1>2
  <2> QED
    BY <1>1, <2>1
<1>3. S \in SUBSET Nat
  BY AnnouncementsAssumption DEF Member
<1>4. Late \in SUBSET Nat
  BY <1>3
<1>5. PICK first \in Late : \A u \in Late : first <= u
  BY <1>2, <1>4, LeastNatural
<1>6. first \in S /\ first \in Nat /\ n < Cardinality(Before(S, first))
  BY <1>1, <1>3, <1>5
<1>7. Before(S, first) # {}
  BY <1>6, FS_EmptySet
<1> HIDE DEF Late
<1>8. \A u \in Before(S, first) : u \in S /\ u \in Nat /\ u < first
  BY <1>3 DEF Before
<1>9. PICK last \in Before(S, first) : \A u \in Before(S, first) : u <= last
  <2>1. Before(S, first) \in SUBSET Nat /\ \A u \in Before(S, first) : u <= first
    BY <1>6, <1>8
  <2> QED
    BY <1>6, <1>7, <2>1, GreatestNatural
<1>10. last \in S /\ last \in Nat /\ last < first
  BY <1>8, <1>9
<1>11. Before(S, last) = Before(S, first) \ {last}
  <2>1. ASSUME NEW u \in S, u < last PROVE u \in Before(S, first) \ {last}
    BY <1>3, <1>6, <1>10, <2>1 DEF Before
  <2>2. ASSUME NEW u \in Before(S, first), u # last PROVE u \in S /\ u < last
    BY <1>8, <1>9, <1>10, <2>2
  <2> QED
    BY <2>1, <2>2 DEF Before
<1>12. IsFiniteSet(Before(S, first))
  BY <1>6, BeforeFinite
<1>13. Cardinality(Before(S, last)) = Cardinality(Before(S, first)) - 1
  <2>1. Cardinality(Before(S, first) \ {last}) = Cardinality(Before(S, first)) - 1
    BY <1>9, <1>12, FS_RemoveElement
  <2> QED
    BY <1>11, <2>1
<1>14. last \in Late
  BY <1>1, <1>6, <1>10, <1>13 DEF Late
<1> QED
  BY <1>5, <1>6, <1>10, <1>14

\* A step of job j, which leaves it as job.
Moves(j, job) ==
  /\ fanoutJobs' = [fanoutJobs EXCEPT ![j] = job]
  /\ job \in FanoutJob /\ job.userIds = fanoutJobs[j].userIds

\* A job is a job.
LEMMA JobIn ==
  ASSUME ANTypeOK, NEW j \in DOMAIN fanoutJobs
  PROVE  fanoutJobs[j] \in FanoutJob
BY DEF ANTypeOK

\* What a step of one job leaves alone.
LEMMA Moved ==
  ASSUME ANTypeOK, NEW j \in DOMAIN fanoutJobs, NEW job, Moves(j, job)
  PROVE  /\ fanoutJobs' \in Seq(FanoutJob) /\ DOMAIN fanoutJobs' = DOMAIN fanoutJobs
         /\ fanoutJobs'[j] = job
         /\ \A i \in DOMAIN fanoutJobs : i # j => fanoutJobs'[i] = fanoutJobs[i]
         /\ \A i \in DOMAIN fanoutJobs : fanoutJobs'[i].userIds = fanoutJobs[i].userIds
BY DEF ANTypeOK, Moves

\* Each step of the processor moves its job, and no other.
LEMMA FanoutSteps ==
  ASSUME ANTypeOK, NEW j \in DOMAIN fanoutJobs, JobSound(fanoutJobs[j])
  PROVE  LET job == fanoutJobs[j]
         IN  /\ StartFanout(j) => Moves(j, [job EXCEPT !.at = "active"])
             /\ InsertNotices(j) =>
                  Moves(j, [job EXCEPT !.at = IF NewNotices(job.userIds) = {} THEN "over" ELSE "emit",
                                       !.new = NewNotices(job.userIds)])
             /\ job.at = "active" /\ Throw(j) =>
                  Moves(j, [job EXCEPT !.attempts = @ - 1,
                                       !.at = IF job.attempts = 1 THEN "over" ELSE "queued"])
             /\ EmitNotices(j) => Moves(j, [job EXCEPT !.at = "over"])
             /\ FanoutStalls(j) =>
                  IF job.stalls < MaxStalls
                  THEN Moves(j, [job EXCEPT !.at = "queued", !.new = {}, !.stalls = @ + 1])
                  ELSE Moves(j, [job EXCEPT !.at = "over", !.new = {}])
<1> USE AnnouncementsAssumption, JobIn DEF JobSound, Moves, FanoutJob
<1> DEFINE job == fanoutJobs[j]
<1>1. StartFanout(j) => Moves(j, [job EXCEPT !.at = "active"])
  BY DEF StartFanout
<1>2. InsertNotices(j) =>
        Moves(j, [job EXCEPT !.at = IF NewNotices(job.userIds) = {} THEN "over" ELSE "emit",
                             !.new = NewNotices(job.userIds)])
  <2> SUFFICES ASSUME InsertNotices(j)
               PROVE  Moves(j, [job EXCEPT !.at = IF NewNotices(job.userIds) = {} THEN "over"
                  ELSE "emit",
                                           !.new = NewNotices(job.userIds)])
    OBVIOUS
  <2> DEFINE next == IF NewNotices(job.userIds) = {} THEN "over" ELSE "emit"
             moved == [job EXCEPT !.at = next, !.new = NewNotices(job.userIds)]
  <2>1. fanoutJobs' = [fanoutJobs EXCEPT ![j].at = next, ![j].new = NewNotices(job.userIds)]
    BY DEF InsertNotices
  <2>2. next \in {"over", "emit"}
    OBVIOUS
  <2>3. job \in FanoutJob /\ NewNotices(job.userIds) \in SUBSET Member
    BY DEF NewNotices
  <2> HIDE DEF next
  <2>4. fanoutJobs' = [fanoutJobs EXCEPT ![j] = moved]
    BY <2>1
  <2>5. moved \in FanoutJob /\ moved.userIds = job.userIds
    BY <2>2, <2>3
  <2> QED
    BY <2>4, <2>5 DEF next
<1>3. job.at = "active" /\ Throw(j) =>
        Moves(j, [job EXCEPT !.attempts = @ - 1,
                             !.at = IF job.attempts = 1 THEN "over" ELSE "queued"])
  <2> SUFFICES ASSUME job.at = "active", Throw(j)
               PROVE  Moves(j, [job EXCEPT !.attempts = @ - 1,
                                           !.at = IF job.attempts = 1 THEN "over" ELSE "queued"])
    OBVIOUS
  <2> DEFINE left == job.attempts - 1
             next == IF job.attempts = 1 THEN "over" ELSE "queued"
             moved == [job EXCEPT !.attempts = left, !.at = next]
  <2>1. job \in FanoutJob /\ job.attempts \in 1..FanoutAttempts
    OBVIOUS
  <2>2. (left = 0) = (job.attempts = 1)
    BY <2>1
  <2>3. fanoutJobs' = [fanoutJobs EXCEPT ![j].attempts = left, ![j].at = next]
    BY <2>2 DEF Throw
  <2>4. left \in 0..FanoutAttempts /\ next \in {"queued", "over"}
    BY <2>1
  <2> HIDE DEF left, next
  <2>5. fanoutJobs' = [fanoutJobs EXCEPT ![j] = moved]
    BY <2>3
  <2>6. moved \in FanoutJob /\ moved.userIds = job.userIds
    BY <2>1, <2>4
  <2> QED
    BY <2>5, <2>6 DEF left, next
<1>4. EmitNotices(j) => Moves(j, [job EXCEPT !.at = "over"])
  BY DEF EmitNotices
<1>5. FanoutStalls(j) =>
        IF job.stalls < MaxStalls
        THEN Moves(j, [job EXCEPT !.at = "queued", !.new = {}, !.stalls = @ + 1])
        ELSE Moves(j, [job EXCEPT !.at = "over", !.new = {}])
  BY DEF FanoutStalls
<1> QED
  BY <1>1, <1>2, <1>3, <1>4, <1>5

\* QueuePage adds one job, that of the page.
LEMMA PageQueued ==
  ASSUME ANTypeOK, QueuePage
  PROVE  LET last == Len(fanoutJobs) + 1
         IN  /\ fanoutJobs' \in Seq(FanoutJob)
             /\ last \notin DOMAIN fanoutJobs /\ DOMAIN fanoutJobs' = DOMAIN fanoutJobs \cup {last}
             /\ \A j \in DOMAIN fanoutJobs : fanoutJobs'[j] = fanoutJobs[j]
             /\ fanoutJobs'[last] = [userIds |-> Page, at |-> "queued", new |-> {},
                                     attempts |-> FanoutAttempts, stalls |-> 0]
<1>1. [userIds |-> Page, at |-> "queued", new |-> {},
       attempts |-> FanoutAttempts, stalls |-> 0] \in FanoutJob
  BY AnnouncementsAssumption DEF ANTypeOK, FanoutJob, Page
<1> QED
  BY <1>1 DEF ANTypeOK, QueuePage

\* What a step of job j leaves alone.
OthersStay(j) ==
  /\ fanoutJobs' \in Seq(FanoutJob) /\ DOMAIN fanoutJobs' = DOMAIN fanoutJobs
  /\ fanoutJobs'[j].userIds = fanoutJobs[j].userIds
  /\ fanoutJobs[j].userIds \subseteq Member /\ fanoutJobs[j].new \subseteq Member
  /\ \A i \in DOMAIN fanoutJobs : i # j => fanoutJobs'[i] = fanoutJobs[i]

\* What StartFanout does.
LEMMA FanoutStarted ==
  ASSUME ANTypeOK, JobsSound, NEW j \in DOMAIN fanoutJobs, StartFanout(j)
  PROVE  LET old == fanoutJobs[j]
             job == fanoutJobs'[j]
         IN  /\ OthersStay(j)
             /\ old.at = "queued" /\ job.at = "active" /\ job.new = old.new /\ job.attempts =
                old.attempts
             /\ UNCHANGED <<registered, newcomers, audience, broadcasting, offset, notices,
                            emitted, shifted, unreached, unshown>>
<1> DEFINE moved == [fanoutJobs[j] EXCEPT !.at = "active"]
<1>1. Moves(j, moved)
  BY FanoutSteps DEF JobsSound
<1>2. OthersStay(j) /\ fanoutJobs'[j] = moved
  BY <1>1, Moved, JobIn DEF OthersStay, FanoutJob
<1>3. fanoutJobs[j] \in FanoutJob /\ (fanoutJobs[j].at # "over" => fanoutJobs[j].attempts > 0)
  BY JobIn DEF JobsSound, JobSound
<1>4. /\ UNCHANGED <<registered, newcomers, audience, broadcasting, offset, notices,
                                  emitted, shifted, unreached, unshown>>
  BY <1>2 DEF StartFanout
<1> QED
  BY <1>4, <1>2, <1>3, AnnouncementsAssumption DEF StartFanout, FanoutJob

\* What InsertNotices does.
LEMMA NoticesInserted ==
  ASSUME ANTypeOK, JobsSound, NEW j \in DOMAIN fanoutJobs, InsertNotices(j)
  PROVE  LET old == fanoutJobs[j]
             job == fanoutJobs'[j]
         IN  /\ OthersStay(j)
             /\ old.at = "active" /\ job.new = NewNotices(old.userIds) /\ job.attempts = old.attempts
             /\ job.at = "emit" \/ (job.at = "over" /\ NewNotices(old.userIds) = {})
             /\ old.userIds \subseteq registered
             /\ notices' = [u \in Member |-> IF u \in job.new THEN "unread" ELSE notices[u]]
             /\ UNCHANGED <<registered, newcomers, audience, broadcasting, offset, emitted,
                            shifted, unreached, unshown>>
<1> DEFINE moved == [fanoutJobs[j] EXCEPT
                        !.at = IF NewNotices(fanoutJobs[j].userIds) = {} THEN "over" ELSE "emit",
                        !.new = NewNotices(fanoutJobs[j].userIds)]
<1>1. Moves(j, moved)
  BY FanoutSteps DEF JobsSound
<1>2. OthersStay(j) /\ fanoutJobs'[j] = moved
  BY <1>1, Moved, JobIn DEF OthersStay, FanoutJob
<1>3. fanoutJobs[j] \in FanoutJob /\ (fanoutJobs[j].at # "over" => fanoutJobs[j].attempts > 0)
  BY JobIn DEF JobsSound, JobSound
<1>4. fanoutJobs[j].at = "active" /\ fanoutJobs[j].userIds \subseteq registered
  BY DEF InsertNotices, StoreNotices
<1>5. fanoutJobs'[j].new = NewNotices(fanoutJobs[j].userIds)
  BY <1>2, <1>3 DEF FanoutJob
<1>6. /\ notices' = [u \in Member |-> IF u \in fanoutJobs'[j].new THEN "unread" ELSE notices[u]]
      /\ UNCHANGED <<registered, newcomers, audience, broadcasting, offset, emitted,
                     shifted, unreached, unshown>>
  BY <1>5 DEF InsertNotices, StoreNotices
<1> QED
  BY <1>2, <1>3, <1>4, <1>5, <1>6 DEF FanoutJob

\* What an attempt that throws does to its job.
LEMMA AttemptThrown ==
  ASSUME ANTypeOK, JobsSound, NEW j \in DOMAIN fanoutJobs, fanoutJobs[j].at = "active", Throw(j)
  PROVE  LET old == fanoutJobs[j]
             job == fanoutJobs'[j]
         IN  /\ OthersStay(j)
             /\ job.new = old.new
             /\ \/ job.at = "over" /\ unreached' = unreached \cup old.userIds
                \/ job.at = "queued" /\ job.attempts > 0 /\ unreached' = unreached
<1> DEFINE moved == [fanoutJobs[j] EXCEPT !.attempts = @ - 1,
                             !.at = IF fanoutJobs[j].attempts = 1 THEN "over" ELSE "queued"]
<1>1. Moves(j, moved)
  BY FanoutSteps DEF JobsSound
<1>2. OthersStay(j) /\ fanoutJobs'[j] = moved
  BY <1>1, Moved, JobIn DEF OthersStay, FanoutJob
<1>3. fanoutJobs[j] \in FanoutJob /\ (fanoutJobs[j].at # "over" => fanoutJobs[j].attempts > 0)
  BY JobIn DEF JobsSound, JobSound
<1>4. /\ fanoutJobs[j].attempts \in 1..FanoutAttempts
      /\ unreached' = IF fanoutJobs[j].attempts = 1
                      THEN unreached \cup fanoutJobs[j].userIds ELSE unreached
  BY <1>3, AnnouncementsAssumption DEF Throw, FanoutJob
<1> QED
  BY <1>2, <1>3, <1>4, AnnouncementsAssumption DEF FanoutJob

\* What FanoutFails does.
LEMMA FanoutFailed ==
  ASSUME ANTypeOK, JobsSound, NEW j \in DOMAIN fanoutJobs, FanoutFails(j)
  PROVE  LET old == fanoutJobs[j]
             job == fanoutJobs'[j]
         IN  /\ OthersStay(j)
             /\ old.at = "active" /\ job.new = old.new
             /\ \/ job.at = "over" /\ unreached' = unreached \cup old.userIds
                \/ job.at = "queued" /\ job.attempts > 0 /\ unreached' = unreached
             /\ UNCHANGED <<registered, newcomers, audience, broadcasting, offset, notices,
                            emitted, shifted, unshown>>
BY AttemptThrown DEF FanoutFails

\* What InsertUnanswered does.
LEMMA UnansweredInsert ==
  ASSUME ANTypeOK, JobsSound, NEW j \in DOMAIN fanoutJobs, InsertUnanswered(j)
  PROVE  LET old == fanoutJobs[j]
             job == fanoutJobs'[j]
             new == NewNotices(old.userIds)
         IN  /\ OthersStay(j)
             /\ old.at = "active" /\ job.new = old.new
             /\ \/ job.at = "over" /\ unreached' = unreached \cup old.userIds
                \/ job.at = "queued" /\ job.attempts > 0 /\ unreached' = unreached
             /\ old.userIds \subseteq registered /\ new \subseteq old.userIds
             /\ notices' = [u \in Member |-> IF u \in new THEN "unread" ELSE notices[u]]
             /\ unshown' = unshown \cup new
             /\ UNCHANGED <<registered, newcomers, audience, broadcasting, offset, emitted, shifted>>
<1>1. fanoutJobs[j].at = "active" /\ Throw(j)
  BY DEF InsertUnanswered, StoreNotices
<1>2. NewNotices(fanoutJobs[j].userIds) \subseteq fanoutJobs[j].userIds
  BY DEF NewNotices
<1>3. /\ fanoutJobs[j].userIds \subseteq registered
      /\ notices' = [u \in Member |-> IF u \in NewNotices(fanoutJobs[j].userIds)
                                      THEN "unread" ELSE notices[u]]
      /\ unshown' = unshown \cup NewNotices(fanoutJobs[j].userIds)
      /\ UNCHANGED <<registered, newcomers, audience, broadcasting, offset, emitted, shifted>>
  BY DEF InsertUnanswered, StoreNotices
<1> QED
  BY <1>1, <1>2, <1>3, AttemptThrown

\* What EmitNotices does.
LEMMA NoticesEmitted ==
  ASSUME ANTypeOK, JobsSound, NEW j \in DOMAIN fanoutJobs, EmitNotices(j)
  PROVE  LET old == fanoutJobs[j]
             job == fanoutJobs'[j]
         IN  /\ OthersStay(j)
             /\ old.at = "emit" /\ job.at = "over" /\ job.new = old.new /\ job.attempts = old.attempts
             /\ emitted' = [u \in Member |-> IF u \in old.new THEN emitted[u] + 1 ELSE emitted[u]]
             /\ UNCHANGED <<registered, newcomers, audience, broadcasting, offset, notices,
                            shifted, unreached, unshown>>
<1> DEFINE moved == [fanoutJobs[j] EXCEPT !.at = "over"]
<1>1. Moves(j, moved)
  BY FanoutSteps DEF JobsSound
<1>2. OthersStay(j) /\ fanoutJobs'[j] = moved
  BY <1>1, Moved, JobIn DEF OthersStay, FanoutJob
<1>3. fanoutJobs[j] \in FanoutJob /\ (fanoutJobs[j].at # "over" => fanoutJobs[j].attempts > 0)
  BY JobIn DEF JobsSound, JobSound
<1>4. /\ emitted' = [u \in Member |-> IF u \in fanoutJobs[j].new THEN emitted[u] + 1
                                                             ELSE emitted[u]]
      /\ UNCHANGED <<registered, newcomers, audience, broadcasting, offset, notices,
                                  shifted, unreached, unshown>>
  BY <1>2 DEF EmitNotices
<1> QED
  BY <1>4, <1>2, <1>3, AnnouncementsAssumption DEF EmitNotices, FanoutJob

\* What FanoutStalls does.
LEMMA FanoutStalled ==
  ASSUME ANTypeOK, JobsSound, NEW j \in DOMAIN fanoutJobs, FanoutStalls(j)
  PROVE  LET old == fanoutJobs[j]
             job == fanoutJobs'[j]
         IN  /\ OthersStay(j)
             /\ old.at \in {"active", "emit"} /\ job.new = {} /\ job.attempts = old.attempts
             /\ \/ job.at = "over" /\ unreached' = unreached \cup old.userIds
                \/ job.at = "queued" /\ unreached' = unreached
             /\ unshown' = unshown \cup old.new
             /\ UNCHANGED <<registered, newcomers, audience, broadcasting, offset, notices,
                            emitted, shifted>>
<1> DEFINE moved == IF fanoutJobs[j].stalls < MaxStalls
                    THEN [fanoutJobs[j] EXCEPT !.at = "queued", !.new = {}, !.stalls = @ + 1]
                    ELSE [fanoutJobs[j] EXCEPT !.at = "over", !.new = {}]
<1>1. Moves(j, moved)
  BY FanoutSteps DEF JobsSound
<1>2. OthersStay(j) /\ fanoutJobs'[j] = moved
  BY <1>1, Moved, JobIn DEF OthersStay, FanoutJob
<1>3. fanoutJobs[j] \in FanoutJob /\ (fanoutJobs[j].at # "over" => fanoutJobs[j].attempts > 0)
  BY JobIn DEF JobsSound, JobSound
<1>4. /\ unshown' = unshown \cup fanoutJobs[j].new
      /\ UNCHANGED <<registered, newcomers, audience, broadcasting, offset, notices,
                                  emitted, shifted>>
  BY <1>2 DEF FanoutStalls
<1> QED
  BY <1>4, <1>2, <1>3, AnnouncementsAssumption DEF FanoutStalls, FanoutJob

\* Each step keeps the types.
LEMMA AnnouncementTypes ==
  ASSUME AnnouncementInv, [ANNext]_announcementVars
  PROVE  ANTypeOK'
<1> USE AnnouncementsAssumption DEF AnnouncementInv, OthersStay, ANTypeOK, NewcomersUntold
<1>1. CASE StartBroadcast
  BY <1>1 DEF StartBroadcast
<1>2. CASE QueuePage
  BY <1>2, PageQueued DEF QueuePage
<1>3. CASE EndBroadcast
  BY <1>3 DEF EndBroadcast
<1>4. ASSUME NEW j \in DOMAIN fanoutJobs, StartFanout(j) PROVE ANTypeOK'
  BY <1>4, FanoutStarted
<1>5. ASSUME NEW j \in DOMAIN fanoutJobs, InsertNotices(j) PROVE ANTypeOK'
  <2>1. NewNotices(fanoutJobs[j].userIds) \subseteq fanoutJobs[j].userIds
    BY DEF NewNotices
  <2> QED
    BY <1>5, <2>1, NoticesInserted
<1>6. ASSUME NEW j \in DOMAIN fanoutJobs, FanoutFails(j) PROVE ANTypeOK'
  BY <1>6, FanoutFailed
<1>7. ASSUME NEW j \in DOMAIN fanoutJobs, EmitNotices(j) PROVE ANTypeOK'
  BY <1>7, NoticesEmitted
<1>8. ASSUME NEW j \in DOMAIN fanoutJobs, FanoutStalls(j) PROVE ANTypeOK'
  BY <1>8, FanoutStalled
<1>9. ASSUME NEW u \in Member, RegisterMember(u) PROVE ANTypeOK'
  BY <1>9 DEF RegisterMember
<1>10. ASSUME NEW u \in Member, DeleteMember(u) PROVE ANTypeOK'
  BY <1>10 DEF DeleteMember
<1>11. ASSUME NEW u \in Member, markAsRead(u) \/ markAsUnread(u) \/ markAllAsRead(u) PROVE ANTypeOK'
  BY <1>11 DEF markAsRead, markAsUnread, markAllAsRead, Mark
<1>12. CASE UNCHANGED announcementVars
  BY <1>12 DEF announcementVars
<1>13. ASSUME NEW j \in DOMAIN fanoutJobs, InsertUnanswered(j) PROVE ANTypeOK'
  <2> DEFINE new == NewNotices(fanoutJobs[j].userIds)
  <2>1. /\ new \subseteq registered /\ new \subseteq Member /\ fanoutJobs[j].userIds \subseteq Member
        /\ notices' = [u \in Member |-> IF u \in new THEN "unread" ELSE notices[u]]
        /\ unshown' = unshown \cup new
        /\ unreached' \in {unreached, unreached \cup fanoutJobs[j].userIds}
        /\ fanoutJobs' \in Seq(FanoutJob)
        /\ UNCHANGED <<registered, newcomers, audience, broadcasting, offset, emitted, shifted>>
    BY <1>13, UnansweredInsert
  <2> HIDE DEF new
  <2>2. /\ notices' \in [Member -> {"none", "unread", "read"}]
        /\ \A u \in Member : notices'[u] # "none" => u \in registered'
    BY <2>1
  <2> QED
    BY <2>1, <2>2
<1> QED
  BY <1>1, <1>2, <1>3, <1>4, <1>5, <1>6, <1>7, <1>8, <1>9, <1>10, <1>11, <1>12, <1>13 DEF ANNext

\* Each step leaves the users who are yet to register untold.
LEMMA NewcomersStep ==
  ASSUME AnnouncementInv, [ANNext]_announcementVars
  PROVE  NewcomersUntold'
<1> USE AnnouncementsAssumption DEF AnnouncementInv, OthersStay, ANTypeOK, NewcomersUntold, Listed
<1>1. CASE StartBroadcast
  BY <1>1 DEF StartBroadcast
<1>2. CASE QueuePage
  <2>1. Page \subseteq registered
    BY DEF Page
  <2> QED
    BY <1>2, <2>1, PageQueued DEF QueuePage
<1>3. CASE EndBroadcast
  BY <1>3 DEF EndBroadcast
<1>4. ASSUME NEW j \in DOMAIN fanoutJobs, StartFanout(j) PROVE NewcomersUntold'
  BY <1>4, FanoutStarted
<1>5. ASSUME NEW j \in DOMAIN fanoutJobs, InsertNotices(j) PROVE NewcomersUntold'
  BY <1>5, NoticesInserted
<1>6. ASSUME NEW j \in DOMAIN fanoutJobs, FanoutFails(j) PROVE NewcomersUntold'
  BY <1>6, FanoutFailed
<1>7. ASSUME NEW j \in DOMAIN fanoutJobs, EmitNotices(j) PROVE NewcomersUntold'
  <2>1. \A u \in newcomers : u \in Member /\ u \notin fanoutJobs[j].new
    BY DEF JobsSound, JobSound
  <2>2. \A u \in newcomers : ~Listed(u)'
    BY <1>7, NoticesEmitted
  <2> QED
    BY <1>7, <2>1, <2>2, NoticesEmitted
<1>8. ASSUME NEW j \in DOMAIN fanoutJobs, FanoutStalls(j) PROVE NewcomersUntold'
  BY <1>8, FanoutStalled
<1>9. ASSUME NEW u \in Member, RegisterMember(u) PROVE NewcomersUntold'
  BY <1>9 DEF RegisterMember
<1>10. ASSUME NEW u \in Member, DeleteMember(u) PROVE NewcomersUntold'
  BY <1>10 DEF DeleteMember
<1>11. ASSUME NEW u \in Member, markAsRead(u) \/ markAsUnread(u) \/ markAllAsRead(u)
       PROVE  NewcomersUntold'
  BY <1>11 DEF markAsRead, markAsUnread, markAllAsRead, Mark
<1>12. CASE UNCHANGED announcementVars
  BY <1>12 DEF announcementVars
<1>13. ASSUME NEW j \in DOMAIN fanoutJobs, InsertUnanswered(j) PROVE NewcomersUntold'
  BY <1>13, UnansweredInsert
<1> QED
  BY <1>1, <1>2, <1>3, <1>4, <1>5, <1>6, <1>7, <1>8, <1>9, <1>10, <1>11, <1>12, <1>13 DEF ANNext

\* A rank is the number of users before one.
LEMMA RankCounts ==
  ASSUME ANTypeOK, NEW u \in Member
  PROVE  Rank(u) = Cardinality(Before(registered, u)) /\ Rank(u) \in Nat
<1>1. registered \in SUBSET Member
  BY DEF ANTypeOK
<1>2. Rank(u) = Cardinality(Before(registered, u))
  BY DEF Rank, Before
<1> QED
  BY <1>1, <1>2, BeforeFinite

\* A step that leaves the users, the pages and the broadcast alone keeps what they cover.
LEMMA PagesStay ==
  ASSUME ANTypeOK, PagesCover, NEW j \in DOMAIN fanoutJobs, OthersStay(j),
         UNCHANGED <<registered, audience, broadcasting, offset, shifted>>
  PROVE  PagesCover'
<1>1. \A u \in Member : Listed(u)' <=> Listed(u)
  BY DEF OthersStay, Listed
<1>2. \A u \in Member : Rank(u)' = Rank(u)
  BY DEF Rank
<1>3. broadcasting # "new"
  BY DEF PagesCover
<1> QED
  BY <1>1, <1>2, <1>3 DEF PagesCover, ANTypeOK

\* Each step keeps the audience on the pages that are queued or ahead of the broadcast.
LEMMA PagesStep ==
  ASSUME AnnouncementInv, [ANNext]_announcementVars
  PROVE  PagesCover'
<1> USE AnnouncementsAssumption DEF AnnouncementInv, OthersStay, ANTypeOK, NewcomersUntold, PagesCover
<1>1. CASE StartBroadcast
  <2>1. offset = 0 /\ \A u \in audience' : u \in Member /\ Rank(u) \in Nat
    BY <1>1, RankCounts DEF StartBroadcast
  <2>2. \A u \in Member : Rank(u)' = Rank(u)
    BY <1>1 DEF StartBroadcast, Rank
  <2> QED
    BY <1>1, <2>1, <2>2 DEF StartBroadcast
<1>2. CASE QueuePage
  <2>1. \A u \in Member : Rank(u)' = Rank(u) /\ Rank(u) \in Nat
    BY <1>2, RankCounts DEF QueuePage, Rank
  <2>2. ASSUME NEW u \in Member, Listed(u) \/ u \in Page PROVE Listed(u)'
    BY <1>2, <2>2, PageQueued DEF Listed
  <2>3. ASSUME NEW u \in registered, u \notin Page, offset <= Rank(u) PROVE offset' <= Rank(u)'
    BY <1>2, <2>1, <2>3 DEF QueuePage, Page
  <2>4. broadcasting' = "paging" /\ UNCHANGED <<registered, audience, shifted, broadcasting>>
    BY <1>2 DEF QueuePage
  <2> QED
    BY <2>2, <2>3, <2>4
<1>3. CASE EndBroadcast
  <2>1. \A u \in Member : (Listed(u)' <=> Listed(u)) /\ Rank(u) \in Nat
    BY <1>3, RankCounts DEF EndBroadcast, Listed
  <2>2. CASE broadcasting' = "answered"
    <3>1. Page = {} /\ broadcasting = "paging"
      BY <1>3, <2>2 DEF EndBroadcast
    <3>2. offset \in Nat /\ FanoutBatchSize \in Nat \ {0}
      OBVIOUS
    <3>3. \A u \in registered : Rank(u) # offset
      BY <2>1, <3>1, <3>2 DEF Page
    <3>4. \A u \in registered : Cardinality(Before(registered, u)) # offset
      BY <3>3, RankCounts
    <3>5. \A u \in registered : Cardinality(Before(registered, u)) < offset
      BY <3>2, <3>4, LastPageEmpty
    <3>6. \A u \in registered : ~ offset <= Rank(u)
      BY <2>1, <3>2, <3>5, RankCounts
    <3> QED
      BY <1>3, <2>1, <2>2, <3>1, <3>6 DEF EndBroadcast
  <2>3. CASE broadcasting' = "failed"
    BY <2>3
  <2> QED
    BY <1>3, <2>2, <2>3 DEF EndBroadcast
<1>4. ASSUME NEW j \in DOMAIN fanoutJobs, StartFanout(j) PROVE PagesCover'
  BY <1>4, FanoutStarted, PagesStay
<1>5. ASSUME NEW j \in DOMAIN fanoutJobs, InsertNotices(j) PROVE PagesCover'
  BY <1>5, NoticesInserted, PagesStay
<1>6. ASSUME NEW j \in DOMAIN fanoutJobs, FanoutFails(j) PROVE PagesCover'
  BY <1>6, FanoutFailed, PagesStay
<1>7. ASSUME NEW j \in DOMAIN fanoutJobs, EmitNotices(j) PROVE PagesCover'
  BY <1>7, NoticesEmitted, PagesStay
<1>8. ASSUME NEW j \in DOMAIN fanoutJobs, FanoutStalls(j) PROVE PagesCover'
  BY <1>8, FanoutStalled, PagesStay
<1>9. ASSUME NEW u \in Member, RegisterMember(u) PROVE PagesCover'
  <2>1. registered' = registered \cup {u}
    BY <1>9 DEF RegisterMember
  <2>2. \A v \in Member : Listed(v)' <=> Listed(v)
    BY <1>9 DEF RegisterMember, Listed
  <2>3. ASSUME NEW v \in Member PROVE Rank(v) \in Nat /\ Rank(v)' \in Nat /\ Rank(v) <= Rank(v)'
    <3>1. ANTypeOK'
      BY AnnouncementTypes
    <3>2. Cardinality(Before(registered, v)) <= Cardinality(Before(registered', v))
      BY <2>1, RegisteringShifts
    <3>3. Rank(v)' = Cardinality(Before(registered', v))
      BY DEF Rank, Before
    <3>4. Cardinality(Before(registered', v)) \in Nat
      BY <2>1, BeforeFinite
    <3> QED
      BY <3>2, <3>3, <3>4, RankCounts
  <2>4. u \notin audience
    BY <1>9 DEF RegisterMember
  <2>5. UNCHANGED <<audience, broadcasting, offset, fanoutJobs, shifted>>
    BY <1>9 DEF RegisterMember
  <2> QED
    BY <2>1, <2>2, <2>3, <2>4, <2>5
<1>10. ASSUME NEW u \in Member, DeleteMember(u) PROVE PagesCover'
  BY <1>10 DEF DeleteMember, Listed, Rank
<1>11. ASSUME NEW u \in Member, markAsRead(u) \/ markAsUnread(u) \/ markAllAsRead(u) PROVE PagesCover'
  BY <1>11 DEF markAsRead, markAsUnread, markAllAsRead, Mark, Listed, Rank
<1>12. CASE UNCHANGED announcementVars
  BY <1>12 DEF announcementVars, Listed, Rank
<1>13. ASSUME NEW j \in DOMAIN fanoutJobs, InsertUnanswered(j) PROVE PagesCover'
  BY <1>13, UnansweredInsert, PagesStay
<1> QED
  BY <1>1, <1>2, <1>3, <1>4, <1>5, <1>6, <1>7, <1>8, <1>9, <1>10, <1>11, <1>12, <1>13 DEF ANNext

\* What a step leaves sound of a job that it does not touch.
LEMMA JobStays ==
  ASSUME ANTypeOK, NEW i \in DOMAIN fanoutJobs, JobSound(fanoutJobs[i]),
         fanoutJobs'[i] = fanoutJobs[i], registered' = registered, unreached \subseteq unreached',
         \A u \in Member : notices[u] # "none" => notices'[u] # "none",
         fanoutJobs[i].at = "emit" =>
           \A u \in fanoutJobs[i].new \cap registered : emitted'[u] = emitted[u]
  PROVE  JobSound(fanoutJobs[i])'
<1>1. fanoutJobs[i].userIds \subseteq Member /\ fanoutJobs[i].new \subseteq Member
  BY JobIn DEF FanoutJob
<1> QED
  BY <1>1 DEF JobSound

\* Each step keeps what has become of the rows of the jobs.
LEMMA JobsStep ==
  ASSUME AnnouncementInv, [ANNext]_announcementVars
  PROVE  JobsSound'
<1>1. CASE StartBroadcast \/ EndBroadcast \/ UNCHANGED announcementVars
  <2>1. UNCHANGED <<registered, fanoutJobs, notices, emitted, unreached>>
    BY <1>1 DEF StartBroadcast, EndBroadcast, announcementVars
  <2> QED
    BY <2>1 DEF AnnouncementInv, JobsSound, JobSound
<1>2. CASE QueuePage
  <2>1. UNCHANGED <<registered, notices, emitted, unreached>>
    BY <1>2 DEF QueuePage
  <2>2. \A i \in DOMAIN fanoutJobs : JobSound(fanoutJobs[i])'
    BY <1>2, <2>1, PageQueued, JobStays DEF AnnouncementInv, JobsSound
  <2>3. PICK last : /\ DOMAIN fanoutJobs' = DOMAIN fanoutJobs \cup {last}
                    /\ fanoutJobs'[last] = [userIds |-> Page, at |-> "queued", new |-> {},
                                            attempts |-> FanoutAttempts, stalls |-> 0]
    BY <1>2, PageQueued DEF AnnouncementInv
  <2>4. JobSound(fanoutJobs[last])'
    BY <2>3, AnnouncementsAssumption DEF JobSound
  <2> QED
    BY <2>2, <2>3, <2>4 DEF JobsSound
<1>3. ASSUME NEW j \in DOMAIN fanoutJobs,
             \/ StartFanout(j) \/ InsertNotices(j) \/ InsertUnanswered(j) \/ FanoutFails(j)
             \/ EmitNotices(j) \/ FanoutStalls(j)
      PROVE  JobsSound'
  <2>1. OthersStay(j) /\ registered' = registered /\ unreached \subseteq unreached'
    <3>1. CASE StartFanout(j)
      BY <3>1, FanoutStarted DEF AnnouncementInv
    <3>2. CASE InsertNotices(j)
      BY <3>2, NoticesInserted DEF AnnouncementInv
    <3>3. CASE FanoutFails(j)
      BY <3>3, FanoutFailed DEF AnnouncementInv
    <3>4. CASE EmitNotices(j)
      BY <3>4, NoticesEmitted DEF AnnouncementInv
    <3>5. CASE FanoutStalls(j)
      BY <3>5, FanoutStalled DEF AnnouncementInv
    <3>6. CASE InsertUnanswered(j)
      BY <3>6, UnansweredInsert DEF AnnouncementInv
    <3> QED
      BY <1>3, <3>1, <3>2, <3>3, <3>4, <3>5, <3>6
  <2>2. \/ notices' = notices
        \/ \E new \in SUBSET Member :
             notices' = [u \in Member |-> IF u \in new THEN "unread" ELSE notices[u]]
    <3>1. CASE InsertNotices(j)
      <4>1. fanoutJobs'[j].new \subseteq Member
        BY <3>1, NoticesInserted DEF AnnouncementInv, NewNotices, OthersStay
      <4> QED
        BY <3>1, <4>1, NoticesInserted DEF AnnouncementInv
    <3>2. CASE InsertUnanswered(j)
      <4>1. NewNotices(fanoutJobs[j].userIds) \subseteq Member
        BY <3>2, UnansweredInsert DEF AnnouncementInv, OthersStay
      <4> QED
        BY <3>2, <4>1, UnansweredInsert DEF AnnouncementInv
    <3> QED
      BY <1>3, <3>1, <3>2 DEF StartFanout, FanoutFails, EmitNotices, FanoutStalls
  <2>3. \A u \in Member : notices[u] # "none" => notices'[u] # "none"
    BY <2>2
  <2>4. ASSUME NEW i \in DOMAIN fanoutJobs, i # j, fanoutJobs[i].at = "emit",
               NEW u \in fanoutJobs[i].new \cap registered
        PROVE  emitted'[u] = emitted[u]
    <3>1. CASE emitted' = emitted
      BY <3>1
    <3>2. CASE EmitNotices(j)
      <4>1. fanoutJobs[j].at = "emit"
        BY <3>2 DEF EmitNotices
      <4>2. u \notin fanoutJobs[j].new /\ u \in Member
        BY <2>4, <4>1 DEF AnnouncementInv, NewOnce, ANTypeOK
      <4> QED
        BY <3>2, <4>2 DEF EmitNotices
    <3> QED
      BY <1>3, <3>1, <3>2 DEF StartFanout, InsertNotices, InsertUnanswered, FanoutFails, FanoutStalls
  <2>5. ASSUME NEW i \in DOMAIN fanoutJobs, i # j PROVE JobSound(fanoutJobs[i])'
    BY <2>1, <2>3, <2>4, <2>5, JobStays DEF AnnouncementInv, JobsSound, OthersStay
  <2>6. JobSound(fanoutJobs[j])'
    <3> DEFINE old == fanoutJobs[j]
               job == fanoutJobs'[j]
    <3>1. old \in FanoutJob /\ JobSound(old) /\ job.userIds = old.userIds
      BY <2>1, JobIn DEF AnnouncementInv, JobsSound, OthersStay
    <3>2. CASE StartFanout(j)
      <4>1. job.new = old.new /\ job.at = "active" /\ job.attempts = old.attempts /\ old.at = "queued"
        BY <3>2, FanoutStarted DEF AnnouncementInv
      <4> QED
        BY <3>1, <4>1 DEF JobSound
    <3>3. CASE InsertNotices(j)
      <4>1. job.new = NewNotices(old.userIds) /\ job.at \in {"emit", "over"} /\ job.attempts =
         old.attempts
            /\ old.at = "active" /\ UNCHANGED <<registered, emitted, unreached>>
        BY <3>3, NoticesInserted DEF AnnouncementInv
      <4>2. \A u \in old.userIds : notices'[u] # "none" /\ (u \in job.new <=> notices[u] = "none")
        <5>1. notices' = [u \in Member |-> IF u \in job.new THEN "unread" ELSE notices[u]]
          BY <3>3, NoticesInserted DEF AnnouncementInv
        <5>2. old.userIds \subseteq Member
          BY <3>1 DEF FanoutJob
        <5> QED
          BY <4>1, <5>1, <5>2 DEF NewNotices
      <4>3. \A u \in job.new \cap registered : emitted[u] = 0
        BY <4>1 DEF NewNotices, AnnouncementInv, NewOnce
      <4>4. job.new \subseteq job.userIds
        BY <3>1, <4>1 DEF NewNotices
      <4> QED
        BY <3>1, <4>1, <4>2, <4>3, <4>4 DEF JobSound
    <3>4. CASE FanoutFails(j)
      <4>1. job.new = old.new /\ UNCHANGED <<registered, notices>>
            /\ \/ job.at = "over" /\ unreached' = unreached \cup old.userIds
               \/ job.at = "queued" /\ job.attempts > 0
        BY <3>4, FanoutFailed DEF AnnouncementInv
      <4> QED
        BY <3>1, <4>1 DEF JobSound
    <3>5. CASE EmitNotices(j)
      <4>1. job.new = old.new /\ job.at = "over" /\ old.at = "emit" /\ UNCHANGED <<registered,
         notices, unreached>>
        BY <3>5, NoticesEmitted DEF AnnouncementInv
      <4> QED
        BY <3>1, <4>1 DEF JobSound
    <3>6. CASE FanoutStalls(j)
      <4>1. job.new = {} /\ job.attempts = old.attempts /\ old.at # "over" /\ UNCHANGED
         <<registered, notices>>
            /\ \/ job.at = "over" /\ unreached' = unreached \cup old.userIds
               \/ job.at = "queued"
        BY <3>6, FanoutStalled DEF AnnouncementInv
      <4> QED
        BY <3>1, <4>1 DEF JobSound
    <3>7. CASE InsertUnanswered(j)
      <4>1. /\ job.new = old.new /\ old.at = "active" /\ UNCHANGED <<registered, emitted>>
            /\ \/ job.at = "over" /\ unreached' = unreached \cup old.userIds
               \/ job.at = "queued" /\ job.attempts > 0
        BY <3>7, UnansweredInsert DEF AnnouncementInv
      <4>2. old.userIds \subseteq Member
        BY <3>1 DEF FanoutJob
      <4> QED
        BY <2>3, <3>1, <4>1, <4>2 DEF JobSound
    <3> QED
      BY <1>3, <3>2, <3>3, <3>4, <3>5, <3>6, <3>7
  <2> QED
    BY <2>1, <2>5, <2>6 DEF JobsSound, OthersStay
<1>4. ASSUME NEW u \in Member, RegisterMember(u) PROVE JobsSound'
  <2>1. fanoutJobs' = fanoutJobs /\ unreached' = unreached /\ notices' = notices /\ emitted' = emitted
    BY <1>4 DEF RegisterMember
  <2>2. registered' = registered \cup {u} /\ ~Listed(u)
    BY <1>4 DEF RegisterMember, AnnouncementInv, NewcomersUntold
  <2> QED
    BY <2>1, <2>2 DEF AnnouncementInv, JobsSound, JobSound, Listed
<1>5. ASSUME NEW u \in Member, DeleteMember(u) PROVE JobsSound'
  <2>1. fanoutJobs' = fanoutJobs /\ unreached' = unreached /\ emitted' = emitted
    BY <1>5 DEF DeleteMember
  <2>2. registered' = registered \ {u} /\ notices' = [notices EXCEPT ![u] = "none"]
    BY <1>5 DEF DeleteMember
  <2>3. \A v \in registered' : notices'[v] = notices[v]
    BY <2>2 DEF AnnouncementInv, ANTypeOK
  <2> QED
    BY <2>1, <2>2, <2>3 DEF AnnouncementInv, JobsSound, JobSound
<1>6. ASSUME NEW u \in Member, markAsRead(u) \/ markAsUnread(u) \/ markAllAsRead(u)
      PROVE  JobsSound'
  <2>1. UNCHANGED <<registered, fanoutJobs, emitted, unreached>>
    BY <1>6 DEF markAsRead, markAsUnread, markAllAsRead, Mark
  <2>2. \A v \in Member : notices'[v] = "none" <=> notices[v] = "none"
    BY <1>6 DEF markAsRead, markAsUnread, markAllAsRead, Mark, AnnouncementInv, ANTypeOK
  <2> QED
    BY <2>1, <2>2, JobStays DEF AnnouncementInv, JobsSound
<1> QED
  BY <1>1, <1>2, <1>3, <1>4, <1>5, <1>6 DEF ANNext

\* Each step keeps a row new to one job.
LEMMA NewStep ==
  ASSUME AnnouncementInv, [ANNext]_announcementVars
  PROVE  NewOnce'
<1> USE AnnouncementsAssumption
         DEF AnnouncementInv, OthersStay, ANTypeOK, NewcomersUntold, JobsSound, JobSound,
             NewOnce, Listed, NewNotices
<1>1. CASE StartBroadcast
  BY <1>1 DEF StartBroadcast
<1>2. CASE QueuePage
  BY <1>2, PageQueued DEF QueuePage
<1>3. CASE EndBroadcast
  BY <1>3 DEF EndBroadcast
<1>4. ASSUME NEW j \in DOMAIN fanoutJobs, StartFanout(j) PROVE NewOnce'
  <2>1. \A i \in DOMAIN fanoutJobs : fanoutJobs'[i].at = "emit" =>
          fanoutJobs[i].at = "emit" /\ fanoutJobs'[i] = fanoutJobs[i]
    BY <1>4, FanoutStarted
  <2> QED
    BY <1>4, <2>1, FanoutStarted
<1>5. ASSUME NEW j \in DOMAIN fanoutJobs, InsertNotices(j) PROVE NewOnce'
  <2>1. \A u \in fanoutJobs'[j].new : notices[u] = "none"
    BY <1>5, NoticesInserted
  <2>2. \A i \in DOMAIN fanoutJobs : i # j /\ fanoutJobs'[i].at = "emit" =>
          /\ fanoutJobs[i].at = "emit" /\ fanoutJobs'[i] = fanoutJobs[i]
          /\ \A u \in fanoutJobs[i].new \cap registered : notices[u] # "none"
    BY <1>5, NoticesInserted
  <2>3. \A u \in registered : notices'[u] = "none" => notices[u] = "none"
    BY <1>5, NoticesInserted
  <2> QED
    BY <1>5, <2>1, <2>2, <2>3, NoticesInserted
<1>6. ASSUME NEW j \in DOMAIN fanoutJobs, FanoutFails(j) PROVE NewOnce'
  BY <1>6, FanoutFailed
<1>7. ASSUME NEW j \in DOMAIN fanoutJobs, EmitNotices(j) PROVE NewOnce'
  <2>1. \A i \in DOMAIN fanoutJobs : fanoutJobs'[i].at = "emit" =>
          fanoutJobs[i].at = "emit" /\ fanoutJobs'[i] = fanoutJobs[i]
    BY <1>7, NoticesEmitted
  <2>2. \A u \in registered : notices[u] = "none" => u \notin fanoutJobs[j].new
    BY <1>7, NoticesEmitted
  <2>3. \A i, k \in DOMAIN fanoutJobs :
          fanoutJobs'[i].at = "emit" /\ fanoutJobs'[k].at = "emit" /\ i # k =>
          fanoutJobs'[i].new \cap fanoutJobs'[k].new \cap registered = {}
    BY <2>1
  <2>4. ASSUME NEW u \in registered, notices[u] = "none" PROVE emitted'[u] = 0
    <3>1. emitted' = [v \in Member |-> IF v \in fanoutJobs[j].new THEN emitted[v] + 1 ELSE emitted[v]]
      BY <1>7, NoticesEmitted
    <3>2. u \in Member /\ emitted[u] = 0 /\ u \notin fanoutJobs[j].new
      BY <2>2, <2>4
    <3> QED
      BY <3>1, <3>2
  <2>5. DOMAIN fanoutJobs' = DOMAIN fanoutJobs /\ registered' = registered /\ notices' = notices
    BY <1>7, NoticesEmitted
  <2> QED
    BY <2>3, <2>4, <2>5
<1>8. ASSUME NEW j \in DOMAIN fanoutJobs, FanoutStalls(j) PROVE NewOnce'
  <2>1. \A i \in DOMAIN fanoutJobs : fanoutJobs'[i].at = "emit" =>
          fanoutJobs[i].at = "emit" /\ fanoutJobs'[i] = fanoutJobs[i]
    BY <1>8, FanoutStalled
  <2>2. UNCHANGED <<registered, notices, emitted>> /\ DOMAIN fanoutJobs' = DOMAIN fanoutJobs
    BY <1>8, FanoutStalled
  <2> QED
    BY <2>1, <2>2
<1>9. ASSUME NEW u \in Member, RegisterMember(u) PROVE NewOnce'
  BY <1>9 DEF RegisterMember
<1>10. ASSUME NEW u \in Member, DeleteMember(u) PROVE NewOnce'
  BY <1>10 DEF DeleteMember
<1>11. ASSUME NEW u \in Member, markAsRead(u) \/ markAsUnread(u) \/ markAllAsRead(u) PROVE NewOnce'
  BY <1>11 DEF markAsRead, markAsUnread, markAllAsRead, Mark
<1>12. CASE UNCHANGED announcementVars
  BY <1>12 DEF announcementVars
<1>13. ASSUME NEW j \in DOMAIN fanoutJobs, InsertUnanswered(j) PROVE NewOnce'
  <2>1. \A i \in DOMAIN fanoutJobs : fanoutJobs'[i].at = "emit" =>
          /\ i # j /\ fanoutJobs[i].at = "emit" /\ fanoutJobs'[i] = fanoutJobs[i]
    BY <1>13, UnansweredInsert
  <2>2. \A u \in registered : notices'[u] = "none" => notices[u] = "none"
    BY <1>13, UnansweredInsert
  <2> QED
    BY <1>13, <2>1, <2>2, UnansweredInsert
<1> QED
  BY <1>1, <1>2, <1>3, <1>4, <1>5, <1>6, <1>7, <1>8, <1>9, <1>10, <1>11, <1>12, <1>13 DEF ANNext

\* Each step emits what is new, once.
LEMMA EmittedStep ==
  ASSUME AnnouncementInv, [ANNext]_announcementVars
  PROVE  EmittedOnce'
<1> USE AnnouncementsAssumption
         DEF AnnouncementInv, OthersStay, ANTypeOK, NewcomersUntold, JobsSound, JobSound,
             NewOnce, EmittedOnce, Listed, NewNotices
<1>1. CASE StartBroadcast
  BY <1>1 DEF StartBroadcast
<1>2. CASE QueuePage
  BY <1>2, PageQueued DEF QueuePage
<1>3. CASE EndBroadcast
  BY <1>3 DEF EndBroadcast
<1>4. ASSUME NEW j \in DOMAIN fanoutJobs, StartFanout(j) PROVE EmittedOnce'
  BY <1>4, FanoutStarted
<1>5. ASSUME NEW j \in DOMAIN fanoutJobs, InsertNotices(j) PROVE EmittedOnce'
  <2>1. ASSUME NEW u \in registered, notices'[u] # "none"
        PROVE  \/ emitted[u] = 1 \/ u \in unshown
               \/ \E i \in DOMAIN fanoutJobs : fanoutJobs'[i].at = "emit" /\ u \in fanoutJobs'[i].new
    <3>1. CASE u \in fanoutJobs'[j].new
      BY <1>5, <3>1, NoticesInserted
    <3>2. CASE u \notin fanoutJobs'[j].new
      <4>1. notices[u] # "none"
        BY <1>5, <2>1, <3>2, NoticesInserted
      <4>2. \A i \in DOMAIN fanoutJobs : fanoutJobs[i].at = "emit" => fanoutJobs'[i] = fanoutJobs[i]
        BY <1>5, NoticesInserted
      <4> QED
        BY <4>1, <4>2
    <3> QED
      BY <3>1, <3>2
  <2> QED
    BY <1>5, <2>1, NoticesInserted
<1>6. ASSUME NEW j \in DOMAIN fanoutJobs, FanoutFails(j) PROVE EmittedOnce'
  BY <1>6, FanoutFailed
<1>7. ASSUME NEW j \in DOMAIN fanoutJobs, EmitNotices(j) PROVE EmittedOnce'
  <2>1. ASSUME NEW u \in registered
        PROVE  /\ emitted'[u] <= 1
               /\ notices[u] # "none" =>
                    \/ emitted'[u] = 1 \/ u \in unshown
                    \/ \E i \in DOMAIN fanoutJobs :
                      fanoutJobs'[i].at = "emit" /\ u \in fanoutJobs'[i].new
    <3>1. CASE u \in fanoutJobs[j].new
      <4>1. emitted[u] = 0
        <5>1. JobSound(fanoutJobs[j]) /\ fanoutJobs[j].at = "emit"
          BY <1>7, NoticesEmitted
        <5> QED
          BY <3>1, <5>1
      <4> QED
        BY <1>7, <3>1, <4>1, NoticesEmitted
    <3>2. CASE u \notin fanoutJobs[j].new
      <4>1. emitted'[u] = emitted[u]
        BY <1>7, <3>2, NoticesEmitted
      <4>2. \A i \in DOMAIN fanoutJobs : i # j => fanoutJobs'[i] = fanoutJobs[i]
        BY <1>7, NoticesEmitted
      <4> QED
        BY <3>2, <4>1, <4>2
    <3> QED
      BY <3>1, <3>2
  <2> QED
    BY <1>7, <2>1, NoticesEmitted
<1>8. ASSUME NEW j \in DOMAIN fanoutJobs, FanoutStalls(j) PROVE EmittedOnce'
  BY <1>8, FanoutStalled
<1>9. ASSUME NEW u \in Member, RegisterMember(u) PROVE EmittedOnce'
  BY <1>9 DEF RegisterMember
<1>10. ASSUME NEW u \in Member, DeleteMember(u) PROVE EmittedOnce'
  BY <1>10 DEF DeleteMember
<1>11. ASSUME NEW u \in Member, markAsRead(u) \/ markAsUnread(u) \/ markAllAsRead(u) PROVE EmittedOnce'
  BY <1>11 DEF markAsRead, markAsUnread, markAllAsRead, Mark
<1>12. CASE UNCHANGED announcementVars
  BY <1>12 DEF announcementVars
<1>13. ASSUME NEW j \in DOMAIN fanoutJobs, InsertUnanswered(j) PROVE EmittedOnce'
  <2>1. ASSUME NEW u \in registered, notices'[u] # "none"
        PROVE  \/ emitted[u] = 1 \/ u \in unshown'
               \/ \E i \in DOMAIN fanoutJobs : fanoutJobs'[i].at = "emit" /\ u \in fanoutJobs'[i].new
    <3>1. u \in unshown' \/ notices[u] # "none"
      BY <1>13, <2>1, UnansweredInsert
    <3>2. \A i \in DOMAIN fanoutJobs : fanoutJobs[i].at = "emit" => fanoutJobs'[i] = fanoutJobs[i]
      BY <1>13, UnansweredInsert
    <3>3. unshown \subseteq unshown'
      BY <1>13, UnansweredInsert
    <3> QED
      BY <3>1, <3>2, <3>3
  <2> QED
    BY <1>13, <2>1, UnansweredInsert
<1> QED
  BY <1>1, <1>2, <1>3, <1>4, <1>5, <1>6, <1>7, <1>8, <1>9, <1>10, <1>11, <1>12, <1>13 DEF ANNext

\* The invariant holds in every reachable state.
LEMMA AnnouncementInvariant == ANSpec => []AnnouncementInv
<1>1. ANInit => AnnouncementInv
  <2> SUFFICES ASSUME ANInit PROVE AnnouncementInv
    OBVIOUS
  <2>1. DOMAIN fanoutJobs = {} /\ fanoutJobs \in Seq(FanoutJob)
    BY DEF ANInit
  <2>2. ANTypeOK
    BY <2>1 DEF ANInit, ANTypeOK
  <2>3. NewcomersUntold
    BY <2>1 DEF ANInit, NewcomersUntold, Listed
  <2>4. PagesCover
    BY DEF ANInit, PagesCover
  <2>5. JobsSound
    BY <2>1 DEF JobsSound
  <2>6. NewOnce /\ EmittedOnce
    BY <2>1 DEF ANInit, NewOnce, EmittedOnce
  <2> QED
    BY <2>2, <2>3, <2>4, <2>5, <2>6 DEF AnnouncementInv
<1>2. AnnouncementInv /\ [ANNext]_announcementVars => AnnouncementInv'
  BY AnnouncementTypes, NewcomersStep, PagesStep, JobsStep, NewStep, EmittedStep
     DEF AnnouncementInv
<1> QED
  BY <1>1, <1>2, PTL DEF ANSpec

\* ANTypeOK: the types of the broadcast, its jobs and the notifications.
THEOREM AnnouncementTypesHold == ANSpec => []ANTypeOK
<1>1. AnnouncementInv => ANTypeOK
  BY DEF AnnouncementInv
<1> QED
  BY <1>1, AnnouncementInvariant, PTL

\* AudienceReached: once the broadcast is answered and its jobs are over, everybody who was a
\* user when it began, and still is, has the announcement, unless users were deleted while it
\* was paging or the job failed for good.
THEOREM AllReached == ANSpec => []AudienceReached
<1>1. AnnouncementInv => AudienceReached
  <2> SUFFICES ASSUME AnnouncementInv, broadcasting = "answered", ~shifted,
                      \A j \in DOMAIN fanoutJobs : fanoutJobs[j].at = "over",
                      NEW u \in (audience \cap registered) \ unreached
               PROVE  notices[u] # "none"
    BY DEF AudienceReached
  <2>1. PICK j \in DOMAIN fanoutJobs : u \in fanoutJobs[j].userIds
    BY DEF AnnouncementInv, PagesCover, Listed
  <2> QED
    BY <2>1 DEF AnnouncementInv, JobsSound, JobSound
<1> QED
  BY <1>1, AnnouncementInvariant, PTL

\* EmittedOnce: a notification is emitted once, whatever pages its user was on and however
\* often their jobs ran, and not at all only if a worker died between insert and emit.
THEOREM EmitsOnce == ANSpec => []EmittedOnce
<1>1. AnnouncementInv => EmittedOnce
  BY DEF AnnouncementInv
<1> QED
  BY <1>1, AnnouncementInvariant, PTL

(***************************************************************************)
(* The refinement of Delivery.                                             *)
(***************************************************************************)

\* A step of the promise, or one that no user sees.
DeliveryStep ==
  Delivery!Next \/ UNCHANGED <<registered, newcomers, broadcasting # "new", notices, Shown>>

\* A job is there only after the broadcast has begun.
LEMMA JobsAreAnnounced ==
  ASSUME AnnouncementInv, NEW j \in DOMAIN fanoutJobs
  PROVE  broadcasting # "new"
BY DEF AnnouncementInv, PagesCover

\* What stays when a step of the broadcast or of a job tells nobody anything.
LEMMA HiddenStep ==
  ASSUME UNCHANGED <<registered, newcomers, broadcasting, notices, emitted>>
  PROVE  DeliveryStep
<1>1. Shown' = Shown
  BY DEF Shown
<1> QED
  BY <1>1 DEF DeliveryStep

\* The insert of a job stores the notices that are new.
LEMMA InsertStores ==
  ASSUME AnnouncementInv, NEW j \in DOMAIN fanoutJobs, InsertNotices(j)
  PROVE  DeliveryStep
<1> DEFINE new == fanoutJobs'[j].new
<1>1. /\ new = NewNotices(fanoutJobs[j].userIds) /\ fanoutJobs[j].userIds \subseteq registered
      /\ notices' = [u \in Member |-> IF u \in new THEN "unread" ELSE notices[u]]
      /\ UNCHANGED <<registered, newcomers, broadcasting, emitted>>
  BY NoticesInserted DEF AnnouncementInv
<1>2. new \subseteq Member /\ \A u \in new : u \in registered /\ notices[u] = "none"
  BY <1>1 DEF NewNotices, AnnouncementInv, ANTypeOK
<1>3. Shown' = Shown
  BY <1>1 DEF Shown
<1> HIDE DEF new
<1>4. Delivery!Store(new)
  BY <1>1, <1>2, <1>3, JobsAreAnnounced DEF Delivery!Store
<1> QED
  BY <1>2, <1>4 DEF DeliveryStep, Delivery!Next

\* An insert without an answer stores them as well.
LEMMA UnansweredStores ==
  ASSUME AnnouncementInv, NEW j \in DOMAIN fanoutJobs, InsertUnanswered(j)
  PROVE  DeliveryStep
<1> DEFINE new == NewNotices(fanoutJobs[j].userIds)
<1>1. /\ fanoutJobs[j].userIds \subseteq registered
      /\ notices' = [u \in Member |-> IF u \in new THEN "unread" ELSE notices[u]]
      /\ UNCHANGED <<registered, newcomers, broadcasting, emitted>>
  BY UnansweredInsert DEF AnnouncementInv
<1>2. new \subseteq Member /\ \A u \in new : u \in registered /\ notices[u] = "none"
  BY <1>1 DEF NewNotices, AnnouncementInv, ANTypeOK
<1>3. Shown' = Shown
  BY <1>1 DEF Shown
<1> HIDE DEF new
<1>4. Delivery!Store(new)
  BY <1>1, <1>2, <1>3, JobsAreAnnounced DEF Delivery!Store
<1> QED
  BY <1>2, <1>4 DEF DeliveryStep, Delivery!Next

\* The emits of a job show them to those who are still there.
LEMMA EmitShows ==
  ASSUME AnnouncementInv, NEW j \in DOMAIN fanoutJobs, EmitNotices(j)
  PROVE  DeliveryStep
<1> DEFINE us == fanoutJobs[j].new \cap registered
<1>1. /\ fanoutJobs[j].at = "emit"
      /\ emitted' = [u \in Member |-> IF u \in fanoutJobs[j].new THEN emitted[u] + 1 ELSE emitted[u]]
      /\ UNCHANGED <<registered, newcomers, broadcasting, notices>>
  BY NoticesEmitted DEF AnnouncementInv
<1>2. us \subseteq Member /\ \A u \in us : u \in registered /\ notices[u] # "none" /\ emitted[u] = 0
  BY <1>1 DEF AnnouncementInv, JobsSound, JobSound, ANTypeOK
<1>3. \A u \in us : Shown[u] = 0
  BY <1>2 DEF Shown
<1>4. ASSUME NEW u \in Member
      PROVE  (IF u \in registered THEN emitted'[u] ELSE 0) = IF u \in us THEN 1 ELSE Shown[u]
  <2>1. CASE u \in us
    BY <1>1, <1>2, <2>1
  <2>2. CASE u \in registered \ us
    BY <1>1, <2>2 DEF Shown
  <2>3. CASE u \notin registered
    BY <2>3 DEF Shown
  <2> QED
    BY <2>1, <2>2, <2>3
<1>5. Shown' = [u \in Member |-> IF u \in us THEN 1 ELSE Shown[u]]
  BY <1>1, <1>4 DEF Shown
<1> HIDE DEF us
<1>6. Delivery!Show(us)
  BY <1>1, <1>2, <1>3, <1>5 DEF Delivery!Show
<1> QED
  BY <1>2, <1>6 DEF DeliveryStep, Delivery!Next

\* Users come, go and mark.
LEMMA UsersStep ==
  ASSUME AnnouncementInv, NEW u \in Member,
         \/ RegisterMember(u) \/ DeleteMember(u)
         \/ markAsRead(u) \/ markAsUnread(u) \/ markAllAsRead(u)
  PROVE  DeliveryStep
<1>1. CASE RegisterMember(u)
  <2>1. emitted[u] = 0 /\ u \notin registered
    BY <1>1 DEF RegisterMember, AnnouncementInv, NewcomersUntold, ANTypeOK
  <2>2. Shown' = Shown
    BY <1>1, <2>1 DEF RegisterMember, Shown
  <2>3. Delivery!Join(u)
    BY <1>1, <2>2 DEF RegisterMember, Delivery!Join
  <2> QED
    BY <2>3 DEF DeliveryStep, Delivery!Next
<1>2. CASE DeleteMember(u)
  <2>1. Shown' = [Shown EXCEPT ![u] = 0]
    BY <1>2 DEF DeleteMember, Shown
  <2>2. Delivery!Leave(u)
    BY <1>2, <2>1 DEF DeleteMember, Delivery!Leave
  <2> QED
    BY <2>2 DEF DeliveryStep, Delivery!Next
<1>3. ASSUME NEW from \in SUBSET {"unread", "read"}, NEW to \in {"unread", "read"}, Mark(u, from, to)
      PROVE  DeliveryStep
  <2>1. Shown' = Shown
    BY <1>3 DEF Mark, Shown
  <2>2. Delivery!MarkAs(u, to)
    BY <1>3, <2>1 DEF Mark, Delivery!MarkAs
  <2> QED
    BY <2>2 DEF DeliveryStep, Delivery!Next
<1>4. CASE markAsRead(u) \/ markAsUnread(u) \/ markAllAsRead(u)
  BY <1>3, <1>4 DEF markAsRead, markAsUnread, markAllAsRead
<1> QED
  BY <1>1, <1>2, <1>4

(***************************************************************************)
(* Every step of the broadcast, of a job or of a user is one of the        *)
(* promise, or hidden.                                                     *)
(***************************************************************************)
LEMMA StepOfDelivery ==
  ASSUME AnnouncementInv, [ANNext]_announcementVars
  PROVE  DeliveryStep
<1>1. CASE StartBroadcast
  <2>1. Shown' = Shown
    BY <1>1 DEF StartBroadcast, Shown
  <2>2. Delivery!Announce
    BY <1>1, <2>1 DEF StartBroadcast, Delivery!Announce
  <2> QED
    BY <2>2 DEF DeliveryStep, Delivery!Next
<1>2. CASE QueuePage
  BY <1>2, HiddenStep DEF QueuePage
<1>3. CASE EndBroadcast
  <2>1. Shown' = Shown
    BY <1>3 DEF EndBroadcast, Shown
  <2>2. broadcasting # "new" /\ broadcasting' # "new"
    BY <1>3 DEF EndBroadcast
  <2> QED
    BY <1>3, <2>1, <2>2 DEF EndBroadcast, DeliveryStep
<1>4. ASSUME NEW j \in DOMAIN fanoutJobs, StartFanout(j) \/ FanoutFails(j) \/ FanoutStalls(j)
      PROVE  DeliveryStep
  BY <1>4, HiddenStep DEF StartFanout, FanoutFails, FanoutStalls
<1>5. ASSUME NEW j \in DOMAIN fanoutJobs, InsertNotices(j) \/ InsertUnanswered(j) \/ EmitNotices(j)
      PROVE  DeliveryStep
  BY <1>5, InsertStores, UnansweredStores, EmitShows
<1>6. CASE UNCHANGED announcementVars
  BY <1>6, HiddenStep DEF announcementVars
<1> QED
  BY <1>1, <1>2, <1>3, <1>4, <1>5, <1>6, UsersStep DEF ANNext

(***************************************************************************)
(* The broadcast, its jobs and the marks implement Delivery: whatever      *)
(* pages overlap and jobs are run again, each user is sent one             *)
(* announcement, which is stored once and shown at most once.              *)
(***************************************************************************)
THEOREM AnnouncementsImplement == ANSpec => ImplementsDelivery
<1>1. ANInit => Delivery!Init
  <2> SUFFICES ASSUME ANInit PROVE Delivery!Init
    OBVIOUS
  <2>1. Shown = [u \in Member |-> 0]
    BY DEF ANInit, Shown
  <2> QED
    BY <2>1 DEF ANInit, Delivery!Init
<1>2. AnnouncementInv /\ [ANNext]_announcementVars =>
        [Delivery!Next]_<<registered, newcomers, broadcasting # "new", notices, Shown>>
  BY StepOfDelivery DEF DeliveryStep
<1> QED
  BY <1>1, <1>2, AnnouncementInvariant, PTL
     DEF ANSpec, ImplementsDelivery, Delivery!Spec, Delivery!vars

(***************************************************************************)
(* What Delivery promises, it keeps: who is shown the announcement has its *)
(* notice, which only goes with its user.                                  *)
(***************************************************************************)
Promised == /\ notices \in [Member -> {"none", "unread", "read"}]
            /\ Delivery!ShownIsStored

LEMMA PromiseHolds == Delivery!Spec => []Promised
<1>1. Delivery!Init => Promised
  BY DEF Delivery!Init, Promised, Delivery!ShownIsStored
<1>2. Promised /\ [Delivery!Next]_Delivery!vars => Promised'
  <2> SUFFICES ASSUME Promised, [Delivery!Next]_Delivery!vars
               PROVE  Promised'
    OBVIOUS
  <2> USE DEF Promised, Delivery!ShownIsStored
  <2>1. CASE Delivery!Announce
    BY <2>1 DEF Delivery!Announce
  <2>2. ASSUME NEW us \in SUBSET Member, Delivery!Store(us) PROVE Promised'
    BY <2>2 DEF Delivery!Store
  <2>3. ASSUME NEW us \in SUBSET Member, Delivery!Show(us) PROVE Promised'
    BY <2>3 DEF Delivery!Show
  <2>4. ASSUME NEW u \in Member, NEW mark \in {"unread", "read"}, Delivery!MarkAs(u, mark)
        PROVE  Promised'
    BY <2>4 DEF Delivery!MarkAs
  <2>5. ASSUME NEW u \in Member, Delivery!Join(u) PROVE Promised'
    BY <2>5 DEF Delivery!Join
  <2>6. ASSUME NEW u \in Member, Delivery!Leave(u) PROVE Promised'
    <3>1. Shown = [v \in Member |-> Shown[v]]
      BY DEF Shown
    <3> QED
      BY <2>6, <3>1 DEF Delivery!Leave
  <2>7. CASE UNCHANGED Delivery!vars
    BY <2>7 DEF Delivery!vars
  <2> QED
    BY <2>1, <2>2, <2>3, <2>4, <2>5, <2>6, <2>7 DEF Delivery!Next
<1> QED
  BY <1>1, <1>2, PTL DEF Delivery!Spec

(***************************************************************************)
(* So the fan-out keeps it as well: nobody is shown the announcement twice *)
(* or without a notice, by any of the jobs.                                *)
(***************************************************************************)
THEOREM ShownStaysStored == ANSpec => []Delivery!ShownIsStored
<1>1. Promised => Delivery!ShownIsStored
  BY DEF Promised
<1> QED
  BY <1>1, AnnouncementsImplement, PromiseHolds, PTL DEF ImplementsDelivery

-----------------------------------------------------------------------------
(***************************************************************************)
(* Conversions.                                                            *)
(***************************************************************************)

(***************************************************************************)
(* What is converted is among what was asked for, so that there is no more *)
(* of it, and neither is more than there are trails.                       *)
(***************************************************************************)
LEMMA AnswerBounded ==
  ASSUME NEW sources \in SUBSET Trail, NEW conversions \in SUBSET Trail
  PROVE  Bounded([sources |-> Cardinality(sources),
                  conversions |-> Cardinality(Converted(sources, conversions))])
<1> DEFINE converted == Converted(sources, conversions)
           total == Cardinality(Trail)
           sought == Cardinality(sources)
           leading == Cardinality(converted)
<1>1. converted \subseteq sources /\ converted \subseteq Trail
  BY DEF Converted
<1>2. IsFiniteSet(Trail) /\ IsFiniteSet(sources) /\ IsFiniteSet(converted)
  BY <1>1, ConversionsAssumption, FS_Subset
<1>3. total \in Nat /\ sought \in Nat /\ leading \in Nat
  BY <1>2, FS_CardinalityType
<1>4. sought <= total /\ leading <= total /\ leading <= sought
  BY <1>1, <1>2, FS_Subset
<1> HIDE DEF total, sought, leading
<1>5. sought \in 0..total /\ leading \in 0..total
  BY <1>3, <1>4
<1>6. Bounded([sources |-> sought, conversions |-> leading])
  BY <1>4, <1>5 DEF Bounded, Stats, total
<1> QED
  BY <1>6 DEF sought, leading

(***************************************************************************)
(* Every step keeps the types; the answer of the statistics, which is made *)
(* from two queries at two moments, keeps its bound.                       *)
(***************************************************************************)
LEMMA ConversionsKept ==
  ASSUME CVTypeOK, [CVNext]_conversionVars
  PROVE  CVTypeOK'
<1> DEFINE Trails == {"new", "cacheWith", "cacheWithout", "mailed", "with", "without"}
           Events == [kind : Kind, id : Trail]
           Asked == [at : {"idle", "both", "conversions", "sources", "answer"},
                     sources : SUBSET Trail, conversions : SUBSET Trail]
<1> USE DEF CVTypeOK, Bounded, Stats
<1>1. ASSUME NEW t \in Trail, NEW from, NEW to \in Trails, Follow(t, from, to)
      PROVE  trail' \in [Trail -> Trails]
  BY <1>1 DEF Follow
<1>2. ASSUME NEW t \in Trail, NEW kind \in Kind, Emit(kind, t) PROVE recording' \subseteq Events
  BY <1>2 DEF Emit
<1>3. ASSUME NEW t \in Trail, searchFromCache(t) PROVE CVTypeOK'
  <2>1. searchCache \in Trails
    BY <1>3 DEF searchFromCache
  <2>2. trail' \in [Trail -> Trails]
    BY <1>1, <1>3, <2>1 DEF searchFromCache
  <2>3. recording' \subseteq Events
    BY <1>2, <1>3 DEF searchFromCache, Kind
  <2> QED
    BY <1>3, <2>2, <2>3 DEF searchFromCache
<1>4. ASSUME NEW t \in Trail, searchProfiles(t) PROVE CVTypeOK'
  <2>1. trail' \in [Trail -> Trails]
    BY <1>1, <1>4 DEF searchProfiles
  <2>2. recording' \subseteq Events
    BY <1>2, <1>4 DEF searchProfiles, Kind
  <2> QED
    BY <1>4, <2>1, <2>2 DEF searchProfiles
<1>5. ASSUME NEW t \in Trail, CacheResults(t) PROVE CVTypeOK'
  BY <1>1, <1>5 DEF CacheResults
<1>6. ASSUME NEW t \in Trail, ViewFromSearch(t) PROVE CVTypeOK'
  BY <1>2, <1>6 DEF ViewFromSearch, Kind
<1>7. ASSUME NEW t \in Trail, QueueInvite(t) PROVE CVTypeOK'
  BY <1>1, <1>7 DEF QueueInvite
<1>8. ASSUME NEW t \in Trail, handleInviteSent(t) PROVE CVTypeOK'
  BY <1>1, <1>2, <1>8 DEF handleInviteSent, Kind
<1>9. ASSUME NEW t \in Trail, handleInviteClaimed(t) PROVE CVTypeOK'
  BY <1>2, <1>9 DEF handleInviteClaimed, Kind
<1>10. ASSUME NEW event \in recording, RecordOrLose(event) PROVE CVTypeOK'
  <2>1. recording' \subseteq Events /\ recorded' \subseteq Events
    BY <1>10 DEF RecordOrLose
  <2> QED
    BY <1>10, <2>1 DEF RecordOrLose
<1>11. CASE SearchCacheExpires \/ VisibilityChanges \/ TimeGoesBy
  BY <1>11 DEF SearchCacheExpires, VisibilityChanges, TimeGoesBy
<1>12. CASE AskStats
  BY <1>12 DEF AskStats
<1>13. CASE QueryStats
  <2>1. ASSUME NEW kind PROVE InRange(kind) \in SUBSET Trail
    BY DEF InRange
  <2>2. ASSUME NEW ids \in SUBSET Trail, NEW at \in {"conversions", "sources", "answer"}
        PROVE  /\ [asked EXCEPT !.sources = ids, !.at = at] \in Asked
               /\ [asked EXCEPT !.conversions = ids, !.at = at] \in Asked
    OBVIOUS
  <2>3. asked' \in Asked
    <3>1. PICK ids \in SUBSET Trail, at \in {"conversions", "sources", "answer"} :
            \/ asked' = [asked EXCEPT !.sources = ids, !.at = at]
            \/ asked' = [asked EXCEPT !.conversions = ids, !.at = at]
      <4>1. InRange("source") \in SUBSET Trail /\ InRange("conversion") \in SUBSET Trail
        BY <2>1
      <4>2. asked' = [asked EXCEPT !.sources = InRange("source"),
                                   !.at = IF asked.at = "both" THEN "conversions" ELSE "answer"]
            \/ asked' = [asked EXCEPT !.conversions = InRange("conversion"),
                                      !.at = IF asked.at = "both" THEN "sources" ELSE "answer"]
        BY <1>13 DEF QueryStats
      <4> QED
        BY <4>1, <4>2, Zenon
    <3>2. /\ [asked EXCEPT !.sources = ids, !.at = at] \in Asked
          /\ [asked EXCEPT !.conversions = ids, !.at = at] \in Asked
      BY <2>2
    <3> QED
      BY <3>1, <3>2, Zenon
  <2> QED
    BY <1>13, <2>3 DEF QueryStats
<1>14. CASE AnswerStats
  <2>1. asked.sources \in SUBSET Trail /\ asked.conversions \in SUBSET Trail
    OBVIOUS
  <2>2. statsCache' = NoStats \/ Bounded(statsCache)'
    BY <1>14, <2>1, AnswerBounded DEF AnswerStats
  <2> QED
    BY <1>14, <2>2 DEF AnswerStats, NotAsked
<1>15. CASE StatsFail
  BY <1>15 DEF StatsFail, NotAsked
<1>16. CASE UNCHANGED conversionVars
  BY <1>16 DEF conversionVars
<1> QED
  BY <1>3, <1>4, <1>5, <1>6, <1>7, <1>8, <1>9, <1>10, <1>11, <1>12, <1>13, <1>14, <1>15, <1>16
     DEF CVNext

(***************************************************************************)
(* getConversionStats: the types hold, and the figures in the cache never  *)
(* have more conversions than sources, however searches, visits, lost      *)
(* events and the two queries interleave: conversion_rate stays within 0   *)
(* and 1.                                                                  *)
(***************************************************************************)
THEOREM RatesBounded == CVSpec => []CVTypeOK
<1>1. CVInit => CVTypeOK
  BY DEF CVInit, CVTypeOK, NotAsked
<1> QED
  BY <1>1, ConversionsKept, PTL DEF CVSpec

-----------------------------------------------------------------------------
(***************************************************************************)
(* Passwords.                                                              *)
(***************************************************************************)

\* A request that has begun a sign-in has no session yet.
OneSessionEach == \A s \in AuthCall : sessions[s] # "none" => authPc[s] = "done"

(***************************************************************************)
(* What makes PasswordChangeSignsOut inductive: the sign-ins that are      *)
(* still going to save their session must be known as well as those that   *)
(* have one.                                                               *)
(***************************************************************************)
OldOnesKnown ==
  unrevoked \/ (\E c \in AuthCall : authPc[c] = "revoke")
  \/ \A s \in AuthCall :
       (sessions[s] # "none" \/ authPc[s] \in {"state", "delete", "save"})
       /\ since[s] < password => s \in underWay

PasswordInv == PWTypeOK /\ OneSessionEach /\ OldOnesKnown

\* Nobody has signed in and nothing has been changed yet.
LEMMA PasswordInit == PWInit => PasswordInv
<1> SUFFICES ASSUME PWInit PROVE PasswordInv
  OBVIOUS
<1>1. PWTypeOK
  <2>1. password \in 0..MaxChanges /\ since \in [AuthCall -> 0..MaxChanges]
    BY PasswordsAssumption DEF PWInit
  <2>2. stateOf \in [AuthCall -> OauthState]
    BY DEF PWInit
  <2> QED  BY <2>1, <2>2 DEF PWInit, PWTypeOK
<1>2. OneSessionEach
  BY DEF PWInit, OneSessionEach
<1>3. OldOnesKnown
  BY DEF PWInit, OldOnesKnown
<1> QED  BY <1>1, <1>2, <1>3 DEF PasswordInv

\* Every step of a sign-in, a change, a refresh, and every failure keeps the types.
LEMMA PasswordTypes == PWTypeOK /\ [PWNext]_passwordVars => PWTypeOK'
<1> SUFFICES ASSUME PWTypeOK, [PWNext]_passwordVars PROVE PWTypeOK'
  OBVIOUS
<1> USE PasswordsAssumption DEF PWTypeOK, AuthStep, BeginAuth
<1>1. ASSUME NEW c \in AuthCall,
             \/ loginVerified(c) \/ validateGoogleUser(c) \/ consumeOauthState(c)
             \/ DeleteOauthState(c) \/ SaveSession(c)
      PROVE PWTypeOK'
  <2>1. CASE loginVerified(c)  BY <2>1 DEF loginVerified
  <2>2. CASE validateGoogleUser(c)  BY <2>2 DEF validateGoogleUser
  <2>3. CASE consumeOauthState(c)  BY <2>3 DEF consumeOauthState
  <2>4. CASE DeleteOauthState(c)  BY <2>4 DEF DeleteOauthState
  <2>5. CASE SaveSession(c)  BY <2>5 DEF SaveSession
  <2> QED  BY <1>1, <2>1, <2>2, <2>3, <2>4, <2>5
<1>2. ASSUME NEW c \in AuthCall,
             \/ changePassword(c) \/ resetPassword(c) \/ updatePassword(c)
             \/ invalidateAllRefreshTokens(c) \/ AuthFails(c)
      PROVE PWTypeOK'
  <2>1. CASE changePassword(c)  BY <2>1 DEF changePassword
  <2>2. CASE resetPassword(c)  BY <2>2 DEF resetPassword
  <2>3. CASE updatePassword(c)  BY <2>3 DEF updatePassword
  <2>4. CASE invalidateAllRefreshTokens(c)  BY <2>4 DEF invalidateAllRefreshTokens
  <2>5. CASE AuthFails(c)  BY <2>5 DEF AuthFails
  <2> QED  BY <1>2, <2>1, <2>2, <2>3, <2>4, <2>5
<1>3. ASSUME NEW s \in AuthCall,
             BeginRenewal(s) \/ EndRenewal(s) \/ RenewalFails(s) \/ EndSession(s)
      PROVE PWTypeOK'
  BY <1>3 DEF BeginRenewal, EndRenewal, RenewalFails, EndSession, SessionStep
<1>4. ASSUME NEW s \in OauthState, createOauthState(s) \/ OauthStateExpires(s)
      PROVE PWTypeOK'
  BY <1>4 DEF createOauthState, OauthStateExpires
<1>5. CASE ResetTokenChanges
  BY <1>5 DEF ResetTokenChanges
<1>6. CASE UNCHANGED passwordVars
  BY <1>6 DEF passwordVars
<1> QED  BY <1>1, <1>2, <1>3, <1>4, <1>5, <1>6 DEF PWNext

\* A session is saved by a request that is then done, and touched by no other.
LEMMA SessionsOfDone ==
  PasswordInv /\ [PWNext]_passwordVars => OneSessionEach'
<1> SUFFICES ASSUME PasswordInv, [PWNext]_passwordVars PROVE OneSessionEach'
  OBVIOUS
<1> USE DEF PasswordInv, PWTypeOK, OneSessionEach, AuthStep, BeginAuth
<1>1. ASSUME NEW c \in AuthCall,
             \/ loginVerified(c) \/ validateGoogleUser(c) \/ consumeOauthState(c)
             \/ DeleteOauthState(c) \/ changePassword(c) \/ resetPassword(c)
             \/ updatePassword(c) \/ AuthFails(c)
      PROVE OneSessionEach'
  <2>1. sessions' = sessions /\ authPc[c] # "done" /\ \E l : authPc' = [authPc EXCEPT ![c] = l]
    BY <1>1 DEF loginVerified, validateGoogleUser, consumeOauthState, DeleteOauthState,
                changePassword, resetPassword, updatePassword, AuthFails
  <2> QED  BY <2>1
<1>2. ASSUME NEW c \in AuthCall, SaveSession(c) PROVE OneSessionEach'
  BY <1>2 DEF SaveSession
<1>3. ASSUME NEW c \in AuthCall, invalidateAllRefreshTokens(c) PROVE OneSessionEach'
  BY <1>3 DEF invalidateAllRefreshTokens
<1>4. ASSUME NEW s \in AuthCall,
             BeginRenewal(s) \/ EndRenewal(s) \/ RenewalFails(s) \/ EndSession(s)
      PROVE OneSessionEach'
  BY <1>4 DEF BeginRenewal, EndRenewal, RenewalFails, EndSession, SessionStep
<1>5. ASSUME NEW s \in OauthState, createOauthState(s) \/ OauthStateExpires(s)
      PROVE OneSessionEach'
  BY <1>5 DEF createOauthState, OauthStateExpires
<1>6. CASE ResetTokenChanges \/ UNCHANGED passwordVars
  BY <1>6 DEF ResetTokenChanges, passwordVars
<1> QED  BY <1>1, <1>2, <1>3, <1>4, <1>5, <1>6 DEF PWNext

\* A step that begins no revocation and forgets none makes no old session that
\* was not known, be it saved, renewed or only on its way.
LEMMA OldOnesStayKnown ==
  PasswordInv /\ [PWNext]_passwordVars => OldOnesKnown'
<1> SUFFICES ASSUME PasswordInv, [PWNext]_passwordVars PROVE OldOnesKnown'
  OBVIOUS
<1> USE PasswordsAssumption DEF PasswordInv, PWTypeOK, OneSessionEach, OldOnesKnown, AuthStep, BeginAuth
<1>1. ASSUME NEW c \in AuthCall,
             \/ loginVerified(c) \/ validateGoogleUser(c) \/ changePassword(c) \/ resetPassword(c)
      PROVE OldOnesKnown'
  <2>1. /\ authPc[c] = "new" /\ since' = [since EXCEPT ![c] = password]
        /\ \E l : authPc' = [authPc EXCEPT ![c] = l]
        /\ UNCHANGED <<password, sessions, underWay, unrevoked>>
    BY <1>1 DEF loginVerified, validateGoogleUser, changePassword, resetPassword
  <2>2. \A s \in AuthCall : s # c => since'[s] = since[s] /\ authPc'[s] = authPc[s]
    BY <2>1
  <2>3. ~(since'[c] < password')
    BY <2>1
  <2> QED  BY <2>1, <2>2, <2>3
<1>2. ASSUME NEW c \in AuthCall, consumeOauthState(c) \/ DeleteOauthState(c)
      PROVE OldOnesKnown'
  BY <1>2 DEF consumeOauthState, DeleteOauthState
<1>3. ASSUME NEW c \in AuthCall, SaveSession(c) PROVE OldOnesKnown'
  BY <1>3 DEF SaveSession
<1>4. ASSUME NEW c \in AuthCall, updatePassword(c) PROVE OldOnesKnown'
  BY <1>4 DEF updatePassword
<1>5. ASSUME NEW c \in AuthCall, invalidateAllRefreshTokens(c) PROVE OldOnesKnown'
  BY <1>5 DEF invalidateAllRefreshTokens
<1>6. ASSUME NEW c \in AuthCall, AuthFails(c) PROVE OldOnesKnown'
  BY <1>6 DEF AuthFails
<1>7. ASSUME NEW s \in AuthCall,
             BeginRenewal(s) \/ EndRenewal(s) \/ RenewalFails(s) \/ EndSession(s)
      PROVE OldOnesKnown'
  BY <1>7 DEF BeginRenewal, EndRenewal, RenewalFails, EndSession, SessionStep
<1>8. ASSUME NEW s \in OauthState, createOauthState(s) \/ OauthStateExpires(s)
      PROVE OldOnesKnown'
  BY <1>8 DEF createOauthState, OauthStateExpires
<1>9. CASE ResetTokenChanges \/ UNCHANGED passwordVars
  BY <1>9 DEF ResetTokenChanges, passwordVars
<1> QED  BY <1>1, <1>2, <1>3, <1>4, <1>5, <1>6, <1>7, <1>8, <1>9 DEF PWNext

LEMMA PasswordInductive == PasswordInv /\ [PWNext]_passwordVars => PasswordInv'
BY PasswordTypes, SessionsOfDone, OldOnesStayKnown DEF PasswordInv

\* In every reachable state sign-ins, changes and sessions have their types
\* (part of TypesOK).
THEOREM PasswordTypesHold == PWSpec => []PWTypeOK
<1>1. PasswordInv => PWTypeOK  BY DEF PasswordInv
<1> QED  BY PasswordInit, PasswordInductive, <1>1, PTL DEF PWSpec

\* PasswordChangeSignsOut: whatever sign-ins, changes and resets of changePassword
\* and resetPassword overlap, a session from before the last change is one whose
\* sign-in or refresh the DELETE of the rows has met on its way.
THEOREM ChangeSignsOut == PWSpec => []PasswordChangeSignsOut
<1>1. PasswordInv => PasswordChangeSignsOut
  BY DEF PasswordInv, OldOnesKnown, PasswordChangeSignsOut
<1> QED  BY PasswordInit, PasswordInductive, <1>1, PTL DEF PWSpec

(***************************************************************************)
(* Rate limits.                                                            *)
(***************************************************************************)

\* What has been let through has been counted.
ServedCounted == served.redis <= hits /\ served.memory <= entryCount

\* The counter expires, or it is known who was to see to it.
WillLift ==
  hits > 0 => hitsExpire \/ unexpiring \/ \E c \in LimitedCall : guardPc[c] = "expire"

LimitInv ==
  /\ RLTypeOK /\ ServedCounted /\ WillLift
  /\ served.redis <= MaxAttempts /\ served.memory <= FallbackLimit

\* No counter has begun yet when a guard is first asked.
LEMMA LimitInit == RLInit => LimitInv
<1> SUFFICES ASSUME RLInit PROVE LimitInv
  OBVIOUS
<1>1. served = [redis |-> 0, memory |-> 0] /\ hits = 0 /\ entryCount = 0
  BY DEF RLInit
<1>2. served \in [redis : Nat, memory : Nat] /\ served.redis = 0 /\ served.memory = 0
  BY <1>1
<1>3. hitsExpire \in BOOLEAN /\ entryOver \in BOOLEAN /\ unexpiring \in BOOLEAN
  BY DEF RLInit
<1>4. guardPc \in [LimitedCall -> {"idle", "expire", "fallback"}]
  BY DEF RLInit
<1> QED
  BY <1>1, <1>2, <1>3, <1>4, LimitsAssumption DEF LimitInv, RLTypeOK, ServedCounted, WillLift

\* Each command of the limiter, each failure, and time keep the invariant.
LEMMA LimitInductive == LimitInv /\ [RLNext]_limitVars => LimitInv'
<1> SUFFICES ASSUME LimitInv, [RLNext]_limitVars PROVE LimitInv'
  OBVIOUS
<1> USE LimitsAssumption DEF LimitInv, RLTypeOK, ServedCounted, WillLift, GuardGoTo
<1>1. ASSUME NEW c \in LimitedCall, isAllowed(c) PROVE LimitInv'
  <2>1. hits' = hits + 1 /\ hits' \in 0..MaxHits
    BY <1>1 DEF isAllowed
  <2>2. served' = [redis |-> IF hits' <= MaxAttempts THEN served.redis + 1 ELSE served.redis,
                   memory |-> served.memory]
    BY <1>1 DEF isAllowed
  <2>3. ServedCounted' /\ served'.redis <= MaxAttempts /\ served'.memory <= FallbackLimit
        /\ served' \in [redis : Nat, memory : Nat]
    BY <1>1, <2>1, <2>2 DEF isAllowed
  <2>4. WillLift'
    <3>1. CASE hits = 0
      BY <1>1, <2>1, <3>1 DEF isAllowed, SetsExpiry
    <3>2. CASE hits > 0
      BY <1>1, <2>1, <3>2 DEF isAllowed, SetsExpiry
    <3> QED  BY <3>1, <3>2
  <2> QED  BY <1>1, <2>1, <2>3, <2>4 DEF isAllowed
<1>2. ASSUME NEW c \in LimitedCall, Expire(c) PROVE LimitInv'
  <2>1. hitsExpire' = (hits > 0) /\ hits' = hits
    BY <1>2 DEF Expire
  <2>2. hitsExpire' \in BOOLEAN
    BY <2>1
  <2>3. WillLift'
    BY <2>1
  <2> QED  BY <1>2, <2>2, <2>3 DEF Expire
<1>3. ASSUME NEW c \in LimitedCall, LimiterFails(c) PROVE LimitInv'
  <2>1. CASE guardPc[c] = "idle"
    <3>1. /\ hits' \in {hits, hits + 1} /\ hits' \in 0..MaxHits
          /\ unexpiring' = (unexpiring \/ hits' = 1) /\ hitsExpire' = hitsExpire
      BY <1>3, <2>1 DEF LimiterFails
    <3>2. unexpiring' \in BOOLEAN
      BY <3>1
    <3>3. WillLift'
      <4>1. CASE hits' = 1
        BY <3>1, <4>1
      <4>2. CASE hits' # 1 /\ hits' > 0
        <5>1. hits > 0
          BY <3>1, <4>2
        <5>2. CASE hitsExpire \/ unexpiring
          BY <3>1, <5>2
        <5>3. ASSUME NEW d \in LimitedCall, guardPc[d] = "expire" PROVE WillLift'
          BY <1>3, <2>1, <5>3 DEF LimiterFails
        <5> QED  BY <5>1, <5>2, <5>3
      <4> QED  BY <3>1, <4>1, <4>2
    <3>4. ServedCounted' /\ served' = served
      BY <1>3, <3>1 DEF LimiterFails
    <3> QED  BY <1>3, <3>1, <3>2, <3>3, <3>4 DEF LimiterFails
  <2>2. CASE guardPc[c] = "expire"
    <3>1. /\ hits' = hits /\ hitsExpire' \in {hitsExpire, hits > 0}
          /\ unexpiring' = (unexpiring \/ (hits > 0 /\ ~hitsExpire'))
      BY <1>3, <2>2 DEF LimiterFails
    <3>2. unexpiring' \in BOOLEAN /\ hitsExpire' \in BOOLEAN
      <4>1. (hits > 0) \in BOOLEAN
        OBVIOUS
      <4> QED  BY <3>1, <4>1, Zenon
    <3>3. WillLift'
      BY <3>1, <3>2
    <3> QED  BY <1>3, <3>1, <3>2, <3>3 DEF LimiterFails
  <2> QED  BY <1>3, <2>1, <2>2 DEF LimiterFails
<1>4. ASSUME NEW c \in LimitedCall, UseFallback(c) PROVE LimitInv'
  <2>1. entryCount' = (IF entryOver THEN 1 ELSE entryCount + 1) /\ entryCount' \in 0..MaxHits
    BY <1>4 DEF UseFallback
  <2>2. served' = [redis |-> served.redis,
                   memory |-> IF entryOver THEN 1 ELSE IF entryCount' <= FallbackLimit
                              THEN served.memory + 1 ELSE served.memory]
    BY <1>4 DEF UseFallback
  <2>3. ServedCounted' /\ served'.redis <= MaxAttempts /\ served'.memory <= FallbackLimit
        /\ served' \in [redis : Nat, memory : Nat]
    BY <1>4, <2>1, <2>2 DEF UseFallback
  <2>4. WillLift'
    BY <1>4 DEF UseFallback
  <2> QED  BY <1>4, <2>1, <2>3, <2>4 DEF UseFallback
<1>5. CASE LimiterDies
  <2>1. unexpiring' = (unexpiring \/ (hits > 0 /\ ~hitsExpire)) /\ UNCHANGED <<hits, hitsExpire>>
    BY <1>5 DEF LimiterDies
  <2>2. unexpiring' \in BOOLEAN /\ WillLift'
    BY <2>1
  <2>3. served' = [redis |-> served.redis, memory |-> 0]
    BY <1>5 DEF LimiterDies
  <2>4. guardPc' \in [LimitedCall -> {"idle", "expire", "fallback"}]
    BY <1>5 DEF LimiterDies
  <2>5. RLTypeOK'
    <3>1. served' \in [redis : Nat, memory : Nat]
      BY <2>3
    <3>2. entryCount' \in 0..MaxHits /\ entryOver' \in BOOLEAN
      <4>1. entryCount' = 0 /\ entryOver' = FALSE
        BY <1>5 DEF LimiterDies
      <4>2. 0 \in 0..MaxHits
        OBVIOUS
      <4> QED  BY <4>1, <4>2, Zenon
    <3>3. hits' \in 0..MaxHits /\ hitsExpire' \in BOOLEAN
      BY <1>5 DEF LimiterDies
    <3> QED  BY <2>2, <2>4, <3>1, <3>2, <3>3, Zenon
  <2> QED  BY <1>5, <2>2, <2>3, <2>5 DEF LimiterDies
<1>6. CASE DropCounter
  <2>1. served' = [redis |-> 0, memory |-> served.memory]
    BY <1>6 DEF DropCounter
  <2>2. RLTypeOK'
    <3>1. served' \in [redis : Nat, memory : Nat]
      BY <2>1
    <3>2. hits' \in 0..MaxHits /\ hitsExpire' \in BOOLEAN /\ unexpiring' \in BOOLEAN
      <4>1. 0 \in 0..MaxHits
        OBVIOUS
      <4> QED  BY <1>6, <4>1, Zenon DEF DropCounter
    <3>3. /\ guardPc' \in [LimitedCall -> {"idle", "expire", "fallback"}]
          /\ entryCount' \in 0..MaxHits /\ entryOver' \in BOOLEAN
      BY <1>6, Zenon DEF DropCounter
    <3> QED  BY <3>1, <3>2, <3>3, Zenon
  <2>3. ServedCounted' /\ WillLift' /\ served'.redis = 0 /\ served'.memory = served.memory
    BY <1>6, <2>1 DEF DropCounter
  <2> QED  BY <2>2, <2>3
<1>7. CASE EntryRunsOut
  BY <1>7 DEF EntryRunsOut
<1>8. CASE UNCHANGED limitVars
  BY <1>8 DEF limitVars
<1> QED  BY <1>1, <1>2, <1>3, <1>4, <1>5, <1>6, <1>7, <1>8 DEF RLNext

\* In every reachable state the counter, the guard's entry and the awaits have
\* their types (part of TypesOK).
THEOREM LimitTypes == RLSpec => []RLTypeOK
<1>1. LimitInv => RLTypeOK  BY DEF LimitInv
<1> QED  BY LimitInit, LimitInductive, <1>1, PTL DEF RLSpec

\* LimitHoldsAndLifts: RateLimiterService and the guard's fallback never let
\* through more than their limits, and the counter's EXPIRE is never forgotten
\* but by the death or the failure of the one request that owes it.
THEOREM LimitCorrect == RLSpec => []LimitHoldsAndLifts
<1>1. LimitInv => LimitHoldsAndLifts
  BY DEF LimitInv, WillLift, LimitHoldsAndLifts
<1> QED  BY LimitInit, LimitInductive, <1>1, PTL DEF RLSpec

-----------------------------------------------------------------------------
(***************************************************************************)
(* The services as they are run, one at a time.                            *)
(***************************************************************************)

\* A step of the run is one of its service, and of each other one none.
LEMMA StepsOfServices ==
  ASSUME [MCNext]_<<part, sectionVars, eventVars, linkVars, inviteVars, announcementVars,
                    waitlistVars, passwordVars, limitVars, conversionVars>>
  PROVE  /\ [PSNext]_sectionVars /\ [EVNext]_eventVars /\ [LKNext]_linkVars
         /\ [IVNext]_inviteVars /\ [ANNext]_announcementVars /\ [WLNext]_waitlistVars
         /\ [PWNext]_passwordVars /\ [RLNext]_limitVars /\ [CVNext]_conversionVars
BY DEF MCNext

(***************************************************************************)
(* The services have nothing in common, so that what is proved of each of  *)
(* them holds of the specification that is run.                            *)
(***************************************************************************)
THEOREM ServicesCompose ==
  MCSpec => /\ PSSpec /\ EVSpec /\ LKSpec /\ IVSpec /\ ANSpec
            /\ WLSpec /\ PWSpec /\ RLSpec /\ CVSpec
<1>1. MCInit => /\ PSInit /\ EVInit /\ LKInit /\ IVInit /\ ANInit
                /\ WLInit /\ PWInit /\ RLInit /\ CVInit
  BY DEF MCInit
<1> QED
  BY <1>1, StepsOfServices, PTL
     DEF MCSpec, PSSpec, EVSpec, LKSpec, IVSpec, ANSpec, WLSpec, PWSpec, RLSpec, CVSpec

(***************************************************************************)
(* The types of all services, as the run composes them.                    *)
(***************************************************************************)
THEOREM ServicesTypesHold == MCSpec => []TypesOK
<1>1. PSTypeOK /\ EVTypeOK /\ LKTypeOK /\ IVTypeOK /\ ANTypeOK /\ WLTypeOK
      /\ PWTypeOK /\ RLTypeOK /\ CVTypeOK => TypesOK
  BY DEF TypesOK
<1> QED
  BY <1>1, ServicesCompose, SectionTypesHold, EventTypesHold, LinkTypes, InviteTypesHold,
     AnnouncementTypesHold, WaitlistTypesHold, PasswordTypesHold, LimitTypes, RatesBounded, PTL
=============================================================================
