------------------------------ MODULE Waitlist ------------------------------
(***************************************************************************)
(* One address asks for the waitlist several times: WaitlistService adds   *)
(* an entry and queues its mail, or takes the entry back; the worker of    *)
(* WaitlistEmailProcessor mails and marks it.  An entry and its job have   *)
(* the name of the request that made them.                                 *)
(***************************************************************************)
EXTENDS Naturals, FiniteSets

CONSTANTS
  WaitlistCall,     \* requests, each made once
  WelcomeAttempts,  \* attempts of a job
  NoEntry

ASSUME WaitlistAssumption ==
  /\ WelcomeAttempts \in Nat \ {0}
  /\ NoEntry \notin WaitlistCall

VARIABLES
  waiting,     \* the row with the address, or NoEntry
  emailSent,   \* its column
  asking,      \* the await each request is at
  welcomeJobs, \* each job's attempts left, and where its worker is with which entry
  welcomes,    \* mails that each job has sent
  doubted,     \* jobs that queue.add reported as failed
  resent,      \* jobs whose worker failed after it had sent the mail
  dropped      \* requests that died before the mail was queued or the entry taken back

waitlistVars == <<waiting, emailSent, asking, welcomeJobs, welcomes, doubted, resent, dropped>>

NoJob == [left |-> 0, at |-> "queued", entry |-> NoEntry]

WLTypeOK ==
  /\ waiting \in WaitlistCall \cup {NoEntry}
  /\ emailSent \in BOOLEAN /\ (waiting = NoEntry => ~emailSent)
  /\ asking \in [WaitlistCall -> {"new", "create", "queue", "undo", "answered", "failed"}]
  /\ welcomeJobs \in [WaitlistCall -> [left : 0..WelcomeAttempts, at : {"queued", "send", "find", "save"},
                                       entry : WaitlistCall \cup {NoEntry}]]
  /\ welcomes \in [WaitlistCall -> 0..WelcomeAttempts]
  /\ doubted \subseteq WaitlistCall /\ resent \subseteq WaitlistCall /\ dropped \subseteq WaitlistCall

WLInit ==
  /\ waiting = NoEntry /\ emailSent = FALSE
  /\ asking = [c \in WaitlistCall |-> "new"]
  /\ welcomeJobs = [c \in WaitlistCall |-> NoJob]
  /\ welcomes = [c \in WaitlistCall |-> 0]
  /\ doubted = {} /\ resent = {} /\ dropped = {}

Ask(c, from, to) == asking[c] = from /\ asking' = [asking EXCEPT ![c] = to]

(***************************************************************************)
(* addToWaitlist.                                                          *)
(***************************************************************************)
\* Mutant: an address that is there already is queued once more.
findExistingQueues(c) ==
  /\ IF waiting = NoEntry THEN Ask(c, "new", "create") ELSE Ask(c, "new", "queue")
  /\ UNCHANGED <<waiting, emailSent, welcomeJobs, welcomes, doubted, resent, dropped>>

findExisting(c) ==
  /\ Ask(c, "new", IF waiting = NoEntry THEN "create" ELSE "answered")
  /\ UNCHANGED <<waiting, emailSent, welcomeJobs, welcomes, doubted, resent, dropped>>

\* The email is unique: a request that comes second gets a conflict.
createEntry(c) ==
  /\ IF waiting = NoEntry
     THEN Ask(c, "create", "queue") /\ waiting' = c
     ELSE Ask(c, "create", "failed") /\ UNCHANGED waiting
  /\ UNCHANGED <<emailSent, welcomeJobs, welcomes, doubted, resent, dropped>>

AddWelcome(c) ==
  welcomeJobs' = [welcomeJobs EXCEPT ![c] = [left |-> WelcomeAttempts, at |-> "queued",
                                             entry |-> NoEntry]]

\* queue.add; if it throws, the job may have been added all the same.
QueueWelcome(c) ==
  /\ \/ Ask(c, "queue", "answered") /\ AddWelcome(c) /\ UNCHANGED doubted
     \/ Ask(c, "queue", "undo") /\ UNCHANGED <<welcomeJobs, doubted>>
     \/ Ask(c, "queue", "undo") /\ AddWelcome(c) /\ doubted' = doubted \cup {c}
  /\ UNCHANGED <<waiting, emailSent, welcomes, resent, dropped>>

deleteById(c) ==
  /\ Ask(c, "undo", "failed")
  /\ waiting' = IF waiting = c THEN NoEntry ELSE waiting
  /\ emailSent' = IF waiting = c THEN FALSE ELSE emailSent
  /\ UNCHANGED <<welcomeJobs, welcomes, doubted, resent, dropped>>

\* A query throws or the process dies.
AskFails(c) ==
  /\ asking[c] \in {"new", "create", "queue", "undo"}
  /\ asking' = [asking EXCEPT ![c] = "failed"]
  /\ dropped' = IF asking[c] \in {"queue", "undo"} THEN dropped \cup {c} ELSE dropped
  /\ UNCHANGED <<waiting, emailSent, welcomeJobs, welcomes, doubted, resent>>

(***************************************************************************)
(* WaitlistEmailProcessor.process.                                         *)
(***************************************************************************)
Worker(j, label, e) ==
  welcomeJobs' = [welcomeJobs EXCEPT ![j] = [left |-> welcomeJobs[j].left, at |-> label, entry |-> e]]

\* The attempt has failed; it counts as resent if the mail had been sent.
AttemptFails(j) ==
  /\ welcomeJobs' = [welcomeJobs EXCEPT ![j] = [left |-> welcomeJobs[j].left - 1, at |-> "queued",
                                                  entry |-> NoEntry]]
  /\ resent' = IF welcomeJobs[j].at \in {"find", "save"} THEN resent \cup {j} ELSE resent

\* findByEmail: whichever entry the address has now.
FindAddress(j) ==
  /\ welcomeJobs[j].left > 0 /\ welcomeJobs[j].at = "queued"
  /\ IF waiting = NoEntry THEN AttemptFails(j) ELSE Worker(j, "send", waiting) /\ UNCHANGED resent
  /\ UNCHANGED <<waiting, emailSent, asking, welcomes, doubted, dropped>>

\* The entry's emailSent is not asked for.
SendWelcome(j) ==
  /\ welcomeJobs[j].at = "send"
  /\ welcomes' = [welcomes EXCEPT ![j] = @ + 1]
  /\ Worker(j, "find", welcomeJobs[j].entry)
  /\ UNCHANGED <<waiting, emailSent, asking, doubted, resent, dropped>>

\* markEmailSent reads the entry by its id.
findToMark(j) ==
  /\ welcomeJobs[j].at = "find"
  /\ IF waiting = welcomeJobs[j].entry THEN Worker(j, "save", waiting) /\ UNCHANGED resent
                                       ELSE AttemptFails(j)
  /\ UNCHANGED <<waiting, emailSent, asking, welcomes, doubted, dropped>>

\* save(): the row is updated, or inserted again if it has gone.
markEmailSent(j) ==
  /\ welcomeJobs[j].at = "save"
  /\ IF waiting \in {NoEntry, welcomeJobs[j].entry}
     THEN /\ waiting' = welcomeJobs[j].entry /\ emailSent' = TRUE
          /\ welcomeJobs' = [welcomeJobs EXCEPT ![j] = NoJob]
          /\ UNCHANGED resent
     ELSE AttemptFails(j) /\ UNCHANGED <<waiting, emailSent>>
  /\ UNCHANGED <<asking, welcomes, doubted, dropped>>

\* A query or the mail fails, the worker dies, or the mail's answer is lost.
WelcomeFails(j) ==
  /\ welcomeJobs[j].at # "queued"
  /\ AttemptFails(j)
  /\ UNCHANGED <<waiting, emailSent, asking, welcomes, doubted, dropped>>

WLNext ==
  \E c \in WaitlistCall :
    \/ findExisting(c) \/ createEntry(c) \/ QueueWelcome(c) \/ deleteById(c) \/ AskFails(c)
    \/ FindAddress(c) \/ SendWelcome(c) \/ findToMark(c) \/ markEmailSent(c) \/ WelcomeFails(c)

WLSpec == WLInit /\ [][WLNext]_waitlistVars

(***************************************************************************)
(* Properties.                                                             *)
(***************************************************************************)
(***************************************************************************)
(* An address that asks any number of times is welcomed by one job, and    *)
(* that job mails it once; it is mailed again only if a worker failed      *)
(* between the mail and the mark, as emailSent is not asked for, or if a   *)
(* job was added that its request took for failed.                         *)
(***************************************************************************)
WelcomedOnce ==
  /\ \A j \in WaitlistCall \ resent : welcomes[j] <= 1
  /\ doubted = {} => \A i, j \in WaitlistCall : welcomes[i] > 0 /\ welcomes[j] > 0 => i = j
=============================================================================
