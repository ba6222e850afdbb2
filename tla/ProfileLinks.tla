---------------------------- MODULE ProfileLinks ----------------------------
(***************************************************************************)
(* EventsService.validateProfileLink: the links of one profile, cached for *)
(* five minutes under profile:links:<name>, behind a lock of five seconds  *)
(* that keeps other checks from querying the database as well.  Links are  *)
(* the version of the published content they were taken from.              *)
(***************************************************************************)
EXTENDS Naturals

CONSTANTS
  LinkCheck,   \* clicks that are checked, each for ever anew
  LinkPolls,   \* bound of the loop that waits for the cache
  MaxVersions, \* bound: publishes
  NoLinks      \* the key is not set

ASSUME LinksAssumption ==
  /\ LinkPolls \in Nat \ {0} /\ MaxVersions \in Nat
  /\ NoLinks \notin 0..MaxVersions

Version == 0..MaxVersions

VARIABLES
  published,  \* version of the published content
  publishing, \* a publish has committed and not yet deleted the key
  linkCache,  \* version in the cache
  linkLock,   \* whether the lock's key is set
  linkPc,     \* the await each check is at
  poll,       \* its round of waiting
  linkRead,   \* the version it has read
  lapsed      \* a lock has expired or Redis has failed under a fill still going on

linkVars == <<published, publishing, linkCache, linkLock, linkPc, poll, linkRead, lapsed>>

LinkPcs == {"idle", "lock", "wait", "query", "fill", "unlock"}

LKTypeOK ==
  /\ published \in Version
  /\ publishing \in BOOLEAN
  /\ linkCache \in Version \cup {NoLinks}
  /\ linkLock \in BOOLEAN
  /\ linkPc \in [LinkCheck -> LinkPcs]
  /\ poll \in [LinkCheck -> 0..LinkPolls - 1]
  /\ linkRead \in [LinkCheck -> Version]
  /\ lapsed \in BOOLEAN

LKInit ==
  /\ published = 0
  /\ publishing = FALSE
  /\ linkCache = NoLinks
  /\ linkLock = FALSE
  /\ linkPc = [c \in LinkCheck |-> "idle"]
  /\ poll = [c \in LinkCheck |-> 0]
  /\ linkRead = [c \in LinkCheck |-> 0]
  /\ lapsed = FALSE

\* The lock is for them alone: they query and fill.
Filling(c) == linkPc[c] \in {"query", "fill", "unlock"}
Fillers == {c \in LinkCheck : Filling(c)}

LinkGoTo(c, label) == linkPc' = [linkPc EXCEPT ![c] = label]

LinkAnswer(c) ==
  /\ LinkGoTo(c, "idle")
  /\ poll' = [poll EXCEPT ![c] = 0]
  /\ linkRead' = [linkRead EXCEPT ![c] = 0]

\* The excuse of a lapsed lock ends when nobody fills.
SettleLapse == lapsed' = (lapsed /\ Fillers' # {})

\* GET of the key; a hit is answered at once and changes nothing.
LookUp(c) ==
  /\ linkPc[c] = "idle" /\ linkCache = NoLinks
  /\ LinkGoTo(c, "lock")
  /\ UNCHANGED <<published, publishing, linkCache, linkLock, poll, linkRead, lapsed>>

\* Mutant: the lock is set without NX.
TakeLinkLockAlways(c) ==
  /\ linkPc[c] = "lock"
  /\ linkLock' = TRUE /\ LinkGoTo(c, "query")
  /\ UNCHANGED <<published, publishing, linkCache, poll, linkRead, lapsed>>

\* SET NX EX of the lock.
TakeLinkLock(c) ==
  /\ linkPc[c] = "lock"
  /\ linkLock' = TRUE
  /\ LinkGoTo(c, IF linkLock THEN "wait" ELSE "query")
  /\ UNCHANGED <<published, publishing, linkCache, poll, linkRead, lapsed>>

\* 100 ms later the cache is looked up again; after the last time the database
\* answers, and nothing is cached.
PollLinks(c) ==
  /\ linkPc[c] = "wait"
  /\ IF linkCache = NoLinks /\ poll[c] + 1 < LinkPolls
     THEN poll' = [poll EXCEPT ![c] = @ + 1] /\ UNCHANGED <<linkPc, linkRead>>
     ELSE LinkAnswer(c)
  /\ UNCHANGED <<published, publishing, linkCache, linkLock, lapsed>>

\* resolveFromDb by the check that holds the lock.
ReadLinks(c) ==
  /\ linkPc[c] = "query"
  /\ linkRead' = [linkRead EXCEPT ![c] = published]
  /\ LinkGoTo(c, "fill")
  /\ UNCHANGED <<published, publishing, linkCache, linkLock, poll, lapsed>>

\* SET EX of the key.
FillLinks(c) ==
  /\ linkPc[c] = "fill"
  /\ linkCache' = linkRead[c]
  /\ LinkGoTo(c, "unlock")
  /\ UNCHANGED <<published, publishing, linkLock, poll, linkRead, lapsed>>

\* DEL of the lock, whoever holds it by now.
ReleaseLinkLock(c) ==
  /\ linkPc[c] = "unlock"
  /\ linkLock' = FALSE
  /\ LinkAnswer(c)
  /\ SettleLapse
  /\ UNCHANGED <<published, publishing, linkCache>>

\* Redis or the query fails.  The lock is deleted if it was taken, which may
\* fail too, and then the database answers; the command may have been carried out.
LinkCheckFails(c) ==
  /\ linkPc[c] # "idle"
  /\ linkLock' \in IF Filling(c) THEN {linkLock, FALSE}
                   ELSE IF linkPc[c] = "lock" THEN {linkLock, TRUE} ELSE {linkLock}
  /\ linkCache' \in IF linkPc[c] = "fill" THEN {linkCache, linkRead[c]} ELSE {linkCache}
  /\ LinkAnswer(c)
  /\ SettleLapse
  /\ UNCHANGED <<published, publishing>>

LinkLockExpires ==
  /\ linkLock
  /\ linkLock' = FALSE
  /\ lapsed' = (lapsed \/ Fillers # {})
  /\ UNCHANGED <<published, publishing, linkCache, linkPc, poll, linkRead>>

LinkCacheExpires ==
  /\ linkCache # NoLinks
  /\ linkCache' = NoLinks
  /\ UNCHANGED <<published, publishing, linkLock, linkPc, poll, linkRead, lapsed>>

\* publishProfile commits new content, then deletes the key, which may fail.
PublishLinks ==
  \/ /\ ~publishing /\ published < MaxVersions
     /\ published' = published + 1 /\ publishing' = TRUE
     /\ UNCHANGED linkCache
  \/ /\ publishing /\ publishing' = FALSE
     /\ linkCache' \in {NoLinks, linkCache}
     /\ UNCHANGED published

LKNext ==
  \/ \E c \in LinkCheck :
       \/ LookUp(c) \/ TakeLinkLock(c) \/ PollLinks(c) \/ ReadLinks(c)
       \/ FillLinks(c) \/ ReleaseLinkLock(c) \/ LinkCheckFails(c)
  \/ LinkLockExpires \/ LinkCacheExpires
  \/ PublishLinks /\ UNCHANGED <<linkLock, linkPc, poll, linkRead, lapsed>>

LKSpec == LKInit /\ [][LKNext]_linkVars

(***************************************************************************)
(* Properties.                                                             *)
(***************************************************************************)

(***************************************************************************)
(* One check at a time queries the links and fills the key, until a lock   *)
(* expires under a fill that is still going on: its finally then deletes   *)
(* the lock of another, and any number may fill, until all are done.       *)
(***************************************************************************)
OneFiller == ~lapsed => \A c, d \in Fillers : c = d
=============================================================================
