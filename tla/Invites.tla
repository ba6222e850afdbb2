------------------------------ MODULE Invites ------------------------------
(***************************************************************************)
(* InvitesService for one inviter and one address: createInvite from       *)
(* several tabs, the mail with the link, clicks on it, the claim that      *)
(* verifyOtp makes, and the notification of the inviter.  An invite's id   *)
(* also stands for its token.                                              *)
(***************************************************************************)
EXTENDS Naturals

CONSTANTS
  InviteTab,   \* the inviter's tabs, each with one request at a time
  InviteId,
  MailAttempts, \* attempts of the mail's job
  NoInvite     \* there is no row with this id

InviteRow(claimed, expired, clicked) ==
  [claimed |-> claimed, expired |-> expired, clicked |-> clicked]
Invite == [claimed : BOOLEAN, expired : BOOLEAN, clicked : BOOLEAN]

ASSUME InvitesAssumption ==
  /\ MailAttempts \in Nat \ {0}
  /\ NoInvite \notin Invite /\ NoInvite \notin InviteId

VARIABLES
  invites,   \* the table
  tab,       \* where each request is, and the invite it is about
  mailJobs,  \* attempts left of each invite's job, or 0
  linksOut,  \* invites whose link has been mailed
  clicking,  \* clicks that have found their invite not clicked yet
  toNotify,  \* claims whose notification is still to be inserted
  notified,  \* invites with an INVITE_CLAIMED notification
  unsure,    \* invites whose enqueueing failed although the job was added
  unmailed   \* invites left without a mail by a crash, an error or the last attempt

inviteVars == <<invites, tab, mailJobs, linksOut, clicking, toNotify, notified,
                unsure, unmailed>>
requestState == <<clicking, toNotify, notified>>

IVTypeOK ==
  /\ invites \in [InviteId -> {NoInvite} \cup Invite]
  /\ tab \in [InviteTab -> [at : {"idle", "replace", "insert", "enqueue", "undo"},
                            id : {NoInvite} \cup InviteId]]
  /\ mailJobs \in [InviteId -> 0..MailAttempts]
  /\ linksOut \subseteq InviteId
  /\ clicking \subseteq InviteId
  /\ toNotify \subseteq InviteId
  /\ notified \subseteq InviteId
  /\ unsure \subseteq InviteId
  /\ unmailed \subseteq InviteId

NoRequest == [at |-> "idle", id |-> NoInvite]

IVInit ==
  /\ invites = [i \in InviteId |-> NoInvite]
  /\ tab = [s \in InviteTab |-> NoRequest]
  /\ mailJobs = [i \in InviteId |-> 0]
  /\ linksOut = {} /\ clicking = {} /\ toNotify = {} /\ notified = {}
  /\ unsure = {} /\ unmailed = {}

Existing(i) == invites[i] # NoInvite
PendingInvite(i) == Existing(i) /\ ~invites[i].claimed
InviteRequest(s, label, i) == tab' = [tab EXCEPT ![s] = [at |-> label, id |-> i]]
InviteAnswered(s) == tab' = [tab EXCEPT ![s] = NoRequest]
DeleteInvite(i) == invites' = [invites EXCEPT ![i] = NoInvite]

(***************************************************************************)
(* createInvite.                                                           *)
(***************************************************************************)
\* Mutant: claimed invites are looked at as well.
ReplaceableAny(i) == Existing(i) /\ invites[i].expired

Replaceable(i) == PendingInvite(i) /\ invites[i].expired

\* The findOne: a pending invite that has not expired is a conflict.
FindExisting(s) ==
  /\ tab[s] = NoRequest
  /\ \/ \E i \in InviteId : Replaceable(i) /\ InviteRequest(s, "replace", i)
     \/ (\A i \in InviteId : ~PendingInvite(i)) /\ InviteRequest(s, "insert", NoInvite)
  /\ UNCHANGED <<invites, mailJobs, linksOut, requestState, unsure, unmailed>>

DeleteExpired(s) ==
  /\ tab[s].at = "replace"
  /\ DeleteInvite(tab[s].id)
  /\ InviteRequest(s, "insert", NoInvite)
  /\ UNCHANGED <<mailJobs, linksOut, requestState, unsure, unmailed>>

\* A uuid that nothing else has.
Fresh(i) ==
  /\ ~Existing(i) /\ mailJobs[i] = 0 /\ i \notin linksOut \cup unsure \cup unmailed
  /\ \A s \in InviteTab : tab[s].id # i

\* The INSERT, which IDX_invites_pending_inviter_recipient refuses while there
\* is a pending row.
InsertInvite(s) ==
  /\ tab[s].at = "insert"
  /\ IF \E i \in InviteId : PendingInvite(i)
     THEN InviteAnswered(s) /\ UNCHANGED invites
     ELSE \E i \in InviteId :
            /\ Fresh(i)
            /\ invites' = [invites EXCEPT ![i] = InviteRow(FALSE, FALSE, FALSE)]
            /\ InviteRequest(s, "enqueue", i)
  /\ UNCHANGED <<mailJobs, linksOut, requestState, unsure, unmailed>>

AddMailJob(i) == mailJobs' = [mailJobs EXCEPT ![i] = MailAttempts]

\* Mutant: what addJob throws is swallowed.
EnqueueInviteSilently(s) ==
  /\ tab[s].at = "enqueue"
  /\ mailJobs' \in {mailJobs, [mailJobs EXCEPT ![tab[s].id] = MailAttempts]}
  /\ InviteAnswered(s)
  /\ UNCHANGED <<invites, linksOut, requestState, unsure, unmailed>>

\* addJob.  If it throws, the job may have been added all the same.
EnqueueInvite(s) ==
  /\ tab[s].at = "enqueue"
  /\ LET i == tab[s].id
     IN  \/ AddMailJob(i) /\ InviteAnswered(s) /\ UNCHANGED unsure
         \/ UNCHANGED <<mailJobs, unsure>> /\ InviteRequest(s, "undo", i)
         \/ AddMailJob(i) /\ unsure' = unsure \cup {i} /\ InviteRequest(s, "undo", i)
  /\ UNCHANGED <<invites, linksOut, requestState, unmailed>>

UndoInvite(s) ==
  /\ tab[s].at = "undo"
  /\ DeleteInvite(tab[s].id)
  /\ InviteAnswered(s)
  /\ UNCHANGED <<mailJobs, linksOut, requestState, unsure, unmailed>>

\* A query throws or the process dies.
InviteFails(s) ==
  /\ tab[s] # NoRequest
  /\ unmailed' = IF tab[s].at \in {"enqueue", "undo"} THEN unmailed \cup {tab[s].id} ELSE unmailed
  /\ InviteAnswered(s)
  /\ UNCHANGED <<invites, mailJobs, linksOut, requestState, unsure>>

(***************************************************************************)
(* The mail, clicks and claims.                                            *)
(***************************************************************************)
\* handleSendInviteEmail: the mail goes out, though the attempt may count as failed.
SendInviteEmail(i) ==
  /\ mailJobs[i] > 0
  /\ \/ /\ linksOut' = linksOut \cup {i}
        /\ mailJobs' = [mailJobs EXCEPT ![i] = 0]
        /\ UNCHANGED unmailed
     \/ /\ linksOut' \in {linksOut, linksOut \cup {i}}
        /\ mailJobs' = [mailJobs EXCEPT ![i] = @ - 1]
        /\ unmailed' = IF mailJobs[i] = 1 THEN unmailed \cup {i} ELSE unmailed
  /\ UNCHANGED <<invites, tab, requestState, unsure>>

InviteExpires(i) ==
  /\ Existing(i) /\ ~invites[i].expired
  /\ invites' = [invites EXCEPT ![i] = InviteRow(@.claimed, TRUE, @.clicked)]
  /\ UNCHANGED <<tab, mailJobs, linksOut, requestState, unsure, unmailed>>

\* recordInviteClick: the invite is read, and clickedAt written if it was null.
recordInviteClick(i) ==
  /\ \/ /\ i \in linksOut \ clicking /\ PendingInvite(i)
        /\ ~invites[i].expired /\ ~invites[i].clicked
        /\ clicking' = clicking \cup {i}
        /\ UNCHANGED invites
     \/ /\ i \in clicking
        /\ clicking' = clicking \ {i}
        /\ invites' = IF Existing(i)
                      THEN [invites EXCEPT ![i] = InviteRow(@.claimed, @.expired, TRUE)]
                      ELSE invites
  /\ UNCHANGED <<tab, mailJobs, linksOut, toNotify, notified, unsure, unmailed>>

Claimable(i) == PendingInvite(i) /\ ~invites[i].expired

\* The conditional UPDATE, by somebody whose verified address is the invite's,
\* and INVITE.CLAIMED.
claimInvite(i) ==
  /\ i \in linksOut /\ Claimable(i)
  /\ invites' = [invites EXCEPT ![i] = InviteRow(TRUE, @.expired, @.clicked)]
  /\ toNotify' = toNotify \cup {i}
  /\ UNCHANGED <<tab, mailJobs, linksOut, clicking, notified, unsure, unmailed>>

\* dispatch inserts a notification unless there is one with the dedupeKey; an
\* error is swallowed.
handleInviteClaimedNotify(i) ==
  /\ i \in toNotify
  /\ toNotify' = toNotify \ {i}
  /\ notified' \in {notified, notified \cup {i}}
  /\ UNCHANGED <<invites, tab, mailJobs, linksOut, clicking, unsure, unmailed>>

IVNext ==
  \/ \E s \in InviteTab :
       \/ FindExisting(s) \/ DeleteExpired(s) \/ InsertInvite(s)
       \/ EnqueueInvite(s) \/ UndoInvite(s) \/ InviteFails(s)
  \/ \E i \in InviteId :
       \/ SendInviteEmail(i) \/ InviteExpires(i) \/ recordInviteClick(i)
       \/ claimInvite(i) \/ handleInviteClaimedNotify(i)

IVSpec == IVInit /\ [][IVNext]_inviteVars

(***************************************************************************)
(* Properties.                                                             *)
(***************************************************************************)

(***************************************************************************)
(* A link that is in somebody's mailbox belongs to an invite, for ever if  *)
(* it has been claimed and otherwise until it expires: neither a new       *)
(* invite nor the roll-back of a failed one takes it away, unless addJob   *)
(* failed although it had added the job.                                   *)
(***************************************************************************)
MailedLinksWork ==
  [][\A i \in linksOut \ unsure :
       Existing(i) /\ ~Existing(i)' => invites[i].expired /\ ~invites[i].claimed]_inviteVars

(***************************************************************************)
(* The conflict answered to a second invite is true: a pending invite that *)
(* no request is working on has been mailed or has its job, unless that    *)
(* job has failed three times or the request died or could not roll back.  *)
(***************************************************************************)
PendingIsMailed ==
  \A i \in InviteId \ unmailed :
    PendingInvite(i) => \/ i \in linksOut \/ mailJobs[i] > 0
                        \/ \E s \in InviteTab : tab[s].id = i
=============================================================================
