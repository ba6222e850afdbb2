---------------------------- MODULE MCServices ----------------------------
(***************************************************************************)
(* The services that keep their own tables and keys, in one run: which of  *)
(* them a behaviour is about is chosen at its start, and the others rest   *)
(* in an initial state.  They have no state in common, so the behaviours   *)
(* are those of the services one by one.                                   *)
(***************************************************************************)
EXTENDS ProfileSections, Events, ProfileLinks, Invites, Announcements,
        Waitlist, Passwords, RateLimits, Conversions, TLC

CONSTANTS Pair, Extra \* ids: two that are alike, and one more

MCEntriesOf ==
  [components |-> Pair, skills |-> Pair, education |-> {Extra},
   workExperience |-> {Extra}, awards |-> {Extra}]

Part == {"sections", "events", "links", "invites", "announcements", "waitlist",
         "passwords", "limits", "conversions"}

VARIABLE part

\* The initial state in which a service rests.
Resting ==
  /\ part # "sections" => list = "awards"
  /\ part # "events" => \A c, d \in EventCall : visitor[c] = visitor[d]
  /\ part # "announcements" => registered = {}
  /\ part # "conversions" => funnel = "search"

MCInit ==
  /\ part \in Part
  /\ PSInit /\ EVInit /\ LKInit /\ IVInit /\ ANInit /\ WLInit
  /\ PWInit /\ RLInit /\ CVInit
  /\ Resting

MCNext ==
  /\ UNCHANGED part
  /\ \/ /\ part = "sections" /\ PSNext
        /\ UNCHANGED <<eventVars, linkVars, inviteVars, announcementVars,
                       waitlistVars, passwordVars, limitVars, conversionVars>>
     \/ /\ part = "events" /\ EVNext
        /\ UNCHANGED <<sectionVars, linkVars, inviteVars, announcementVars,
                       waitlistVars, passwordVars, limitVars, conversionVars>>
     \/ /\ part = "links" /\ LKNext
        /\ UNCHANGED <<sectionVars, eventVars, inviteVars, announcementVars,
                       waitlistVars, passwordVars, limitVars, conversionVars>>
     \/ /\ part = "invites" /\ IVNext
        /\ UNCHANGED <<sectionVars, eventVars, linkVars, announcementVars,
                       waitlistVars, passwordVars, limitVars, conversionVars>>
     \/ /\ part = "announcements" /\ ANNext
        /\ UNCHANGED <<sectionVars, eventVars, linkVars, inviteVars, waitlistVars,
                       passwordVars, limitVars, conversionVars>>
     \/ /\ part = "waitlist" /\ WLNext
        /\ UNCHANGED <<sectionVars, eventVars, linkVars, inviteVars, announcementVars,
                       passwordVars, limitVars, conversionVars>>
     \/ /\ part = "passwords" /\ PWNext
        /\ UNCHANGED <<sectionVars, eventVars, linkVars, inviteVars, announcementVars,
                       waitlistVars, limitVars, conversionVars>>
     \/ /\ part = "limits" /\ RLNext
        /\ UNCHANGED <<sectionVars, eventVars, linkVars, inviteVars, announcementVars,
                       waitlistVars, passwordVars, conversionVars>>
     \/ /\ part = "conversions" /\ CVNext
        /\ UNCHANGED <<sectionVars, eventVars, linkVars, inviteVars, announcementVars,
                       waitlistVars, passwordVars, limitVars>>

MCSpec == MCInit /\ [][MCNext]_<<part, sectionVars, eventVars, linkVars, inviteVars,
                                 announcementVars, waitlistVars, passwordVars,
                                 limitVars, conversionVars>>

TypesOK ==
  /\ PSTypeOK /\ EVTypeOK /\ LKTypeOK /\ IVTypeOK /\ ANTypeOK /\ WLTypeOK
  /\ PWTypeOK /\ RLTypeOK /\ CVTypeOK

\* The services are run one at a time, so they share the names of their callers
\* and of their rows: two of each are alike in every service.
Symmetry == Permutations(Editor) \cup Permutations(Pair)
=============================================================================
