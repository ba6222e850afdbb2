---------------------------- MODULE Conversions ----------------------------
(***************************************************************************)
(* What AnalyticsService says of searches that surface one profile and of  *)
(* the views they lead to, or of invites that one user sends and of their  *)
(* claims: the events come in late, out of order or never, the statistics  *)
(* are taken by two queries and cached.  A trail is a search or an invite. *)
(***************************************************************************)
EXTENDS Naturals, FiniteSets

CONSTANTS
  Trail,    \* searchIds or inviteIds
  NoStats   \* there is no answer in the cache

Kind == {"source", "conversion"} \* SEARCH_PERFORMED or INVITE_SENT; PROFILE_VIEWED or INVITE_CLAIMED
Stats == [sources : 0..Cardinality(Trail), conversions : 0..Cardinality(Trail)]
ASSUME ConversionsAssumption == IsFiniteSet(Trail) /\ NoStats \notin Stats

VARIABLES
  funnel,      \* "search" or "invite"
  today,       \* "before", "during" or "after" the range that is asked for
  searchable,  \* the profile is public and published
  searchCache, \* "none", or whether the cached results are "with" or "without" the profile
  trail,       \* how far each search or invite has come
  claimed,     \* invites that have been claimed
  recording,   \* events on their way to the table
  recorded,    \* events in the table, and in the range
  asked,       \* the request for the statistics
  statsCache   \* answer in the cache

conversionVars == <<funnel, today, searchable, searchCache, trail, claimed, recording,
                    recorded, asked, statsCache>>

NotAsked == [at |-> "idle", sources |-> {}, conversions |-> {}]

\* "conversion_rate strictly bounded at [0, 1]": the type of an answer says so.
Bounded(stats) == stats \in Stats /\ stats.conversions <= stats.sources

CVTypeOK ==
  /\ funnel \in {"search", "invite"}
  /\ today \in {"before", "during", "after"}
  /\ searchable \in BOOLEAN
  /\ searchCache \in {"none", "with", "without"}
  /\ trail \in [Trail -> {"new", "cacheWith", "cacheWithout", "mailed", "with", "without"}]
  /\ claimed \subseteq Trail
  /\ recording \subseteq [kind : Kind, id : Trail]
  /\ recorded \subseteq [kind : Kind, id : Trail]
  /\ asked \in [at : {"idle", "both", "conversions", "sources", "answer"},
                sources : SUBSET Trail, conversions : SUBSET Trail]
  /\ statsCache = NoStats \/ Bounded(statsCache)

CVInit ==
  /\ funnel \in {"search", "invite"}
  /\ today = "before"
  /\ searchable = TRUE
  /\ searchCache = "none"
  /\ trail = [t \in Trail |-> "new"]
  /\ claimed = {} /\ recording = {} /\ recorded = {}
  /\ asked = NotAsked
  /\ statsCache = NoStats

Follow(t, from, to) == trail[t] = from /\ trail' = [trail EXCEPT ![t] = to]

\* recordEvent is called and not awaited; what becomes of it is the subject of Events.
Emit(kind, t) == recording' = recording \cup {[kind |-> kind, id |-> t]}

(***************************************************************************)
(* Searches.                                                               *)
(***************************************************************************)
\* The results come from the cache.  An event without the profile is of no interest.
searchFromCache(t) ==
  /\ funnel = "search" /\ searchCache # "none"
  /\ Follow(t, "new", searchCache)
  /\ IF searchCache = "with" THEN Emit("source", t) ELSE UNCHANGED recording
  /\ UNCHANGED <<funnel, claimed, today, searchable, searchCache, recorded, asked, statsCache>>

\* They come from the database, as there are none in the cache or Redis fails.
searchProfiles(t) ==
  /\ funnel = "search"
  /\ Follow(t, "new", IF searchable THEN "cacheWith" ELSE "cacheWithout")
  /\ IF searchable THEN Emit("source", t) ELSE UNCHANGED recording
  /\ UNCHANGED <<funnel, claimed, today, searchable, searchCache, recorded, asked, statsCache>>

\* The results are cached, unless Redis fails, and answered.
CacheResults(t) ==
  /\ \E found \in {"with", "without"} :
       /\ Follow(t, IF found = "with" THEN "cacheWith" ELSE "cacheWithout", found)
       /\ searchCache' \in {searchCache, found}
  /\ UNCHANGED <<funnel, claimed, today, searchable, recording, recorded, asked, statsCache>>

SearchCacheExpires ==
  /\ searchCache # "none"
  /\ searchCache' = "none"
  /\ UNCHANGED <<funnel, claimed, today, searchable, trail, recording, recorded, asked,
                 statsCache>>

VisibilityChanges ==
  /\ funnel = "search"
  /\ searchable' = ~searchable
  /\ UNCHANGED <<funnel, claimed, today, searchCache, trail, recording, recorded, asked,
                 statsCache>>

\* recordProfileView with a referrerSearchId, which is whatever the visitor says.
ViewFromSearch(t) ==
  /\ funnel = "search" /\ searchable
  /\ Emit("conversion", t)
  /\ UNCHANGED <<funnel, claimed, today, searchable, searchCache, trail, recorded, asked,
                 statsCache>>

(***************************************************************************)
(* Invites.                                                                *)
(***************************************************************************)
\* createInvite has queued the mail.
QueueInvite(t) ==
  /\ funnel = "invite"
  /\ Follow(t, "new", "mailed")
  /\ UNCHANGED <<funnel, claimed, today, searchable, searchCache, recording, recorded, asked,
                 statsCache>>

\* INVITE.SENT, unless the process has died.
handleInviteSent(t) ==
  /\ Follow(t, "mailed", "with")
  /\ Emit("source", t)
  /\ UNCHANGED <<funnel, claimed, today, searchable, searchCache, recorded, asked, statsCache>>

\* INVITE.CLAIMED, once for an invite.
handleInviteClaimed(t) ==
  /\ trail[t] \in {"mailed", "with"} /\ t \notin claimed /\ funnel = "invite"
  /\ claimed' = claimed \cup {t}
  /\ Emit("conversion", t)
  /\ UNCHANGED <<funnel, today, searchable, searchCache, trail, recorded, asked, statsCache>>

(***************************************************************************)
(* Events and statistics.                                                  *)
(***************************************************************************)
\* The INSERT gives occurredAt; or there is none, for a duplicate or an error.
RecordOrLose(event) ==
  /\ recording' = recording \ {event}
  /\ recorded' \in IF today = "during" THEN {recorded, recorded \cup {event}} ELSE {recorded}
  /\ UNCHANGED <<funnel, claimed, today, searchable, searchCache, trail, asked, statsCache>>

TimeGoesBy ==
  /\ today' = CASE today = "before" -> "during" [] OTHER -> "after"
  /\ UNCHANGED <<funnel, claimed, searchable, searchCache, trail, recording, recorded, asked,
                 statsCache>>

\* A hit is answered and changes nothing; a failing GET counts as a miss.
AskStats ==
  /\ asked.at = "idle" /\ statsCache = NoStats
  /\ asked' = [asked EXCEPT !.at = "both"]
  /\ UNCHANGED <<funnel, claimed, today, searchable, searchCache, trail, recording, recorded,
                 statsCache>>

InRange(kind) == {event.id : event \in {e \in recorded : e.kind = kind}}

\* Promise.all of two queries, each of which sees what is there when it comes.
QueryStats ==
  /\ \/ /\ asked.at \in {"both", "sources"}
        /\ asked' = [asked EXCEPT !.sources = InRange("source"),
                                  !.at = IF @ = "both" THEN "conversions" ELSE "answer"]
     \/ /\ asked.at \in {"both", "conversions"}
        /\ asked' = [asked EXCEPT !.conversions = InRange("conversion"),
                                  !.at = IF @ = "both" THEN "sources" ELSE "answer"]
  /\ UNCHANGED <<funnel, claimed, today, searchable, searchCache, trail, recording, recorded,
                 statsCache>>

\* Mutant: views of searches outside the range are counted as well.
ConvertedAll(sources, conversions) == conversions

\* The ids that are in both sets.
Converted(sources, conversions) == {id \in conversions : id \in sources}

\* The answer is cached, unless Redis fails.
AnswerStats ==
  /\ asked.at = "answer"
  /\ statsCache' \in {statsCache,
                      [sources |-> Cardinality(asked.sources),
                       conversions |-> Cardinality(Converted(asked.sources, asked.conversions))]}
  /\ asked' = NotAsked
  /\ UNCHANGED <<funnel, claimed, today, searchable, searchCache, trail, recording, recorded>>

\* A query fails, the process dies, or the cached answer expires.
StatsFail ==
  /\ asked' = NotAsked
  /\ statsCache' \in {statsCache, NoStats}
  /\ UNCHANGED <<funnel, claimed, today, searchable, searchCache, trail, recording, recorded>>

CVNext ==
  \/ \E t \in Trail :
       \/ searchFromCache(t) \/ searchProfiles(t) \/ CacheResults(t) \/ ViewFromSearch(t)
       \/ QueueInvite(t) \/ handleInviteSent(t) \/ handleInviteClaimed(t)
  \/ \E event \in recording : RecordOrLose(event)
  \/ SearchCacheExpires \/ VisibilityChanges \/ TimeGoesBy
  \/ AskStats \/ QueryStats \/ AnswerStats \/ StatsFail

CVSpec == CVInit /\ [][CVNext]_conversionVars
=============================================================================
