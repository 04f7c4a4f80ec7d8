------------------------------ MODULE GateReaders ------------------------------
(***************************************************************************)
(* The three readers of the verdicts: the ACL helper with its cache, the   *)
(* redirector, and the service's /api/check.  Each answers one request     *)
(* after another, and reads the tables of a video and its channel one      *)
(* query at a time, while analyses and administrators change them.  The    *)
(* readers share nothing but these tables, so one of them is observed.     *)
(***************************************************************************)
EXTENDS Integers, FiniteSets

CONSTANTS
  TokenSets,  \* reader -> sets of what it is asked about: the video by an address or, of
              \* /api/check, its id ("url"), the helper's bare id ("raw"), the channel, or
              \* ("both") an id and the channel
  Rows,       \* values of the video's row: its status, and whether it names the channel
  Tiers,      \* values of the channel's tier, "none" without a record
  CacheTtl,   \* acl_cache_ttl, in ticks
  CacheSize   \* max_size of the cache

ASSUME ReadersAssumption ==
  /\ CacheTtl \in Nat /\ CacheSize \in Nat \ {0}
  /\ Rows \subseteq [status : STRING, channel : BOOLEAN]
  /\ DOMAIN TokenSets \subseteq {"helper", "redirector", "api"}
  /\ \A r \in DOMAIN TokenSets : \A set \in TokenSets[r] :
       set \subseteq {"url", "channel", IF r = "api" THEN "both" ELSE "raw"}

VARIABLES
  reader,     \* the reader observed: "helper", "redirector" or "api"
  tokens,     \* what it is asked about
  row, tier,  \* the tables
  listed,     \* which of "video" and "channel" is whitelisted
  ask,        \* the request being answered
  cache,      \* the helper's: token -> an answer and the time it has left, or nothing
  triggers,   \* analyses that the redirector has handed to its pool of threads
  quiet       \* history: ticks since the tables last changed or could not be read

readerVars == <<reader, tokens, row, tier, listed, ask, cache, triggers, quiet>>

Flagged == {"block", "soft_block"}
NoEntry == [blocked |-> FALSE, left |-> -2]
Expired == -1
MaxTriggers == 2      \* bound: triggers waiting in the pool
Idle == [at |-> "idle", token |-> "url", status |-> "none", blocked |-> FALSE, steady |-> TRUE]

ReadersInit ==
  /\ reader \in DOMAIN TokenSets
  /\ tokens \in TokenSets[reader]
  /\ row \in Rows /\ tier \in Tiers /\ listed \in SUBSET {"video", "channel"}
  /\ ask = Idle
  /\ cache = [k \in tokens |-> NoEntry]
  /\ triggers = 0
  /\ quiet = 0

\* The tables' answer to a reader's question, by one look at them.
ChannelStops == "channel" \notin listed /\ tier \in Flagged
VideoStops == row.status \in Flagged
Decision(token) ==
  CASE token = "url"     -> "video" \notin listed /\
                              (VideoStops \/ (reader # "api" /\ row.channel /\ ChannelStops))
    [] token = "raw"     -> "video" \notin listed /\ VideoStops
    [] token = "channel" -> ChannelStops
    [] token = "both"    -> "video" \notin listed /\ (VideoStops \/ ChannelStops)

-----------------------------------------------------------------------------
(* The tables change under the readers. *)

TablesChange ==
  /\ \/ row' \in Rows \ {row} /\ UNCHANGED <<tier, listed>>
     \/ tier' \in Tiers \ {tier} /\ UNCHANGED <<row, listed>>
     \/ /\ \E x \in {"video", "channel"} : listed' \in {listed \cup {x}, listed \ {x}} \ {listed}
        /\ UNCHANGED <<row, tier>>
  /\ ask' = [ask EXCEPT !.steady = ask.at = "idle"]
  /\ quiet' = 0
  /\ UNCHANGED <<reader, tokens, cache, triggers>>

-----------------------------------------------------------------------------
(* One request. *)

\* _TTLCache.get(): an entry serves until the clock has passed its expiry.
Cached(k) == reader = "helper" /\ cache[k].left >= 0

\* A mistake: an answer from the cache renews its entry.
ServeCachedRenews(k) ==
  /\ ask.at = "idle" /\ Cached(k)
  /\ cache' = [cache EXCEPT ![k].left = CacheTtl]
  /\ UNCHANGED <<reader, tokens, row, tier, listed, ask, triggers, quiet>>

ServeCached(k) ==
  /\ ask.at = "idle" /\ Cached(k)
  /\ UNCHANGED readerVars

\* A question with a video begins with the video's whitelisting, one with a channel
\* alone with the channel's.  get() deletes an expired entry.
Ask(k) ==
  /\ ask.at = "idle" /\ ~Cached(k)
  /\ ask' = [Idle EXCEPT !.at = IF k = "channel" THEN "channelListed" ELSE "videoListed",
                         !.token = k]
  /\ cache' = [cache EXCEPT ![k] = NoEntry]
  /\ UNCHANGED <<reader, tokens, row, tier, listed, triggers, quiet>>

Goes(place) == ask' = [ask EXCEPT !.at = place]
Answers(blocked) == ask' = [ask EXCEPT !.at = "answer", !.blocked = blocked]

ReadVideoListed ==
  /\ ask.at = "videoListed"
  /\ IF "video" \in listed THEN Answers(FALSE) ELSE Goes("status")
  /\ UNCHANGED <<reader, tokens, row, tier, listed, cache, triggers, quiet>>

\* A status that stops the video ends the search; otherwise the helper and the
\* redirector look for the channel in the video's row, and /api/check in the request.
ReadStatus ==
  /\ ask.at = "status"
  /\ ask' = [ask EXCEPT !.status = row.status,
                        !.at = IF VideoStops \/ ask.token = "raw" THEN "answer"
                               ELSE IF reader = "api"
                                    THEN IF ask.token = "both" THEN "channelListed" ELSE "answer"
                               ELSE "row",
                        !.blocked = VideoStops]
  /\ UNCHANGED <<reader, tokens, row, tier, listed, cache, triggers, quiet>>

ReadRow ==
  /\ ask.at = "row"
  /\ IF row.channel THEN Goes("channelListed") ELSE Answers(FALSE)
  /\ UNCHANGED <<reader, tokens, row, tier, listed, cache, triggers, quiet>>

\* A mistake: the whitelisting of the channel is not looked up.
ReadChannelListedSkipped ==
  /\ ask.at = "channelListed"
  /\ Goes("tier")
  /\ UNCHANGED <<reader, tokens, row, tier, listed, cache, triggers, quiet>>

ReadChannelListed ==
  /\ ask.at = "channelListed"
  /\ IF "channel" \in listed THEN Answers(FALSE) ELSE Goes("tier")
  /\ UNCHANGED <<reader, tokens, row, tier, listed, cache, triggers, quiet>>

ReadTier ==
  /\ ask.at = "tier"
  /\ Answers(tier \in Flagged)
  /\ UNCHANGED <<reader, tokens, row, tier, listed, cache, triggers, quiet>>

\* A query that fails lets the request pass; the helper caches that answer too.
ReadFails ==
  /\ ask.at \notin {"idle", "answer"}
  /\ ask' = [ask EXCEPT !.at = "answer", !.blocked = FALSE, !.steady = FALSE, !.status = "failed"]
  /\ quiet' = 0
  /\ UNCHANGED <<reader, tokens, row, tier, listed, cache, triggers>>

-----------------------------------------------------------------------------
(* The answer. *)

Entries == {k \in tokens : cache[k] # NoEntry}

\* _TTLCache.set(): a full cache first gives up entries that have expired, a quarter of
\* its size at most; if there are none it grows.
Evicted ==
  LET old == {k \in Entries : cache[k].left <= 0}
      quarter == IF CacheSize \div 4 < 1 THEN 1 ELSE CacheSize \div 4
  IN  IF Cardinality(Entries) < CacheSize THEN {{}}
      ELSE {s \in SUBSET old : Cardinality(s) =
               IF Cardinality(old) < quarter THEN Cardinality(old) ELSE quarter}

AnswerHelper ==
  /\ reader = "helper" /\ ask.at = "answer"
  /\ \E gone \in Evicted :
       cache' = [k \in tokens |->
                   IF k = ask.token THEN [blocked |-> ask.blocked, left |-> CacheTtl]
                   ELSE IF k \in gone THEN NoEntry ELSE cache[k]]
  /\ ask' = Idle
  /\ UNCHANGED <<reader, tokens, row, tier, listed, triggers, quiet>>

\* An unknown video passes, and a thread of the pool asks for its analysis.
AnswerRedirector ==
  /\ reader = "redirector" /\ ask.at = "answer"
  /\ triggers' = IF ask.status = "none" /\ ~ask.blocked /\ "video" \notin listed
                      /\ triggers < MaxTriggers
                 THEN triggers + 1 ELSE triggers
  /\ ask' = Idle
  /\ UNCHANGED <<reader, tokens, row, tier, listed, cache, quiet>>

AnswerCheck ==
  /\ reader = "api" /\ ask.at = "answer"
  /\ ask' = Idle
  /\ UNCHANGED <<reader, tokens, row, tier, listed, cache, triggers, quiet>>

\* _trigger_analysis(): the request arrives or is lost.
Trigger ==
  /\ triggers > 0
  /\ triggers' = triggers - 1
  /\ UNCHANGED <<reader, tokens, row, tier, listed, ask, cache, quiet>>

\* A tick is longer than an answer takes: the queries are local.
ReadersTick ==
  /\ ask.at = "idle"
  /\ cache' = [k \in tokens |->
                 IF cache[k].left >= 0 THEN [cache[k] EXCEPT !.left = @ - 1] ELSE cache[k]]
  /\ quiet' = IF quiet <= CacheTtl THEN quiet + 1 ELSE quiet
  /\ UNCHANGED <<reader, tokens, row, tier, listed, ask, triggers>>

ReadersNext ==
  \/ TablesChange
  \/ \E k \in tokens : ServeCached(k) \/ Ask(k)
  \/ ReadVideoListed \/ ReadStatus \/ ReadRow \/ ReadChannelListed \/ ReadTier \/ ReadFails
  \/ AnswerHelper \/ AnswerRedirector \/ AnswerCheck
  \/ Trigger
  \/ ReadersTick

ReadersSpec == ReadersInit /\ [][ReadersNext]_readerVars

-----------------------------------------------------------------------------
\* A reader that finds the tables at rest answers as they say, although it reads them
\* one query at a time and stops at the first that decides.  (As the code has it: the
\* whitelisting of a channel protects a video from the channel's tier, not from its own
\* status, although the redirector's header names the channel before the status.)
SteadyTablesDecide ==
  (ask.at = "answer" /\ ask.steady) => ask.blocked = Decision(ask.token)

\* When the tables have been at rest, and readable, for longer than the time to live,
\* no answer of the cache differs from them, however often it was served.
CacheForgets ==
  \A k \in tokens : (Cached(k) /\ quiet > CacheTtl) => cache[k].blocked = Decision(k)

=============================================================================
