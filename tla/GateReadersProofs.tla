--------------------------- MODULE GateReadersProofs ---------------------------
(***************************************************************************)
(* What the readers of the verdicts answer, and what the helper's cache    *)
(* still says, for any rows and tiers, any time to live and any size.      *)
(***************************************************************************)
EXTENDS GateReaders, TLAPS

Places == {"idle", "videoListed", "status", "row", "channelListed", "tier", "answer"}
Asked == {"url", "raw", "channel", "both"}
\* What a request can have read of a status: a row's, or that the query failed.
Statuses == {r.status : r \in Rows} \cup {"none", "failed"}

ReadersTyped ==
  /\ reader \in DOMAIN TokenSets /\ tokens \in TokenSets[reader]
  /\ row \in Rows
  /\ ask \in [at : Places, token : Asked, status : Statuses, blocked : BOOLEAN, steady : BOOLEAN]
  /\ ask.at # "idle" => ask.token \in tokens
  /\ cache \in [tokens -> [blocked : BOOLEAN, left : -2 .. CacheTtl]]
  /\ quiet \in 0 .. CacheTtl + 1

\* Only the channel can still decide.
ChannelDecides ==
  \/ ask.token = "channel"
  \/ /\ "video" \notin listed /\ ~VideoStops
     /\ ask.token = "both" \/ (ask.token = "url" /\ reader # "api" /\ row.channel)

\* What a request that has found the tables at rest knows of them, where it is: all that
\* it has read still holds, and has decided nothing before the answer.
SeenSoFar ==
  /\ ask.at = "videoListed" => ask.token # "channel"
  /\ ask.at = "status" => ask.token # "channel" /\ "video" \notin listed
  /\ ask.at = "row" => /\ ask.token = "url" /\ reader # "api"
                       /\ "video" \notin listed /\ ~VideoStops
  /\ ask.at = "channelListed" => ChannelDecides
  /\ ask.at = "tier" => ChannelDecides /\ "channel" \notin listed
  /\ ask.at = "answer" => (ask.blocked <=> Decision(ask.token))

\* No time passes while a request is answered, so one that was disturbed is answered
\* while the disturbance is fresh.
DisturbedIsRecent == ask.at # "idle" /\ ~ask.steady => quiet = 0

\* An entry is right about the tables of now, or is so old that it will have expired
\* before they have been at rest for its time to live.
EntriesRightOrDying ==
  \A k \in tokens :
    cache[k].left >= 0 =>
      (cache[k].blocked <=> Decision(k)) \/ quiet + cache[k].left <= CacheTtl

ReadersInv ==
  /\ ReadersTyped
  /\ ask.steady => SeenSoFar
  /\ DisturbedIsRecent
  /\ EntriesRightOrDying

-----------------------------------------------------------------------------
LEMMA StatusesRead ==
  /\ "none" \in Statuses /\ "failed" \in Statuses
  /\ ReadersTyped => row.status \in Statuses
BY DEF Statuses, ReadersTyped

\* What a token can be depends on the reader.
LEMMA TokensOfReader ==
  ASSUME ReadersTyped
  PROVE  /\ reader \in {"helper", "redirector", "api"}
         /\ tokens \subseteq Asked
         /\ reader = "api" => "raw" \notin tokens
         /\ reader # "api" => "both" \notin tokens
BY ReadersAssumption DEF ReadersTyped, Asked

\* The answer to a question depends on the tables alone.
LEMMA SameTables ==
  ASSUME UNCHANGED <<reader, row, tier, listed>>
  PROVE  /\ \A k : Decision(k)' <=> Decision(k)
         /\ VideoStops' <=> VideoStops
BY DEF Decision, VideoStops, ChannelStops

\* A step of a request that leaves the tables, the cache and the clock alone keeps all
\* but what the request has seen.
LEMMA QueryKeeps ==
  ASSUME ReadersInv, ask.at # "idle",
         UNCHANGED <<reader, tokens, row, tier, listed, cache, quiet>>,
         NEW place \in Places \ {"idle"}, NEW status \in Statuses, NEW blocked \in BOOLEAN,
         ask' = [ask EXCEPT !.at = place, !.status = status, !.blocked = blocked],
         ask.steady => SeenSoFar'
  PROVE  ReadersInv'
<1>1. /\ ask'.at = place /\ ask'.token = ask.token /\ ask'.steady = ask.steady
      /\ ask' \in [at : Places, token : Asked, status : Statuses, blocked : BOOLEAN,
                   steady : BOOLEAN]
  BY DEF ReadersInv, ReadersTyped
<1>2. ReadersTyped'
  BY <1>1 DEF ReadersInv, ReadersTyped
<1>3. ask'.steady => SeenSoFar'
  BY Zenon, <1>1
<1>4. DisturbedIsRecent'
  BY <1>1 DEF ReadersInv, DisturbedIsRecent
<1>5. EntriesRightOrDying'
  BY SameTables DEF ReadersInv, EntriesRightOrDying
<1> QED
  BY <1>2, <1>3, <1>4, <1>5 DEF ReadersInv

\* What a step of a request makes of its record.
LEMMA GoesAndAnswers ==
  ASSUME ReadersTyped
  PROVE  /\ \A place : Goes(place) =>
              ask' = [ask EXCEPT !.at = place, !.status = ask.status, !.blocked = ask.blocked]
         /\ \A blocked : Answers(blocked) =>
              ask' = [ask EXCEPT !.at = "answer", !.status = ask.status, !.blocked = blocked]
         /\ ask.status \in Statuses /\ ask.blocked \in BOOLEAN
         /\ row.status \in Statuses /\ row.channel \in BOOLEAN
BY StatusesRead, ReadersAssumption DEF ReadersTyped, Goes, Answers

\* The fields of the request after a step.
LEMMA FieldsAfter ==
  ASSUME ReadersTyped, NEW place, NEW status, NEW blocked,
         ask' = [ask EXCEPT !.at = place, !.status = status, !.blocked = blocked]
  PROVE  /\ ask'.at = place /\ ask'.blocked = blocked
         /\ ask'.token = ask.token /\ ask'.steady = ask.steady
BY DEF ReadersTyped

\* An answer that is the decision of tables that stay as they are.
LEMMA AnswerSeen ==
  ASSUME UNCHANGED <<reader, row, tier, listed>>,
         ask'.at = "answer", ask'.token = ask.token, ask'.blocked <=> Decision(ask.token)
  PROVE  SeenSoFar'
<1>1. Decision(ask.token)' <=> Decision(ask.token)
  BY DEF Decision, VideoStops, ChannelStops
<1>2. (ask.blocked <=> Decision(ask.token))'
  BY <1>1
<1> QED  BY Zenon, <1>2 DEF SeenSoFar

\* The whitelisting of the video.
LEMMA VideoListedKeeps ==
  ASSUME ReadersInv, ReadVideoListed
  PROVE  ReadersInv'
<1> DEFINE seen == ask.steady => ask.token \in Asked \ {"channel"}
<1>1. /\ ask.at = "videoListed" /\ ReadersTyped /\ seen
      /\ UNCHANGED <<reader, tokens, row, tier, listed, cache, quiet>>
  BY DEF ReadersInv, SeenSoFar, ReadVideoListed, ReadersTyped
<1>2. CASE "video" \in listed
  <2>1. ask' = [ask EXCEPT !.at = "answer", !.status = ask.status, !.blocked = FALSE]
    BY <1>1, <1>2, GoesAndAnswers DEF ReadVideoListed
  <2>2. ASSUME ask.steady PROVE SeenSoFar'
    <3>1. ask'.at = "answer" /\ ask'.blocked = FALSE /\ ask'.token = ask.token
      BY <1>1, <2>1, FieldsAfter
    <3>2. ~Decision(ask.token)
      BY <1>1, <1>2, <2>2 DEF Decision, Asked
    <3> QED  BY <1>1, <3>1, <3>2, AnswerSeen
  <2> QED  BY <1>1, <2>1, <2>2, GoesAndAnswers, QueryKeeps DEF Places
<1>3. CASE "video" \notin listed
  <2>1. ask' = [ask EXCEPT !.at = "status", !.status = ask.status, !.blocked = ask.blocked]
    BY <1>1, <1>3, GoesAndAnswers DEF ReadVideoListed
  <2>2. ASSUME ask.steady PROVE SeenSoFar'
    <3>1. ask'.at = "status" /\ ask'.token = ask.token
      BY <1>1, <2>1, FieldsAfter
    <3> QED  BY <1>1, <1>3, <2>2, <3>1 DEF SeenSoFar
  <2> QED  BY <1>1, <2>1, <2>2, GoesAndAnswers, QueryKeeps DEF Places
<1> QED  BY <1>2, <1>3

\* The status in the video's row.
LEMMA StatusKeeps ==
  ASSUME ReadersInv, ReadStatus
  PROVE  ReadersInv'
<1>0. PICK stops \in BOOLEAN : stops <=> VideoStops
  OBVIOUS
<1> DEFINE place == IF VideoStops \/ ask.token = "raw" THEN "answer"
                    ELSE IF reader = "api"
                         THEN IF ask.token = "both" THEN "channelListed" ELSE "answer"
                    ELSE "row"
<1>1. /\ ask.at = "status" /\ ReadersTyped
      /\ UNCHANGED <<reader, tokens, row, tier, listed, cache, quiet>>
      /\ ask' = [ask EXCEPT !.at = place, !.status = row.status, !.blocked = stops]
  <2>1. VideoStops = stops
    BY <1>0 DEF VideoStops
  <2>2. ask' = [ask EXCEPT !.status = row.status, !.at = place, !.blocked = VideoStops]
    BY Zenon DEF ReadStatus
  <2>3. ask' = [ask EXCEPT !.at = place, !.status = row.status, !.blocked = VideoStops]
    BY <2>2
  <2> QED  BY <2>1, <2>3 DEF ReadersInv, ReadStatus
<1>2. place \in Places \ {"idle"} /\ row.status \in Statuses
  BY <1>1, GoesAndAnswers DEF Places
<1>3. ASSUME ask.steady PROVE SeenSoFar'
  <2>1. ask.token \in Asked \ {"channel"} /\ "video" \notin listed /\ ask.token \in tokens
    BY <1>1, <1>3 DEF ReadersInv, ReadersTyped, SeenSoFar
  <2>2. /\ ask'.at = place /\ ask'.token = ask.token
        /\ ask'.blocked <=> VideoStops
    <3> HIDE DEF place
    <3> QED  BY <1>0, <1>1, FieldsAfter
  <2>3. /\ reader # "api" => ask.token # "both"
        /\ reader = "api" => ask.token # "raw"
    BY <1>1, <2>1, TokensOfReader
  <2>4. CASE VideoStops
    <3>1. Decision(ask.token)
      BY <2>1, <2>4 DEF Decision, Asked
    <3>2. ask'.at = "answer" /\ ask'.blocked
      BY <2>2, <2>4
    <3> QED  BY <1>1, <2>2, <3>1, <3>2, AnswerSeen
  <2>5. CASE ~VideoStops /\ (ask.token = "raw" \/ (reader = "api" /\ ask.token # "both"))
    <3>1. ~Decision(ask.token)
      BY <2>1, <2>5 DEF Decision, Asked
    <3>2. ask'.at = "answer" /\ ~ask'.blocked
      BY <2>2, <2>5
    <3> QED  BY <1>1, <2>2, <3>1, <3>2, AnswerSeen
  <2>6. CASE ~VideoStops /\ reader = "api" /\ ask.token = "both"
    <3>1. ask'.at = "channelListed"
      BY <2>2, <2>6
    <3> QED  BY <1>1, <2>1, <2>2, <2>6, <3>1 DEF SeenSoFar, ChannelDecides, VideoStops
  <2>7. CASE ~VideoStops /\ reader # "api" /\ ask.token # "raw"
    <3>1. ask'.at = "row" /\ ask.token = "url"
      BY <2>1, <2>2, <2>3, <2>7 DEF Asked
    <3> QED  BY <1>1, <2>1, <2>2, <2>7, <3>1 DEF SeenSoFar, VideoStops
  <2> QED  BY <2>4, <2>5, <2>6, <2>7
<1> HIDE DEF place
<1> QED  BY <1>0, <1>1, <1>2, <1>3, QueryKeeps

\* The channel in the video's row.
LEMMA RowKeeps ==
  ASSUME ReadersInv, ReadRow
  PROVE  ReadersInv'
<1>1. /\ ask.at = "row" /\ ReadersTyped
      /\ UNCHANGED <<reader, tokens, row, tier, listed, cache, quiet>>
  BY DEF ReadersInv, ReadRow
<1>2. ASSUME ask.steady
      PROVE  ask.token = "url" /\ reader # "api" /\ "video" \notin listed /\ ~VideoStops
  BY <1>1, <1>2 DEF ReadersInv, SeenSoFar
<1>3. CASE row.channel
  <2>1. ask' = [ask EXCEPT !.at = "channelListed", !.status = ask.status, !.blocked = ask.blocked]
    BY <1>1, <1>3, GoesAndAnswers DEF ReadRow
  <2>2. ask'.at = "channelListed" /\ ask'.token = ask.token
    BY <1>1, <2>1, FieldsAfter
  <2>3. ASSUME ask.steady PROVE SeenSoFar'
    BY <1>1, <1>2, <1>3, <2>2, <2>3 DEF SeenSoFar, ChannelDecides, VideoStops
  <2> QED  BY <1>1, <2>1, <2>3, GoesAndAnswers, QueryKeeps DEF Places
<1>4. CASE ~row.channel
  <2>1. ask' = [ask EXCEPT !.at = "answer", !.status = ask.status, !.blocked = FALSE]
    BY <1>1, <1>4, GoesAndAnswers DEF ReadRow
  <2>2. ask'.at = "answer" /\ ask'.token = ask.token /\ ask'.blocked = FALSE
    BY <1>1, <2>1, FieldsAfter
  <2>3. ASSUME ask.steady PROVE SeenSoFar'
    <3>1. ~Decision(ask.token)
      BY <1>2, <1>4, <2>3 DEF Decision
    <3> QED  BY <1>1, <2>2, <3>1, AnswerSeen
  <2> QED  BY <1>1, <2>1, <2>3, GoesAndAnswers, QueryKeeps DEF Places
<1> QED  BY <1>3, <1>4

\* Where only the channel can decide, it does.
LEMMA ChannelIsTheAnswer ==
  ASSUME ChannelDecides
  PROVE  Decision(ask.token) <=> ChannelStops
BY DEF ChannelDecides, Decision

\* The whitelisting and the tier of the channel.
LEMMA ChannelKeeps ==
  ASSUME ReadersInv, ReadChannelListed \/ ReadTier
  PROVE  ReadersInv'
<1>1. /\ ReadersTyped /\ ask.at \in {"channelListed", "tier"}
      /\ UNCHANGED <<reader, tokens, row, tier, listed, cache, quiet>>
  BY DEF ReadersInv, ReadChannelListed, ReadTier
<1>2. ASSUME ask.steady PROVE ChannelDecides
  BY <1>1, <1>2 DEF ReadersInv, SeenSoFar
<1>3. CASE ReadChannelListed /\ "channel" \notin listed
  <2>1. ask' = [ask EXCEPT !.at = "tier", !.status = ask.status, !.blocked = ask.blocked]
    BY <1>1, <1>3, GoesAndAnswers DEF ReadChannelListed
  <2>2. ask'.at = "tier" /\ ask'.token = ask.token
    BY <1>1, <2>1, FieldsAfter
  <2>3. ASSUME ask.steady PROVE SeenSoFar'
    BY <1>1, <1>2, <1>3, <2>2, <2>3 DEF SeenSoFar, ChannelDecides, VideoStops
  <2> QED  BY <1>1, <2>1, <2>3, GoesAndAnswers, QueryKeeps DEF Places
<1>4. ASSUME NEW blocked \in BOOLEAN, Answers(blocked), blocked <=> ChannelStops
      PROVE  ReadersInv'
  <2>1. ask' = [ask EXCEPT !.at = "answer", !.status = ask.status, !.blocked = blocked]
    BY <1>1, <1>4, GoesAndAnswers
  <2>2. ask'.at = "answer" /\ ask'.token = ask.token /\ ask'.blocked = blocked
    BY <1>1, <2>1, FieldsAfter
  <2>3. ASSUME ask.steady PROVE SeenSoFar'
    <3>1. ask'.blocked <=> Decision(ask.token)
      BY <1>2, <1>4, <2>2, <2>3, ChannelIsTheAnswer
    <3> QED  BY <1>1, <2>2, <3>1, AnswerSeen
  <2> QED  BY <1>1, <2>1, <2>3, GoesAndAnswers, QueryKeeps DEF Places
<1>5. CASE ReadChannelListed /\ "channel" \in listed
  BY <1>4, <1>5 DEF ReadChannelListed, ChannelStops
<1>6. CASE ReadTier
  <2>1. PICK blocked \in BOOLEAN : blocked <=> tier \in Flagged
    OBVIOUS
  <2>2. Answers(blocked)
    <3>1. blocked = (tier \in Flagged)
      BY <2>1
    <3> QED  BY <1>6, <3>1 DEF ReadTier
  <2>3. CASE ask.steady
    <3>1. "channel" \notin listed
      BY <1>6, <2>3 DEF ReadTier, ReadersInv, SeenSoFar
    <3> QED  BY <1>4, <2>1, <2>2, <3>1 DEF ChannelStops
  <2>4. CASE ~ask.steady
    <3>1. ask' = [ask EXCEPT !.at = "answer", !.status = ask.status, !.blocked = blocked]
      BY <1>1, <2>2, GoesAndAnswers
    <3> QED  BY <1>1, <2>1, <2>4, <3>1, GoesAndAnswers, QueryKeeps DEF Places
  <2> QED  BY <2>3, <2>4
<1> QED  BY <1>3, <1>5, <1>6

\* A change of the tables makes every answer of the past doubtful, for as long as the
\* time to live.
LEMMA ChangeKeeps ==
  ASSUME ReadersInv, TablesChange
  PROVE  ReadersInv'
<1>1. /\ ReadersTyped /\ quiet' = 0 /\ UNCHANGED <<reader, tokens, cache>>
      /\ row' \in Rows
  BY DEF ReadersInv, ReadersTyped, TablesChange
<1>2. PICK steady \in BOOLEAN : /\ steady <=> ask.at = "idle"
                                /\ ask' = [ask EXCEPT !.steady = steady]
  <2>1. PICK steady \in BOOLEAN : steady = (ask.at = "idle")
    OBVIOUS
  <2> QED  BY <2>1 DEF TablesChange
<1>3. /\ ask'.at = ask.at /\ ask'.token = ask.token /\ ask'.steady = steady
      /\ ask' \in [at : Places, token : Asked, status : Statuses, blocked : BOOLEAN,
                   steady : BOOLEAN]
  BY <1>1, <1>2 DEF ReadersTyped
<1>4. ReadersTyped'
  BY <1>1, <1>3, ReadersAssumption DEF ReadersTyped
<1>5. ask'.steady => SeenSoFar'
  <2>1. ask'.steady => ask'.at = "idle"
    BY <1>2, <1>3
  <2> QED  BY <2>1 DEF SeenSoFar
<1>6. EntriesRightOrDying'
  <2>1. \A k \in tokens : 0 + cache[k].left <= CacheTtl
    BY <1>1, ReadersAssumption DEF ReadersTyped
  <2> QED  BY <1>1, <2>1 DEF EntriesRightOrDying
<1> QED  BY <1>1, <1>4, <1>5, <1>6 DEF ReadersInv, DisturbedIsRecent

\* A request begins knowing nothing.
LEMMA AskKeeps ==
  ASSUME ReadersInv, NEW k \in tokens, Ask(k)
  PROVE  ReadersInv'
<1>1. /\ ReadersTyped /\ UNCHANGED <<reader, tokens, row, tier, listed, quiet>>
      /\ cache' = [cache EXCEPT ![k] = NoEntry]
  BY DEF ReadersInv, Ask
<1>2. k \in Asked
  BY <1>1, TokensOfReader
<1>3. PICK place \in {"channelListed", "videoListed"} :
        /\ place = IF k = "channel" THEN "channelListed" ELSE "videoListed"
        /\ ask' = [Idle EXCEPT !.at = place, !.token = k]
  BY DEF Ask
<1>4. ask' = [at |-> place, token |-> k, status |-> "none", blocked |-> FALSE, steady |-> TRUE]
  BY <1>3 DEF Idle
<1>5. NoEntry \in [blocked : BOOLEAN, left : -2 .. CacheTtl] /\ NoEntry.left = -2
  BY ReadersAssumption DEF NoEntry
<1>6. ReadersTyped'
  <2>1. cache' \in [tokens -> [blocked : BOOLEAN, left : -2 .. CacheTtl]]
    BY <1>1, <1>5 DEF ReadersTyped
  <2>2. ask' \in [at : Places, token : Asked, status : Statuses, blocked : BOOLEAN,
                  steady : BOOLEAN]
    BY <1>2, <1>4, StatusesRead DEF Places
  <2>3. ask'.token \in tokens
    BY <1>4
  <2> QED  BY <1>1, <2>1, <2>2, <2>3 DEF ReadersTyped
<1>7. SeenSoFar'
  <2>1. ask'.at = place /\ ask'.token = k
    BY <1>4
  <2>2. place = "videoListed" <=> k # "channel"
    BY <1>3
  <2> QED  BY <2>1, <2>2 DEF SeenSoFar, ChannelDecides
<1>8. DisturbedIsRecent'
  <2>1. ask'.steady
    BY <1>4
  <2> QED  BY <2>1 DEF DisturbedIsRecent
<1>9. EntriesRightOrDying'
  <2>1. \A j \in tokens : cache'[j].left >= 0 => cache'[j] = cache[j]
    BY <1>1, <1>5 DEF ReadersTyped
  <2> QED  BY <1>1, <2>1, SameTables DEF ReadersInv, EntriesRightOrDying
<1> QED  BY <1>6, <1>7, <1>8, <1>9 DEF ReadersInv

\* A query that fails gives an answer that nothing is claimed of.
LEMMA FailureKeeps ==
  ASSUME ReadersInv, ReadFails
  PROVE  ReadersInv'
<1>1. /\ ReadersTyped /\ quiet' = 0 /\ ask.at # "idle"
      /\ UNCHANGED <<reader, tokens, row, tier, listed, cache>>
      /\ ask' = [ask EXCEPT !.at = "answer", !.blocked = FALSE, !.steady = FALSE,
                            !.status = "failed"]
  BY DEF ReadersInv, ReadFails
<1>2. /\ ask' \in [at : Places, token : Asked, status : Statuses, blocked : BOOLEAN,
                   steady : BOOLEAN]
      /\ ask'.token = ask.token /\ ~ask'.steady
  BY <1>1, StatusesRead DEF ReadersTyped, Places
<1>3. ReadersTyped'
  BY <1>1, <1>2, ReadersAssumption DEF ReadersTyped
<1>4. EntriesRightOrDying'
  <2>1. \A k \in tokens : 0 + cache[k].left <= CacheTtl
    BY <1>1, ReadersAssumption DEF ReadersTyped
  <2> QED  BY <1>1, <2>1 DEF EntriesRightOrDying
<1> QED  BY <1>1, <1>2, <1>3, <1>4 DEF ReadersInv, DisturbedIsRecent

\* Nothing is known of a reader that is idle.
LEMMA IdleKnowsNothing ==
  ASSUME ask' = Idle
  PROVE  SeenSoFar' /\ DisturbedIsRecent'
<1>1. ask'.at = "idle"
  BY DEF Idle
<1> QED  BY <1>1 DEF SeenSoFar, DisturbedIsRecent

\* The answer of a request goes to the cache: it is right, or was disturbed just now.
LEMMA AnswerKeeps ==
  ASSUME ReadersInv, AnswerHelper \/ AnswerRedirector \/ AnswerCheck
  PROVE  ReadersInv'
<1>1. /\ ReadersTyped /\ ask.at = "answer" /\ ask' = Idle
      /\ UNCHANGED <<reader, tokens, row, tier, listed, quiet>>
  BY DEF ReadersInv, AnswerHelper, AnswerRedirector, AnswerCheck
<1>2. Idle \in [at : Places, token : Asked, status : Statuses, blocked : BOOLEAN,
                steady : BOOLEAN]
  BY StatusesRead DEF Idle, Places, Asked
<1>3. Idle.at = "idle"
  BY DEF Idle
<1>4. CASE UNCHANGED cache
  <2>1. ReadersTyped'
    BY <1>1, <1>2, <1>3, <1>4 DEF ReadersTyped
  <2>2. EntriesRightOrDying'
    BY <1>1, <1>4, SameTables DEF ReadersInv, EntriesRightOrDying
  <2> QED  BY <1>1, <2>1, <2>2, IdleKnowsNothing DEF ReadersInv
<1>5. CASE AnswerHelper
  <2>1. PICK gone, new :
          /\ new = [blocked |-> ask.blocked, left |-> CacheTtl]
          /\ cache' = [k \in tokens |-> IF k = ask.token THEN new
                                        ELSE IF k \in gone THEN NoEntry ELSE cache[k]]
    BY <1>5 DEF AnswerHelper
  <2>2. /\ NoEntry \in [blocked : BOOLEAN, left : -2 .. CacheTtl] /\ NoEntry.left = -2
        /\ new \in [blocked : BOOLEAN, left : -2 .. CacheTtl]
        /\ new.left = CacheTtl /\ new.blocked = ask.blocked
    BY <1>1, <2>1, ReadersAssumption DEF NoEntry, ReadersTyped
  <2>3. ReadersTyped'
    <3>1. cache' \in [tokens -> [blocked : BOOLEAN, left : -2 .. CacheTtl]]
      BY <1>1, <2>1, <2>2 DEF ReadersTyped
    <3> QED  BY <1>1, <1>2, <1>3, <3>1 DEF ReadersTyped
  <2>4. (new.blocked <=> Decision(ask.token)) \/ quiet + new.left <= CacheTtl
    <3>1. CASE ask.steady
      <4>1. ask.blocked <=> Decision(ask.token)
        BY <1>1, <3>1 DEF ReadersInv, SeenSoFar
      <4> QED  BY <2>2, <4>1
    <3>2. CASE ~ask.steady
      <4>1. quiet = 0
        BY <1>1, <3>2 DEF ReadersInv, DisturbedIsRecent
      <4> QED  BY <2>2, <4>1, ReadersAssumption
    <3> QED  BY <3>1, <3>2
  <2>5. \A k \in tokens : \/ k = ask.token /\ cache'[k] = new
                          \/ cache'[k] = cache[k]
                          \/ cache'[k].left = -2
    BY <2>1, <2>2
  <2>6. EntriesRightOrDying'
    <3> SUFFICES ASSUME NEW k \in tokens, cache'[k].left >= 0
                 PROVE  (cache'[k].blocked <=> Decision(k)) \/ quiet + cache'[k].left <= CacheTtl
      BY <1>1, SameTables DEF EntriesRightOrDying
    <3> QED  BY <2>4, <2>5 DEF ReadersInv, EntriesRightOrDying
  <2> QED  BY <1>1, <2>3, <2>6, IdleKnowsNothing DEF ReadersInv
<1> QED  BY <1>4, <1>5 DEF AnswerRedirector, AnswerCheck

\* A tick takes from an entry what it adds to the rest of the tables.
LEMMA TickKeeps ==
  ASSUME ReadersInv, ReadersTick
  PROVE  ReadersInv'
<1>1. /\ ReadersTyped /\ ask.at = "idle"
      /\ UNCHANGED <<reader, tokens, row, tier, listed, ask>>
      /\ quiet' = IF quiet <= CacheTtl THEN quiet + 1 ELSE quiet
  BY DEF ReadersInv, ReadersTick
<1>2. ASSUME NEW k \in tokens
      PROVE  /\ cache'[k].blocked = cache[k].blocked
             /\ cache'[k] \in [blocked : BOOLEAN, left : -2 .. CacheTtl]
             /\ cache[k].left >= 0 => cache'[k].left = cache[k].left - 1
             /\ ~(cache[k].left >= 0) => cache'[k].left = cache[k].left
  <2>1. PICK old \in [blocked : BOOLEAN, left : -2 .. CacheTtl] : old = cache[k]
    BY <1>1 DEF ReadersTyped
  <2>2. cache'[k] = IF old.left >= 0 THEN [old EXCEPT !.left = old.left - 1] ELSE old
    BY <2>1 DEF ReadersTick
  <2> QED  BY <2>1, <2>2, ReadersAssumption
<1>3. ReadersTyped'
  <2>1. cache' \in [tokens -> [blocked : BOOLEAN, left : -2 .. CacheTtl]]
    <3>1. cache' = [k \in tokens |-> cache'[k]]
      BY DEF ReadersTick
    <3> QED  BY <1>2, <3>1
  <2>2. quiet' \in 0 .. CacheTtl + 1
    BY <1>1, ReadersAssumption DEF ReadersTyped
  <2> QED  BY <1>1, <2>1, <2>2 DEF ReadersTyped
<1>4. EntriesRightOrDying'
  <2> SUFFICES ASSUME NEW k \in tokens, cache'[k].left >= 0
               PROVE  (cache'[k].blocked <=> Decision(k)) \/ quiet' + cache'[k].left <= CacheTtl
    BY <1>1, SameTables DEF EntriesRightOrDying
  <2>1. PICK left \in -2 .. CacheTtl : left = cache[k].left
    BY <1>1 DEF ReadersTyped
  <2>2. left >= 1 /\ cache'[k].left = left - 1 /\ cache'[k].blocked = cache[k].blocked
    BY <1>2, <2>1
  <2>3. (cache[k].blocked <=> Decision(k)) \/ quiet + left <= CacheTtl
    BY <2>1, <2>2 DEF ReadersInv, EntriesRightOrDying
  <2>4. quiet + left <= CacheTtl => quiet' + (left - 1) <= CacheTtl
    BY <1>1, <2>2, ReadersAssumption DEF ReadersTyped
  <2> QED  BY <2>2, <2>3, <2>4
<1>5. SeenSoFar' /\ DisturbedIsRecent'
  BY <1>1 DEF SeenSoFar, DisturbedIsRecent
<1> QED  BY <1>3, <1>4, <1>5 DEF ReadersInv

-----------------------------------------------------------------------------
\* No step of a reader, of its tables or of the clock breaks the invariant.
LEMMA ReadersStep == ReadersInv /\ [ReadersNext]_readerVars => ReadersInv'
<1> SUFFICES ASSUME ReadersInv, [ReadersNext]_readerVars PROVE ReadersInv'
  OBVIOUS
<1>1. CASE \/ Trigger \/ UNCHANGED readerVars
           \/ \E k \in tokens : ServeCached(k)
  <2>1. UNCHANGED <<reader, tokens, row, tier, listed, ask, cache, quiet>>
    BY <1>1 DEF Trigger, ServeCached, readerVars
  <2>2. ReadersTyped' /\ DisturbedIsRecent'
    BY <2>1 DEF ReadersInv, ReadersTyped, DisturbedIsRecent
  <2>3. EntriesRightOrDying'
    BY <2>1, SameTables DEF ReadersInv, EntriesRightOrDying
  <2>4. ask'.steady => SeenSoFar'
    <3>1. SeenSoFar => SeenSoFar'
      BY <2>1 DEF SeenSoFar, ChannelDecides, Decision, VideoStops, ChannelStops
    <3> QED  BY <2>1, <3>1 DEF ReadersInv
  <2> QED  BY <2>2, <2>3, <2>4 DEF ReadersInv
<1> QED
  BY <1>1, ChangeKeeps, AskKeeps, VideoListedKeeps, StatusKeeps, RowKeeps, ChannelKeeps,
     FailureKeeps, AnswerKeeps, TickKeeps DEF ReadersNext

\* ReadersInv is an invariant of the readers.
THEOREM ReadersInvariant == ReadersSpec => []ReadersInv
<1>1. ReadersInit => ReadersInv
  <2> SUFFICES ASSUME ReadersInit PROVE ReadersInv
    OBVIOUS
  <2>1. /\ Idle \in [at : Places, token : Asked, status : Statuses, blocked : BOOLEAN,
                     steady : BOOLEAN]
        /\ Idle.at = "idle"
        /\ NoEntry \in [blocked : BOOLEAN, left : -2 .. CacheTtl] /\ NoEntry.left = -2
    BY StatusesRead, ReadersAssumption DEF Idle, Places, Asked, NoEntry
  <2>2. ReadersTyped
    BY <2>1, ReadersAssumption DEF ReadersInit, ReadersTyped
  <2>3. SeenSoFar /\ DisturbedIsRecent
    BY <2>1 DEF ReadersInit, SeenSoFar, DisturbedIsRecent
  <2>4. EntriesRightOrDying
    BY <2>1 DEF ReadersInit, EntriesRightOrDying
  <2> QED  BY <2>2, <2>3, <2>4 DEF ReadersInv
<1> QED
  BY <1>1, ReadersStep, PTL DEF ReadersSpec

\* Every reader, whatever it is asked about and whatever the tables hold, gives the answer
\* of one look at the tables if they stood still while it read them one query at a time.
THEOREM SteadyTablesAlwaysDecide == ReadersSpec => []SteadyTablesDecide
<1>1. ReadersInv => SteadyTablesDecide
  <2> SUFFICES ASSUME ReadersInv, ask.at = "answer", ask.steady
               PROVE  ask.blocked = Decision(ask.token)
    BY DEF SteadyTablesDecide
  <2>1. ask.blocked <=> Decision(ask.token)
    BY DEF ReadersInv, SeenSoFar
  <2>2. ask.blocked \in BOOLEAN /\ Decision(ask.token) \in BOOLEAN
    <3>1. ask.token \in Asked /\ ask.blocked \in BOOLEAN
      BY DEF ReadersInv, ReadersTyped
    <3> QED  BY <3>1 DEF Decision, Asked, VideoStops, ChannelStops
  <2> QED  BY <2>1, <2>2
<1> QED
  BY <1>1, ReadersInvariant, PTL

\* For any time to live and any size of the cache: once the tables have been at rest, and
\* readable, for longer than the time to live, the cache contradicts them in nothing.
THEOREM CacheAlwaysForgets == ReadersSpec => []CacheForgets
<1>1. ReadersInv => CacheForgets
  <2> SUFFICES ASSUME ReadersInv, NEW k \in tokens, Cached(k), quiet > CacheTtl
               PROVE  cache[k].blocked = Decision(k)
    BY DEF CacheForgets
  <2>1. /\ cache[k] \in [blocked : BOOLEAN, left : -2 .. CacheTtl] /\ cache[k].left >= 0
        /\ quiet \in Nat /\ CacheTtl \in Nat
    BY ReadersAssumption DEF ReadersInv, ReadersTyped, Cached
  <2>2. ~(quiet + cache[k].left <= CacheTtl)
    BY <2>1
  <2>3. cache[k].blocked <=> Decision(k)
    BY <2>1, <2>2 DEF ReadersInv, EntriesRightOrDying
  <2>4. cache[k].blocked \in BOOLEAN /\ Decision(k) \in BOOLEAN
    <3>1. k \in Asked
      BY TokensOfReader DEF ReadersInv
    <3> QED  BY <2>1, <3>1 DEF Decision, Asked, VideoStops, ChannelStops
  <2> QED  BY <2>3, <2>4
<1> QED
  BY <1>1, ReadersInvariant, PTL

================================================================================
