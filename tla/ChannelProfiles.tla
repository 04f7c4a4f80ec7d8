---------------------------- MODULE ChannelProfiles ----------------------------
(***************************************************************************)
(* The profile of a channel: after each analysis, and on request, a thread *)
(* reads the channel's record, counts its videos and writes the record     *)
(* anew, with nothing to keep another thread from doing so in between.     *)
(***************************************************************************)
EXTENDS Integers, FiniteSets

CONSTANTS
  ChannelVideos,  \* the videos of the channel
  Profilers,      \* the analysis threads, and those of the refresh endpoint
  FlagLimits,     \* values of channel_flag_percentage
  MaxMoments      \* bound: counts that change under one profile

ASSUME ChannelsAssumption ==
  IsFiniteSet(ChannelVideos) /\ FlagLimits \subseteq Nat /\ MaxMoments \in Nat

VARIABLES
  video,      \* video -> its status; "pending" also stands for a video without a row
  flagLimit,  \* channel_flag_percentage, as last saved
  channel,    \* the channel's record
  profiler,   \* thread -> where it is and what it has read
  moments,    \* history: thread -> the counts since its profile began
  limits      \* history: thread -> the limits since then

channelVars == <<video, flagLimit, channel, profiler, moments, limits>>

TierOrder == <<"allow", "monitor", "soft_block", "block">>
Rank(tier) == CHOOSE k \in 1 .. 4 : TierOrder[k] = tier

\* _escalate_tier()
Escalated(tier) == TierOrder[IF Rank(tier) < 4 THEN Rank(tier) + 1 ELSE 4]

NoChannel == [tier |-> "none", auto |-> FALSE, analyzed |-> 0, flagged |-> 0]
NoCount == [analyzed |-> 0, flagged |-> 0]
Tiering(c) == [tier |-> c.tier, auto |-> c.auto]
Resting == [at |-> "rest", existing |-> Tiering(NoChannel), count |-> NoCount,
            recommended |-> "allow"]

\* get_channel_flagged_stats() of a table: one query.
CountOf(table) ==
  [analyzed |-> Cardinality({v \in ChannelVideos : table[v] # "pending"}),
   flagged  |-> Cardinality({v \in ChannelVideos : table[v] = "block"})]

\* The share of flagged videos is at least pct percent.
Reaches(count, pct) == count.analyzed > 0 /\ count.flagged * 100 >= pct * count.analyzed

\* _score_to_channel_tier()
RecommendedTier(count, flag) ==
  CASE count.analyzed < 3                                        -> "allow"
    [] count.analyzed >= 3 /\ Reaches(count, IF 2 * flag < 70 THEN 2 * flag ELSE 70) -> "block"
    [] count.analyzed >= 3 /\ Reaches(count, flag)               -> "soft_block"
    [] count.analyzed >= 3 /\ count.flagged * 200 >= flag * count.analyzed -> "monitor"
    [] OTHER                                                     -> "allow"

ChannelsInit ==
  /\ video = [v \in ChannelVideos |-> "pending"]
  /\ flagLimit \in FlagLimits
  /\ channel = NoChannel
  /\ profiler = [t \in Profilers |-> Resting]
  /\ moments = [t \in Profilers |-> {}]
  /\ limits = [t \in Profilers |-> {}]

AtStep(t, step) == profiler[t].at = step

\* What every profile under way witnesses of a change.
Witnessed(old, now) == [t \in Profilers |-> IF AtStep(t, "rest") THEN old[t] ELSE old[t] \cup {now}]

\* A verdict, an override, a recalculation.
SetVideo(v, status) ==
  /\ \A t \in Profilers : Cardinality(moments[t]) < MaxMoments
  /\ video' = [video EXCEPT ![v] = status]
  /\ moments' = Witnessed(moments, CountOf(video'))
  /\ UNCHANGED <<flagLimit, channel, profiler, limits>>

SetFlagLimit(flag) ==
  /\ flagLimit' = flag
  /\ limits' = Witnessed(limits, flag)
  /\ UNCHANGED <<video, channel, profiler, moments>>

\* The record is read after the channel's metadata, which may be missing.
ReadChannel(t) ==
  /\ AtStep(t, "rest")
  /\ profiler' = [profiler EXCEPT ![t].at = "count", ![t].existing = Tiering(channel)]
  /\ moments' = [moments EXCEPT ![t] = {CountOf(video)}]
  /\ limits' = [limits EXCEPT ![t] = {flagLimit}]
  /\ UNCHANGED <<video, flagLimit, channel>>

\* A mistake: the counts of the record are carried on by one analysis.
CountCarriedOn(t) ==
  /\ AtStep(t, "count")
  /\ LET now == [analyzed |-> channel.analyzed + 1, flagged |-> channel.flagged]
     IN  profiler' = [profiler EXCEPT ![t].at = "decide", ![t].count = now,
                                      ![t].recommended = RecommendedTier(now, flagLimit)]
  /\ UNCHANGED <<video, flagLimit, channel, moments, limits>>

CountVideos(t) ==
  /\ AtStep(t, "count")
  /\ LET now == CountOf(video)
     IN  profiler' = [profiler EXCEPT ![t].at = "decide", ![t].count = now,
                                      ![t].recommended = RecommendedTier(now, flagLimit)]
  /\ UNCHANGED <<video, flagLimit, channel, moments, limits>>

\* A channel that has a record is escalated, unless that record has a higher tier it
\* was not escalated to.  The limit is read a second time.
FinalTier(p) ==
  LET recommended == p.recommended
      kept == /\ ~p.existing.auto
              /\ Rank(p.existing.tier) > Rank(recommended)
  IN  IF p.existing.tier = "none" \/ p.count.analyzed < 3 \/ ~Reaches(p.count, flagLimit)
      THEN [tier |-> recommended, auto |-> FALSE]
      ELSE IF kept THEN [tier |-> p.existing.tier, auto |-> FALSE]
      ELSE [tier |-> Escalated(recommended), auto |-> TRUE]

Rested(t) ==
  /\ profiler' = [profiler EXCEPT ![t] = Resting]
  /\ moments' = [moments EXCEPT ![t] = {}]
  /\ limits' = [limits EXCEPT ![t] = {}]

WriteChannel(t) ==
  /\ AtStep(t, "decide")
  /\ LET p == profiler[t]
         f == FinalTier(p)
     IN  channel' = [tier |-> f.tier, auto |-> f.auto,
                     analyzed |-> p.count.analyzed, flagged |-> p.count.flagged]
  /\ Rested(t)
  /\ UNCHANGED <<video, flagLimit>>

\* The database refuses the record, or the service ends.
ProfileFails(t) ==
  /\ ~AtStep(t, "rest")
  /\ Rested(t)
  /\ UNCHANGED <<video, flagLimit, channel>>

ChannelsNext ==
  \/ \E v \in ChannelVideos, s \in {"allow", "block", "pending"} : SetVideo(v, s)
  \/ \E flag \in FlagLimits : SetFlagLimit(flag)
  \/ \E t \in Profilers :
       ReadChannel(t) \/ CountVideos(t) \/ WriteChannel(t) \/ ProfileFails(t)

ChannelsSpec == ChannelsInit /\ [][ChannelsNext]_channelVars

-----------------------------------------------------------------------------
\* A record that is written describes the channel as it was at one moment of its
\* profile, and stops its videos only if three had been analysed at that moment and
\* their flagged share reached a limit in force meanwhile, or 70 percent where the limit
\* is higher.
ProfileDescribesAMoment ==
  [][\A t \in Profilers :
       (AtStep(t, "decide") /\ profiler'[t].at = "rest" /\ channel' # channel) =>
         LET count == [analyzed |-> channel'.analyzed, flagged |-> channel'.flagged]
         IN  /\ count \in moments[t]
             /\ channel'.tier \in {"soft_block", "block"} =>
                  /\ count.analyzed >= 3
                  /\ Reaches(count, 70) \/ \E flag \in limits[t] : Reaches(count, flag)
    ]_channelVars

=============================================================================
