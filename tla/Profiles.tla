------------------------------- MODULE Profiles --------------------------------
(***************************************************************************)
(* The profiles of devices, and the cache of which profile a client gets.  *)
(* Only the routes of profile_routes.py use the manager.  They are         *)
(* coroutines without an await, so each is one step; what a route does     *)
(* wrong about the cache shows in a later one.                             *)
(***************************************************************************)
EXTENDS Integers, FiniteSets

CONSTANTS
  ProfileIds,   \* the ids of the profiles there may be at a time
  Clients,      \* addresses
  RangeSets,    \* the clients that the ranges of a profile may hold
  Names,        \* numbers, for the order of the profiles' names
  ProfileTtl    \* CACHE_TTL in ticks

ASSUME ProfilesAssumption ==
  /\ ProfileIds \subseteq Nat \ {0} /\ Names \subseteq Nat /\ ProfileTtl \in Nat
  /\ RangeSets \subseteq SUBSET Clients

VARIABLES
  profile,    \* id -> its row, or NoProfile
  device,     \* the rows of profile_devices: pairs of a profile and a client
  assigned    \* client -> the profile the cache holds, and the entry's age

profileVars == <<profile, device, assigned>>

NoProfile == [name |-> 0, ranges |-> {}, enabled |-> FALSE, default |-> FALSE]
ProfileRows == [name : Names, ranges : RangeSets, enabled : BOOLEAN, default : BOOLEAN]
Existing == {p \in ProfileIds : profile[p] # NoProfile}

Unresolved == 0  \* no profile: the global settings apply
Uncached == [id |-> Unresolved, age |-> ProfileTtl]

ProfilesInit ==
  /\ profile = [p \in ProfileIds |-> NoProfile] /\ device = {}
  /\ assigned = [c \in Clients |-> Uncached]

-----------------------------------------------------------------------------
\* _resolve_profile(): the enabled profiles with the client in a range, defaults first
\* and then by name; the profile of its device; the default.  Where a query has no
\* order, any of its rows.
ByRange(c) == {p \in Existing : profile[p].enabled /\ c \in profile[p].ranges}

Before(p, q) ==
  \/ profile[p].default /\ ~profile[q].default
  \/ profile[p].default = profile[q].default /\ profile[p].name < profile[q].name

ByDevice(c) == {p \in Existing : profile[p].enabled /\ <<p, c>> \in device}

\* "LIMIT 1" comes before the test of enabled.
ByDefault == LET defaults == {p \in Existing : profile[p].default}
             IN  IF defaults = {} THEN {Unresolved}
                 ELSE {IF profile[p].enabled THEN p ELSE Unresolved : p \in defaults}

Resolutions(c) ==
  IF ByRange(c) # {} THEN {p \in ByRange(c) : ~\E q \in ByRange(c) : Before(q, p)}
  ELSE IF ByDevice(c) # {} THEN ByDevice(c)
  ELSE ByDefault

-----------------------------------------------------------------------------
\* _invalidate_cache()
Invalidated == assigned' = [c \in Clients |-> Uncached]

\* The table never gives an id twice; here the id of a deleted profile may come back,
\* which only makes it harder for the cache.
CreateProfile(p, row) ==
  /\ profile[p] = NoProfile
  /\ profile' = [profile EXCEPT ![p] = row]
  /\ Invalidated
  /\ UNCHANGED device

\* Any of its fields; another default stays one.
UpdateProfile(p, row) ==
  /\ p \in Existing
  /\ profile' = [profile EXCEPT ![p] = row]
  /\ Invalidated
  /\ UNCHANGED device

\* Its devices go with it.
DeleteProfile(p) ==
  /\ p \in Existing
  /\ profile' = [profile EXCEPT ![p] = NoProfile]
  /\ device' = {d \in device : d[1] # p}
  /\ Invalidated

WithDefault(p) == [q \in ProfileIds |->
                     IF q \in Existing THEN [profile[q] EXCEPT !.default = q = p] ELSE NoProfile]

\* A mistake: the route leaves it to the manager to find out that there is no such profile.
SetDefaultUnchecked(p) ==
  /\ profile' = WithDefault(p)
  /\ IF p \in Existing THEN Invalidated ELSE UNCHANGED assigned
  /\ UNCHANGED device

\* The cache is cleared if the profile exists, which the route has seen to.
SetDefault(p) ==
  /\ p \in Existing
  /\ profile' = WithDefault(p)
  /\ Invalidated
  /\ UNCHANGED device

AssignDevice(p, c) ==
  /\ p \in Existing
  /\ device' = device \cup {<<p, c>>}
  /\ Invalidated
  /\ UNCHANGED profile

RemoveDevice(d) ==
  /\ d \in device
  /\ device' = device \ {d}
  /\ Invalidated
  /\ UNCHANGED profile

\* get_profile_for_ip(): an entry serves until it expires.
Lookup(c) ==
  /\ assigned[c].age >= ProfileTtl
  /\ \E p \in Resolutions(c) : assigned' = [assigned EXCEPT ![c] = [id |-> p, age |-> 0]]
  /\ UNCHANGED <<profile, device>>

ProfilesTick ==
  /\ assigned' = [c \in Clients |-> IF assigned[c].age < ProfileTtl
                                    THEN [assigned[c] EXCEPT !.age = @ + 1] ELSE assigned[c]]
  /\ UNCHANGED <<profile, device>>

\* The service starts again.
ProfilesRestart ==
  /\ Invalidated
  /\ UNCHANGED <<profile, device>>

ProfilesNext ==
  \/ \E p \in ProfileIds, row \in ProfileRows : CreateProfile(p, row) \/ UpdateProfile(p, row)
  \/ \E p \in ProfileIds : DeleteProfile(p) \/ SetDefault(p)
  \/ \E p \in ProfileIds, c \in Clients : AssignDevice(p, c)
  \/ \E d \in device : RemoveDevice(d)
  \/ \E c \in Clients : Lookup(c)
  \/ ProfilesTick \/ ProfilesRestart

ProfilesSpec == ProfilesInit /\ [][ProfilesNext]_profileVars

-----------------------------------------------------------------------------
(* The thresholds of a client: "own" is what its profile sets of the limits.   *)
Limited == {"block", "soft", "monitor"}
Unlimited == 99999

Effective(mode, own, global) ==
  LET merged(base) == [l \in Limited |-> IF l \in DOMAIN own THEN own[l] ELSE base[l]]
  IN  CASE mode = "disabled"     -> global
        [] mode = "monitor_only" -> merged([global EXCEPT !["block"] = Unlimited, !["soft"] = Unlimited])
        [] mode = "standard"     -> merged(global)
        [] mode = "strict"       -> [l \in Limited |-> merged(global)["monitor"]]

\* _schedule_active(), with times in minutes and the day of now.
ScheduleActive(rule, day, now) ==
  /\ day \in rule.days
  /\ IF rule.start <= rule.end THEN rule.start <= now /\ now < rule.end
                               ELSE now >= rule.start \/ now < rule.end

-----------------------------------------------------------------------------
\* A lookup answers from the cache what it would answer without it, whatever sequence of
\* edits, expirations and other lookups came before.
CachedProfileIsCurrent ==
  \A c \in Clients : assigned[c].age < ProfileTtl => assigned[c].id \in Resolutions(c)

=============================================================================
