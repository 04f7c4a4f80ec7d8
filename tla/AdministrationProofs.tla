-------------------------- MODULE AdministrationProofs --------------------------
(***************************************************************************)
(* Proofs about the profiles of devices, the setup of Squid and of the     *)
(* firewall, the list of keywords, the trained models, the factory         *)
(* snapshot, the import of a configuration and the migrations of the       *)
(* database, for any profiles, clients, runs of the setup, words, models,  *)
(* snapshots, files, migrators and versions.                               *)
(***************************************************************************)
EXTENDS Sequences, Profiles, LinuxSetup, Keywords, MlModels, Snapshots, ConfigBundle,
        Migrations, FiniteSetTheorems, TLAPS

-----------------------------------------------------------------------------
(* The cache of the profiles.  The property says nothing of an entry that has     *)
(* expired; what makes it inductive is that only a lookup renews one.             *)

ProfilesInv ==
  /\ assigned \in [Clients -> [id : Int, age : 0 .. ProfileTtl]]
  /\ CachedProfileIsCurrent

\* An empty cache is right about every profile.
LEMMA EmptyCacheIsCurrent ==
  ASSUME Invalidated
  PROVE  ProfilesInv'
BY ProfilesAssumption DEF Invalidated, Uncached, Unresolved, ProfilesInv, CachedProfileIsCurrent

\* What a lookup finds is an id, or 0 for none.
LEMMA ResolutionIsId ==
  ASSUME NEW c \in Clients, NEW p \in Resolutions(c)
  PROVE  p \in Int
<1>1. ByRange(c) \subseteq ProfileIds /\ ByDevice(c) \subseteq ProfileIds
  BY DEF ByRange, ByDevice, Existing
<1>2. ByDefault \subseteq ProfileIds \cup {0}
  <2> DEFINE defaults == {q \in Existing : profile[q].default}
             chosen == {IF profile[q].enabled THEN q ELSE 0 : q \in defaults}
  <2>1. defaults \subseteq ProfileIds
    BY DEF Existing
  <2>2. chosen \subseteq ProfileIds \cup {0}
    BY <2>1
  <2>3. ByDefault = IF defaults = {} THEN {0} ELSE chosen
    BY DEF ByDefault, Unresolved
  <2> HIDE DEF chosen
  <2> QED
    BY <2>2, <2>3
<1>3. Resolutions(c) \subseteq ProfileIds \cup {0}
  BY <1>1, <1>2 DEF Resolutions
<1>4. p \in ProfileIds \cup {0}
  BY <1>3
<1>5. ProfileIds \subseteq Nat
  BY ProfilesAssumption
<1> QED
  BY <1>4, <1>5

\* As long as the tables stay, so do the answers.
LEMMA ResolutionsStay ==
  ASSUME UNCHANGED <<profile, device>>, NEW c \in Clients
  PROVE  Resolutions(c)' = Resolutions(c)
BY DEF Resolutions, ByRange, Before, ByDevice, ByDefault, Existing

LEMMA ProfilesStep ==
  ASSUME ProfilesInv, [ProfilesNext]_profileVars
  PROVE  ProfilesInv'
<1>1. CASE UNCHANGED profileVars
  BY <1>1, ResolutionsStay DEF profileVars, ProfilesInv, CachedProfileIsCurrent
<1>2. ASSUME NEW c \in Clients, Lookup(c)
      PROVE  ProfilesInv'
  <2>1. PICK p \in Resolutions(c) : assigned' = [assigned EXCEPT ![c] = [id |-> p, age |-> 0]]
    BY <1>2 DEF Lookup
  <2>2. p \in Int
    BY ResolutionIsId
  <2>3. assigned' \in [Clients -> [id : Int, age : 0 .. ProfileTtl]]
    BY <2>1, <2>2, ProfilesAssumption DEF ProfilesInv
  <2>4. ASSUME NEW d \in Clients, assigned'[d].age < ProfileTtl
        PROVE  assigned'[d].id \in Resolutions(d)'
    <3>1. Resolutions(d)' = Resolutions(d)
      BY <1>2, ResolutionsStay DEF Lookup
    <3>2. CASE d = c
      BY <2>1, <3>1, <3>2 DEF ProfilesInv
    <3>3. CASE d # c
      BY <2>1, <2>4, <3>1, <3>3 DEF ProfilesInv, CachedProfileIsCurrent
    <3> QED
      BY <3>2, <3>3
  <2> QED
    BY <2>3, <2>4 DEF ProfilesInv, CachedProfileIsCurrent
<1>3. CASE ProfilesTick
  <2>1. ASSUME NEW c \in Clients
        PROVE  /\ assigned'[c] \in [id : Int, age : 0 .. ProfileTtl]
               /\ assigned'[c].id = assigned[c].id
               /\ assigned'[c].age < ProfileTtl => assigned[c].age < ProfileTtl
    BY <1>3, ProfilesAssumption DEF ProfilesTick, ProfilesInv
  <2>2. assigned' \in [Clients -> [id : Int, age : 0 .. ProfileTtl]]
    BY <1>3, <2>1 DEF ProfilesTick
  <2>3. CachedProfileIsCurrent'
    BY <1>3, <2>1, ResolutionsStay DEF ProfilesTick, ProfilesInv, CachedProfileIsCurrent
  <2> QED
    BY <2>2, <2>3 DEF ProfilesInv
<1>4. CASE Invalidated
  BY <1>4, EmptyCacheIsCurrent
<1> QED
  BY <1>1, <1>2, <1>3, <1>4
  DEF ProfilesNext, CreateProfile, UpdateProfile, DeleteProfile, SetDefault, AssignDevice,
      RemoveDevice, ProfilesRestart

\* Whatever is edited, assigned, expires or is looked up, in any order, the cache answers as
\* the tables would.
THEOREM CacheAlwaysCurrent == ProfilesSpec => []CachedProfileIsCurrent
<1>1. ProfilesInit => ProfilesInv
  BY ProfilesAssumption DEF ProfilesInit, Uncached, Unresolved, ProfilesInv, CachedProfileIsCurrent
<1>2. ProfilesInv => CachedProfileIsCurrent
  BY DEF ProfilesInv
<1> QED
  BY <1>1, <1>2, ProfilesStep, PTL DEF ProfilesSpec

-----------------------------------------------------------------------------
(* The rules of the firewall.  A run that has looked for a rule and not added it yet *)
(* counts as well: otherwise two of them could pass the bound together.              *)

Pending(k) == {s \in Setups : setup[s] = Adding[k]}

Steps == {"away", "save"} \cup Kinds \cup {Adding[k] : k \in Kinds}

FirewallInv ==
  /\ rules \in [Kinds -> Nat] /\ persisted \in [Kinds -> Nat]
  /\ setup \in [Setups -> Steps] /\ doubts \in Nat
  /\ \A k \in Kinds : /\ rules[k] + Cardinality(Pending(k)) <= Cardinality(Setups) + doubts
                      /\ persisted[k] <= Cardinality(Setups) + doubts

\* The steps of the two kinds have names of their own.
LEMMA StepNames ==
  /\ Kinds = {"redirect", "quic"}
  /\ \A k \in Kinds : /\ Adding[k] \in {"addRedirect", "addQuic"} /\ AfterRule[k] \in {"quic", "save"}
                      /\ \A j \in Kinds : Adding[j] = Adding[k] => j = k
BY DEF Kinds, Adding, AfterRule

\* There are never more runs about to add a rule than runs.
LEMMA PendingBounded ==
  ASSUME NEW k \in Kinds
  PROVE  /\ IsFiniteSet(Setups) /\ Cardinality(Setups) \in Nat
         /\ IsFiniteSet(Pending(k)) /\ Cardinality(Pending(k)) \in Nat
         /\ Cardinality(Pending(k)) <= Cardinality(Setups)
<1>1. Pending(k) \subseteq Setups
  BY DEF Pending
<1> QED
  BY <1>1, FirewallAssumption, FS_Subset, FS_CardinalityType

\* A run that turns to another step.
LEMMA PendingTurns ==
  ASSUME FirewallInv, NEW s \in Setups, NEW x \in Steps, Turns(s, x), NEW k \in Kinds
  PROVE  Cardinality(Pending(k))' =
           IF x = Adding[k] THEN IF setup[s] = Adding[k] THEN Cardinality(Pending(k))
                                 ELSE Cardinality(Pending(k)) + 1
           ELSE IF setup[s] = Adding[k] THEN Cardinality(Pending(k)) - 1
                ELSE Cardinality(Pending(k))
<1>1. setup' = [setup EXCEPT ![s] = x]
  BY DEF Turns
<1>2. x = Adding[k] => Pending(k)' = Pending(k) \cup {s}
  BY <1>1 DEF Pending, FirewallInv
<1>3. x # Adding[k] => Pending(k)' = Pending(k) \ {s}
  BY <1>1 DEF Pending, FirewallInv
<1>4. s \in Pending(k) <=> setup[s] = Adding[k]
  BY DEF Pending
<1>5. IsFiniteSet(Pending(k))
  BY PendingBounded
<1> QED
  BY <1>2, <1>3, <1>4, <1>5, FS_AddElement, FS_RemoveElement

\* A run that is not about to add a rule afterwards.
LEMMA PendingDrops ==
  ASSUME FirewallInv, NEW s \in Setups, NEW x \in Steps, Turns(s, x), NEW k \in Kinds,
         x # Adding[k]
  PROVE  /\ Cardinality(Pending(k))' \in Nat
         /\ Cardinality(Pending(k))' <= Cardinality(Pending(k))
         /\ setup[s] = Adding[k] => Cardinality(Pending(k))' + 1 = Cardinality(Pending(k))
<1>1. Cardinality(Pending(k)) \in Nat /\ IsFiniteSet(Pending(k))
  BY PendingBounded
<1>2. setup[s] = Adding[k] => Cardinality(Pending(k)) # 0
  BY <1>1, FS_EmptySet DEF Pending
<1> QED
  BY <1>1, <1>2, PendingTurns

\* The invariant after a run has turned to another step: the numbers are what matters.
LEMMA RunTurns ==
  ASSUME FirewallInv, NEW s \in Setups, NEW x \in Steps, Turns(s, x),
         rules' \in [Kinds -> Nat], persisted' \in [Kinds -> Nat],
         doubts' \in Nat, doubts <= doubts',
         \A k \in Kinds : /\ rules'[k] + Cardinality(Pending(k))' <= Cardinality(Setups) + doubts'
                          /\ persisted'[k] \in {persisted[k], rules[k]}
  PROVE  FirewallInv'
<1>1. setup' \in [Setups -> Steps]
  BY DEF Turns, FirewallInv
<1>2. ASSUME NEW k \in Kinds
      PROVE  persisted'[k] <= Cardinality(Setups) + doubts'
  <2>1. Cardinality(Pending(k)) \in Nat /\ Cardinality(Setups) \in Nat
    BY PendingBounded
  <2>2. persisted[k] <= Cardinality(Setups) + doubts /\ rules[k] <= Cardinality(Setups) + doubts
    BY <2>1 DEF FirewallInv
  <2>3. persisted[k] \in Nat /\ rules[k] \in Nat /\ doubts \in Nat
    BY DEF FirewallInv
  <2> QED
    BY <2>1, <2>2, <2>3
<1> QED
  BY <1>1, <1>2 DEF FirewallInv

\* A run turns to a step that adds no rule, and no rule is added that was not pending.
LEMMA RunDrops ==
  ASSUME FirewallInv, NEW s \in Setups, NEW x \in Steps, Turns(s, x),
         \A k \in Kinds : x # Adding[k],
         rules' \in [Kinds -> Nat], persisted' \in {persisted, rules}, doubts' = doubts,
         \A k \in Kinds : rules'[k] <= rules[k] + (IF setup[s] = Adding[k] THEN 1 ELSE 0)
  PROVE  FirewallInv'
<1>1. ASSUME NEW k \in Kinds
      PROVE  rules'[k] + Cardinality(Pending(k))' <= Cardinality(Setups) + doubts'
  <2>1. /\ Cardinality(Pending(k)) \in Nat /\ Cardinality(Setups) \in Nat
        /\ Cardinality(Pending(k))' \in Nat
        /\ Cardinality(Pending(k))' <= Cardinality(Pending(k))
        /\ setup[s] = Adding[k] => Cardinality(Pending(k))' + 1 = Cardinality(Pending(k))
    BY PendingBounded, PendingDrops
  <2>2. rules[k] + Cardinality(Pending(k)) <= Cardinality(Setups) + doubts
    BY DEF FirewallInv
  <2>3. rules[k] \in Nat /\ rules'[k] \in Nat /\ doubts \in Nat
    BY DEF FirewallInv
  <2> QED
    BY <2>1, <2>2, <2>3
<1>2. /\ persisted' \in [Kinds -> Nat] /\ doubts' \in Nat /\ doubts <= doubts'
      /\ \A k \in Kinds : persisted'[k] \in {persisted[k], rules[k]}
  BY DEF FirewallInv
<1> QED
  BY <1>1, <1>2, RunTurns

LEMMA FirewallStep ==
  ASSUME FirewallInv, [FirewallNext]_firewallVars
  PROVE  FirewallInv'
<1>1. CASE UNCHANGED firewallVars
  BY <1>1 DEF firewallVars, FirewallInv, Pending
<1>2. ASSUME NEW s \in Setups, SetUp(s) \/ SkipQuic(s) \/ SaveRules(s)
      PROVE  FirewallInv'
  <2>1. PICK x \in {"redirect", "save", "away"} : Turns(s, x)
    BY <1>2 DEF SetUp, SkipQuic, SaveRules
  <2>2. x \in Steps /\ \A k \in Kinds : x # Adding[k]
    BY StepNames DEF Steps
  <2>3. rules' = rules /\ persisted' \in {persisted, rules} /\ doubts' = doubts
    BY <1>2 DEF SetUp, SkipQuic, SaveRules
  <2>4. \A k \in Kinds : rules[k] \in Nat
    BY DEF FirewallInv
  <2>5. \A k \in Kinds : rules'[k] <= rules[k] + (IF setup[s] = Adding[k] THEN 1 ELSE 0)
    BY <2>3, <2>4
  <2>6. rules' \in [Kinds -> Nat]
    BY <2>3 DEF FirewallInv
  <2> QED
    BY <2>1, <2>2, <2>3, <2>5, <2>6, RunDrops
<1>3. ASSUME NEW s \in Setups, NEW k \in Kinds, AddRule(s, k)
      PROVE  FirewallInv'
  <2>1. Turns(s, AfterRule[k]) /\ setup[s] = Adding[k]
    BY <1>3 DEF AddRule
  <2>2. AfterRule[k] \in Steps /\ \A j \in Kinds : AfterRule[k] # Adding[j]
    BY StepNames DEF Steps
  <2>3. persisted' = persisted /\ doubts' = doubts
    BY <1>3 DEF AddRule
  <2>4. /\ rules' \in [Kinds -> Nat]
        /\ \A j \in Kinds : rules'[j] <= rules[j] + (IF setup[s] = Adding[j] THEN 1 ELSE 0)
    <3>1. \A j \in Kinds : rules[j] \in Nat
      BY DEF FirewallInv
    <3>2. CASE rules' = rules
      BY <3>1, <3>2 DEF FirewallInv
    <3>3. CASE rules' = [rules EXCEPT ![k] = @ + 1]
      BY <2>1, <3>1, <3>3 DEF FirewallInv
    <3> QED
      BY <1>3, <3>2, <3>3 DEF AddRule
  <2> QED
    BY <2>1, <2>2, <2>3, <2>4, RunDrops
<1>4. ASSUME NEW s \in Setups, NEW k \in Kinds, CheckRule(s, k)
      PROVE  FirewallInv'
  <2>1. rules' = rules /\ persisted' = persisted /\ setup[s] = k
    BY <1>4 DEF CheckRule
  <2>2. rules[k] \in Nat /\ doubts \in Nat /\ rules' \in [Kinds -> Nat]
    BY <2>1 DEF FirewallInv
  <2>3. CASE Turns(s, AfterRule[k]) /\ doubts' = doubts
    <3>1. AfterRule[k] \in Steps /\ \A j \in Kinds : AfterRule[k] # Adding[j]
      BY StepNames DEF Steps
    <3>2. \A j \in Kinds : rules'[j] <= rules[j] + (IF setup[s] = Adding[j] THEN 1 ELSE 0)
      BY <2>1 DEF FirewallInv
    <3> QED
      BY <2>1, <2>2, <2>3, <3>1, <3>2, RunDrops
  <2>4. CASE /\ Turns(s, Adding[k])
             /\ \/ rules[k] = 0 /\ doubts' = doubts
                \/ doubts' = doubts + 1
    <3>1. Adding[k] \in Steps
      BY DEF Steps
    <3>2. setup[s] # Adding[k]
      BY <2>1, StepNames
    <3>3. ASSUME NEW j \in Kinds
          PROVE  rules'[j] + Cardinality(Pending(j))' <= Cardinality(Setups) + doubts'
      <4>1. /\ Cardinality(Pending(j)) \in Nat /\ Cardinality(Setups) \in Nat
            /\ Cardinality(Pending(j)) <= Cardinality(Setups)
        BY PendingBounded
      <4>2. rules[j] + Cardinality(Pending(j)) <= Cardinality(Setups) + doubts /\ rules[j] \in Nat
        BY DEF FirewallInv
      <4>3. CASE j # k
        <5>1. Adding[j] # Adding[k]
          BY <4>3, StepNames
        <5>2. Cardinality(Pending(j))' <= Cardinality(Pending(j)) /\ Cardinality(Pending(j))' \in Nat
          BY <2>4, <3>1, <5>1, PendingDrops
        <5> QED
          BY <2>1, <2>2, <2>4, <4>1, <4>2, <5>2
      <4>4. CASE j = k
        <5>1. Cardinality(Pending(k))' = Cardinality(Pending(k)) + 1
          BY <2>4, <3>1, <3>2, PendingTurns
        <5>2. CASE doubts' = doubts + 1
          BY <2>1, <2>2, <4>1, <4>2, <4>4, <5>1, <5>2
        <5>3. CASE rules[k] = 0 /\ doubts' = doubts
          <6>1. s \in Setups \ Pending(k) /\ IsFiniteSet(Setups)
            BY <3>2, PendingBounded DEF Pending
          <6>2. Cardinality(Pending(k)) <= Cardinality(Setups \ {s})
            BY <6>1, FS_Subset, FS_RemoveElement DEF Pending
          <6>3. Cardinality(Setups \ {s}) = Cardinality(Setups) - 1
            BY <6>1, FS_RemoveElement
          <6> QED
            BY <2>1, <2>2, <4>1, <4>2, <4>4, <5>1, <5>3, <6>2, <6>3
        <5> QED
          BY <2>4, <5>2, <5>3
      <4> QED
        BY <4>3, <4>4
    <3>4. persisted' \in [Kinds -> Nat] /\ \A j \in Kinds : persisted'[j] \in {persisted[j], rules[j]}
      BY <2>1 DEF FirewallInv
    <3>5. doubts' \in Nat /\ doubts <= doubts'
      BY <2>2, <2>4
    <3> QED
      BY <2>2, <2>4, <3>1, <3>3, <3>4, <3>5, RunTurns
  <2> QED
    BY <1>4, <2>3, <2>4 DEF CheckRule
<1>5. CASE RemoveRules
  <2>1. rules' \in [Kinds -> Nat] /\ \A k \in Kinds : rules'[k] <= rules[k]
    BY <1>5, StepNames DEF RemoveRules, FirewallInv
  <2>2. \A k \in Kinds : Pending(k)' = Pending(k)
    BY <1>5 DEF RemoveRules, Pending
  <2> QED
    BY <1>5, <2>1, <2>2, PendingBounded DEF RemoveRules, FirewallInv
<1>6. CASE FirewallReboot
  <2>1. \A k \in Kinds : Pending(k)' = {}
    BY <1>6, StepNames DEF FirewallReboot, Pending
  <2>2. \A k \in Kinds : Cardinality(Pending(k))' = 0
    BY <2>1, FS_EmptySet
  <2> QED
    BY <1>6, <2>2 DEF FirewallReboot, FirewallInv, Steps
<1> QED
  BY <1>1, <1>2, <1>3, <1>4, <1>5, <1>6 DEF FirewallNext

\* Before the first run there is no rule and nobody is about to add one.
LEMMA FirewallInvInit == FirewallInit => FirewallInv
<1> SUFFICES ASSUME FirewallInit PROVE FirewallInv
  OBVIOUS
<1>1. \A k \in Kinds : Pending(k) = {}
  BY StepNames DEF FirewallInit, Pending
<1>2. \A k \in Kinds : Cardinality(Pending(k)) = 0
  BY <1>1, FS_EmptySet
<1>3. Cardinality(Setups) \in Nat
  BY FirewallAssumption, FS_CardinalityType
<1> QED
  BY <1>2, <1>3 DEF FirewallInit, FirewallInv, Steps

\* The rules are fewer than those that are there or about to be.
LEMMA FirewallInvBounds == FirewallInv => RulesDoNotPileUp
<1> SUFFICES ASSUME FirewallInv, NEW k \in Kinds
             PROVE  rules[k] <= Cardinality(Setups) + doubts
  BY DEF RulesDoNotPileUp
<1>1. Cardinality(Pending(k)) \in Nat /\ Cardinality(Setups) \in Nat
  BY PendingBounded
<1> QED
  BY <1>1 DEF FirewallInv

\* However many runs of the setup overlap, and whatever uninstalls, reboots and failed checks
\* come between them, a kind of rule is there at most once for each run and for each check
\* that failed although the rule was there.
THEOREM RulesNeverPileUp == FirewallSpec => []RulesDoNotPileUp
  BY FirewallInvInit, FirewallStep, FirewallInvBounds, PTL DEF FirewallSpec

-----------------------------------------------------------------------------
(* The line in squid.conf.  The helper decides to insert it in one step and does  *)
(* so in another, but there is only one helper, and nobody else inserts.          *)

SquidInv == include \in {0, 1} /\ (helper = "insert" => include = 0)

\* Neither half of the setup touches what the other half's invariant is about.
LEMMA HalvesApart ==
  ASSUME [SetupNext]_<<squidVars, firewallVars>>
  PROVE  /\ [SquidNext]_squidVars
         /\ [FirewallNext]_firewallVars
BY DEF SetupNext

\* No step of the wizards, the helper and the uninstaller includes the snippet twice.
LEMMA SquidStep ==
  ASSUME SquidInv, [SquidNext]_squidVars
  PROVE  SquidInv'
<1>1. CASE HelperReads
  BY <1>1 DEF HelperReads, SquidInv
<1>2. CASE HelperInserts
  BY <1>2 DEF HelperInserts, SquidInv
<1>3. CASE HelperParses
  BY <1>3 DEF HelperParses, SquidInv
<1>4. CASE HelperCopies \/ SquidReboot
  BY <1>4 DEF HelperCopies, SquidReboot, SquidInv
<1>5. ASSUME NEW w \in Wizards, StartHelper(w) PROVE SquidInv'
  BY <1>5 DEF StartHelper, SquidInv
<1>6. CASE UNCHANGED <<include, helper>>
  BY <1>6 DEF SquidInv
<1> QED
  BY <1>1, <1>2, <1>3, <1>4, <1>5, <1>6
     DEF SquidNext, Apply, LeaveOut, LookForCa, CreateCa, WriteSnippets, LookAtConf,
         HelperReturns, InstallHelpers, MarkComplete, Leave, RemoveDenyRules, RemoveCa,
         RemoveHelpers, RemoveFlag, LookForFlag, squidVars

\* However many wizards overlap, and whatever uninstalls, reboots, fatal errors and failed
\* checks come between them, squid.conf includes the snippet at most once, and a kind of
\* rule is there at most once for each run and for each check that was wrong.
THEOREM SetupNeverPilesUp == SetupSpec => []SetupDoesNotPileUp
<1>1. SetupInit => SquidInv /\ FirewallInv
  BY FirewallInvInit DEF SetupInit, SquidInit, SquidInv
<1>2. SquidInv /\ FirewallInv /\ [SetupNext]_<<squidVars, firewallVars>> => (SquidInv /\ FirewallInv)'
  BY HalvesApart, SquidStep, FirewallStep
<1>3. SquidInv /\ FirewallInv => SetupDoesNotPileUp
  BY FirewallInvBounds DEF SquidInv, IncludedOnce, SetupDoesNotPileUp
<1> QED
  BY <1>1, <1>2, <1>3, PTL DEF SetupSpec

-----------------------------------------------------------------------------
(* The synchronisation of the keywords.  A crash in the middle leaves the list of one     *)
(* synchronisation with the hash of an older one, so the invariant speaks of every moment *)
(* and of both lists.                                                                     *)

\* Merging the list would change nothing, word by word.
Covers(list) ==
  \A w \in Words : CASE strategy = "additive"       -> Loaded[w] = 0 => list[w] = 0
                     [] strategy = "weighted_merge" -> list[w] <= Loaded[w]
                     [] OTHER                       -> TRUE

KeywordsTypeOK ==
  /\ words \in Lists \cup {Torn} /\ saved \in Lists \cup {Torn, NoList}
  /\ community \in Lists /\ synced \in Lists \cup {NoList}
  /\ strategy \in Strategies \cup {"off"} /\ untouched \in BOOLEAN
  /\ sync \in {"idle", "backup", "write", "hash", "rollback"}

KeywordsInv ==
  /\ KeywordsTypeOK
  /\ sync = "hash" => Covers(community)
  /\ synced # NoList /\ untouched => Covers(synced)
  /\ sync \in {"backup", "write", "hash"} => strategy \in Strategies
  /\ sync = "rollback" => ~untouched /\ saved # NoList

\* The list in memory is one of weights, whatever the file holds.
LEMMA LoadedTyped ==
  ASSUME words \in Lists \cup {Torn}
  PROVE  Loaded \in Lists
BY KeywordsAssumption DEF Loaded, Lists, Empty

\* The pointwise form says what the property says.
LEMMA CoveredIsMerged ==
  ASSUME words \in Lists \cup {Torn}, NEW list \in Lists, Covers(list),
         strategy \in {"additive", "weighted_merge"}
  PROVE  Merge(Loaded, list, strategy) = Loaded
<1>1. Loaded \in Lists
  BY LoadedTyped
<1>2. Loaded = [w \in Words |-> Loaded[w]]
  BY <1>1 DEF Lists
<1>3. \A w \in Words : Loaded[w] \in Nat /\ list[w] \in Nat
  BY <1>1, KeywordsAssumption DEF Lists
<1>4. CASE strategy = "additive"
  <2>1. Merge(Loaded, list, strategy) = [w \in Words |-> IF Loaded[w] = 0 THEN list[w] ELSE Loaded[w]]
    BY <1>4 DEF Merge
  <2>2. \A w \in Words : (IF Loaded[w] = 0 THEN list[w] ELSE Loaded[w]) = Loaded[w]
    BY <1>4 DEF Covers
  <2> QED
    BY <1>2, <2>1, <2>2
<1>5. CASE strategy = "weighted_merge"
  <2>1. Merge(Loaded, list, strategy)
          = [w \in Words |-> IF list[w] > Loaded[w] THEN list[w] ELSE Loaded[w]]
    BY <1>5 DEF Merge
  <2>2. \A w \in Words : (IF list[w] > Loaded[w] THEN list[w] ELSE Loaded[w]) = Loaded[w]
    BY <1>3, <1>5 DEF Covers
  <2> QED
    BY <1>2, <2>1, <2>2
<1> QED
  BY <1>4, <1>5

\* Without a difference there is nothing to merge.
LEMMA NoDiffIsCovered ==
  ASSUME KeywordsTypeOK, Diff(Loaded, community, strategy) = {}
  PROVE  Covers(community)
<1>1. Loaded \in Lists /\ community \in Lists
  BY LoadedTyped DEF KeywordsTypeOK
<1>2. \A w \in Words : Loaded[w] \in Nat /\ community[w] \in Nat
  BY <1>1, KeywordsAssumption DEF Lists
<1>3. \A w \in Words : ~(Loaded[w] = 0 /\ community[w] > 0)
  BY DEF Diff
<1>4. strategy = "weighted_merge" => \A w \in Words : ~(0 < Loaded[w] /\ Loaded[w] < community[w])
  BY DEF Diff
<1> QED
  BY <1>2, <1>3, <1>4 DEF Covers

\* What has been merged covers the community's list, and what was covered before.
LEMMA MergedCovers ==
  ASSUME KeywordsTypeOK, strategy \in Strategies, UNCHANGED strategy,
         words' = Merge(Loaded, community, strategy)
  PROVE  /\ words' \in Lists
         /\ community' = community => Covers(community)'
         /\ \A list \in Lists : Covers(list) => Covers(list)'
<1>1. Loaded \in Lists /\ community \in Lists
  BY LoadedTyped DEF KeywordsTypeOK
<1>2. \A w \in Words : Loaded[w] \in Nat /\ community[w] \in Nat
  BY <1>1, KeywordsAssumption DEF Lists
<1>3. words' \in Lists
  BY <1>1 DEF Merge, Strategies, Lists
<1>4. \A w \in Words : words'[w] # -1
  BY <1>3, KeywordsAssumption DEF Lists
<1>5. \A w \in Words : Loaded'[w] = words'[w]
  BY <1>4 DEF Loaded, Torn
<1>6. strategy = "additive" =>
        \A w \in Words : words'[w] = IF Loaded[w] = 0 THEN community[w] ELSE Loaded[w]
  BY DEF Merge
<1>7. strategy = "weighted_merge" =>
        \A w \in Words : words'[w] = IF community[w] > Loaded[w] THEN community[w] ELSE Loaded[w]
  BY DEF Merge
<1>8. community' = community => Covers(community)'
  BY <1>2, <1>5, <1>6, <1>7 DEF Covers
<1>9. ASSUME NEW list \in Lists, Covers(list)
      PROVE  Covers(list)'
  <2>1. \A w \in Words : list[w] \in Nat
    BY KeywordsAssumption DEF Lists
  <2> QED
    BY <1>2, <1>5, <1>6, <1>7, <1>9, <2>1 DEF Covers
<1> QED
  BY <1>3, <1>8, <1>9

LEMMA KeywordsStep ==
  ASSUME KeywordsInv, [KeywordsNext]_keywordVars
  PROVE  KeywordsInv'
<1>0. KeywordsTypeOK
  BY DEF KeywordsInv
<1>1. CASE UNCHANGED keywordVars
  BY <1>1 DEF keywordVars, KeywordsInv, KeywordsTypeOK, Covers, Loaded
<1>2. ASSUME NEW list \in Lists, CommunityChanges(list)
      PROVE  KeywordsInv'
  BY <1>2 DEF CommunityChanges, KeywordsInv, KeywordsTypeOK, Covers, Loaded
<1>3. ASSUME NEW list \in Lists, EditWords(list)
      PROVE  KeywordsInv'
  BY <1>3 DEF EditWords, KeywordsInv, KeywordsTypeOK
<1>4. ASSUME NEW how \in Strategies \cup {"off"}, ChooseStrategy(how)
      PROVE  KeywordsInv'
  BY <1>4 DEF ChooseStrategy, KeywordsInv, KeywordsTypeOK
<1>5. CASE Sync
  <2>1. KeywordsTypeOK' /\ (synced' # NoList /\ untouched' => Covers(synced)')
    BY <1>5 DEF Sync, KeywordsInv, KeywordsTypeOK, Covers, Loaded
  <2>2. sync' = "hash" => Covers(community)
    BY <1>0, <1>5, NoDiffIsCovered DEF Sync
  <2>3. sync' = "hash" => Covers(community)'
    BY <1>5, <2>2 DEF Sync, Covers, Loaded
  <2> QED
    BY <1>5, <2>1, <2>3 DEF Sync, KeywordsInv, KeywordsTypeOK
<1>6. CASE BackUpWords
  BY <1>6 DEF BackUpWords, KeywordsInv, KeywordsTypeOK, Covers, Loaded
<1>7. CASE WriteMerged
  <2>1. CASE UNCHANGED words /\ sync' = "idle"
    BY <1>7, <2>1 DEF WriteMerged, KeywordsInv, KeywordsTypeOK, Covers, Loaded
  <2>2. CASE words' = Merge(Loaded, community, strategy) /\ sync' = "hash"
    <3>1. /\ strategy \in Strategies
          /\ UNCHANGED <<saved, community, synced, strategy, untouched>>
      BY <1>7 DEF WriteMerged, KeywordsInv
    <3>2. /\ words' \in Lists /\ Covers(community)'
          /\ \A list \in Lists : Covers(list) => Covers(list)'
      BY <1>0, <2>2, <3>1, MergedCovers
    <3>3. synced # NoList /\ untouched => Covers(synced)'
      <4>1. PICK list : list = synced
        OBVIOUS
      <4> QED
        BY <3>1, <3>2, <4>1 DEF KeywordsInv, KeywordsTypeOK, Covers
    <3> QED
      BY <2>2, <3>1, <3>2, <3>3 DEF KeywordsInv, KeywordsTypeOK
  <2> QED
    BY <1>7, <2>1, <2>2 DEF WriteMerged
<1>8. CASE SaveHash
  BY <1>8 DEF SaveHash, KeywordsInv, KeywordsTypeOK, Covers, Loaded
<1>9. CASE RollbackBegins
  BY <1>9 DEF RollbackBegins, KeywordsInv, KeywordsTypeOK
<1>10. CASE RollbackEnds
  <2>1. words' \in {saved, Torn} /\ sync = "rollback" /\ sync' = "idle"
    BY <1>10 DEF RollbackEnds
  <2>2. UNCHANGED <<saved, community, synced, strategy, untouched>>
    BY <1>10 DEF RollbackEnds
  <2>3. ~untouched /\ saved # NoList
    BY <2>1 DEF KeywordsInv
  <2> QED
    BY <1>0, <2>1, <2>2, <2>3 DEF KeywordsInv, KeywordsTypeOK
<1>11. CASE KeywordsCrash
  <2>1. /\ sync' = "idle" /\ saved' \in {saved, Torn}
        /\ UNCHANGED <<words, community, synced, strategy, untouched>>
    BY <1>11 DEF KeywordsCrash
  <2> QED
    BY <2>1 DEF KeywordsInv, KeywordsTypeOK, Covers, Loaded
<1> QED
  BY <1>1, <1>2, <1>3, <1>4, <1>5, <1>6, <1>7, <1>8, <1>9, <1>10, <1>11 DEF KeywordsNext

\* Whatever fails, is interrupted or rolled back: as long as nobody else touches the list or
\* the strategy, a list whose hash is saved has been merged, for any words and weights.
THEOREM SyncedAlwaysMerged == KeywordsSpec => []SyncedIsMerged
<1>1. KeywordsInit => KeywordsInv
  BY KeywordsAssumption DEF KeywordsInit, KeywordsInv, KeywordsTypeOK, Strategies, Lists, Empty
<1>2. KeywordsInv => SyncedIsMerged
  <2> SUFFICES ASSUME KeywordsInv, synced # NoList, untouched, sync = "idle",
                      strategy \in {"additive", "weighted_merge"}
               PROVE  Merge(Loaded, synced, strategy) = Loaded
    BY DEF SyncedIsMerged
  <2>1. PICK list : list = synced
    OBVIOUS
  <2>2. list \in Lists /\ Covers(list) /\ words \in Lists \cup {Torn}
    BY <2>1 DEF KeywordsInv, KeywordsTypeOK, Covers
  <2> QED
    BY <2>1, <2>2, CoveredIsMerged
<1> QED
  BY <1>1, <1>2, KeywordsStep, PTL DEF KeywordsSpec

-----------------------------------------------------------------------------
(* The models of the classifier.  While a training or a rollback is between the   *)
(* stable file and the memory, the two differ; the trainer then knows which model  *)
(* the stable file holds.                                                          *)

ModelsInv ==
  /\ latest \in Nat
  /\ trainer \in {Idle} \cup [at : {"version", "stable", "prune", "serve", "copy"}, model : Nat]
  /\ trainer.at \in {"prune", "serve"} => stable = trainer.model
  /\ trainer.at \notin {"prune", "serve"} /\ stable \notin {NoModel, TornModel} => serving = stable

LEMMA ModelsStep == ModelsInv /\ [ModelsNext]_modelVars => ModelsInv'
<1> SUFFICES ASSUME ModelsInv, [ModelsNext]_modelVars PROVE ModelsInv'
  OBVIOUS
<1> USE DEF ModelsInv, Idle
<1>1. ASSUME NEW labels \in Labels, Train(labels) PROVE ModelsInv'
  BY <1>1 DEF Train
<1>2. CASE DumpVersion
  <2>1. trainer \in [at : {"version"}, model : Nat]
    BY <1>2 DEF DumpVersion
  <2>2. trainer'.at \in {"stable", "idle"} /\ trainer' \in {Idle} \cup [at : {"stable"}, model : Nat]
    BY <1>2, <2>1 DEF DumpVersion
  <2> QED
    BY <1>2, <2>1, <2>2 DEF DumpVersion
<1>3. CASE DumpStable
  <2>1. trainer \in [at : {"stable"}, model : Nat]
    BY <1>3 DEF DumpStable
  <2> QED
    BY <1>3, <2>1 DEF DumpStable
<1>4. CASE Prune
  <2>1. trainer \in [at : {"prune"}, model : Nat]
    BY <1>4 DEF Prune
  <2> QED
    BY <1>4, <2>1 DEF Prune
<1>5. CASE Serve
  BY <1>5 DEF Serve
<1>6. ASSUME NEW n \in 1 .. MaxModels, Rollback(n) PROVE ModelsInv'
  BY <1>6 DEF Rollback
<1>7. CASE CopyToStable
  <2>1. trainer \in [at : {"copy"}, model : Nat]
    BY <1>7 DEF CopyToStable
  <2> QED
    BY <1>7, <2>1 DEF CopyToStable
<1>8. CASE ModelsRestart
  <2>1. trainer' = Idle
    BY <1>8 DEF ModelsRestart
  <2>2. stable' \notin {NoModel, TornModel} => serving' = stable'
    BY <1>8 DEF ModelsRestart, Load
  <2>3. latest' \in Nat
    BY <1>8 DEF ModelsRestart
  <2> QED
    BY <2>1, <2>2, <2>3
<1>9. CASE UNCHANGED modelVars
  BY <1>9 DEF modelVars
<1> QED
  BY <1>1, <1>2, <1>3, <1>4, <1>5, <1>6, <1>7, <1>8, <1>9 DEF ModelsNext

\* What predicts is what the next start loads, for any number of models and however
\* trainings, rollbacks and restarts follow on one another.
THEOREM ServedAlwaysSurvives == ModelsSpec => []ServedModelSurvives
<1>1. ModelsInit => ModelsInv
  BY DEF ModelsInit, ModelsInv, Idle, NoModel
<1>2. ModelsInv => ServedModelSurvives
  BY DEF ModelsInv, ServedModelSurvives, Idle
<1> QED
  BY <1>1, <1>2, ModelsStep, PTL DEF ModelsSpec

-----------------------------------------------------------------------------
(* The factory snapshot.  Once the first one is gone its number never comes back,  *)
(* so a rollback that knew it either goes to it or finds it missing.               *)

SnapshotsInv ==
  /\ made \in Nat /\ first \in 0 .. made
  /\ Numbers \subseteq 1 .. made
  /\ first = NoSnapshot => Marked("flag") = {}
  /\ first \in Numbers => snapshots[first] = "flag"
  /\ \A n \in Marked("flag") : first <= n
  /\ rollback = [target |-> rollback.target, prepared |-> rollback.prepared,
                  known |-> rollback.known]
  /\ rollback.known \in 0 .. made
  /\ rollback.target # NoSnapshot /\ rollback.known \in Numbers => rollback.target = rollback.known

\* The first factory snapshot, while it exists, is the one that is found.
LEMMA FirstIsFound ==
  ASSUME SnapshotsInv, first \in Numbers
  PROVE  Factory = first
<1>1. first \in Marked("flag") /\ \A n \in Marked("flag") : first <= n /\ n \in Nat /\ first \in Nat
  BY DEF SnapshotsInv, Marked, Numbers
<1>2. \A x \in Marked("flag") : (\A n \in Marked("flag") : x <= n) => x = first
  BY <1>1
<1> QED
  BY <1>1, <1>2 DEF Factory, Min

\* A new snapshot has a number of its own.
LEMMA NewNumber ==
  ASSUME SnapshotsInv, NEW mark, Made(mark)
  PROVE  /\ made' \in Nat /\ made' = made + 1 /\ made' \notin Numbers
         /\ Numbers' = Numbers \cup {made'} /\ Numbers' \subseteq 1 .. made'
         /\ snapshots'[made'] = mark
         /\ \A n \in Numbers : snapshots'[n] = snapshots[n]
  BY DEF SnapshotsInv, Made, Numbers

LEMMA SnapshotsStep == SnapshotsInv /\ [SnapshotsNext]_snapshotVars => SnapshotsInv'
<1> SUFFICES ASSUME SnapshotsInv, [SnapshotsNext]_snapshotVars PROVE SnapshotsInv'
  OBVIOUS
<1>1. ASSUME NEW c \in Creators, LookForFactory(c) PROVE SnapshotsInv'
  BY <1>1 DEF LookForFactory, SnapshotsInv, Numbers, Marked
<1>2. ASSUME NEW c \in Creators, CreateFactory(c) PROVE SnapshotsInv'
  <2>1. CASE Made("flag") /\ first' = IF first = NoSnapshot THEN made' ELSE first
    <3>1. rollback' = rollback
      BY <1>2 DEF CreateFactory
    <3> QED
      BY <2>1, <3>1, NewNumber DEF SnapshotsInv, Marked, NoSnapshot
  <2>2. CASE UNCHANGED <<snapshots, made, first>>
    BY <1>2, <2>2 DEF CreateFactory, SnapshotsInv, Numbers, Marked
  <2> QED
    BY <1>2, <2>1, <2>2 DEF CreateFactory
<1>3. CASE LookForTarget
  <2>1. PICK n \in Found \ {NoSnapshot} :
          rollback' = [rollback EXCEPT !.target = n, !.known = first]
    BY <1>3 DEF LookForTarget
  <2>2. n = Factory
    BY <2>1 DEF Found
  <2>3. first \in Numbers => n = first
    BY <2>2, FirstIsFound
  <2> QED
    BY <1>3, <2>1, <2>3 DEF LookForTarget, SnapshotsInv, Numbers, Marked
<1>4. CASE RollBack
  BY <1>4 DEF RollBack, SnapshotsInv, Numbers, Marked
<1>5. CASE OtherSnapshot
  <2>1. PICK mark \in {"name", "plain"} : Made(mark)
    BY <1>5 DEF OtherSnapshot
  <2>2. UNCHANGED <<rollback, first>>
    BY <1>5 DEF OtherSnapshot
  <2> QED
    BY <2>1, <2>2, NewNumber DEF SnapshotsInv, Marked, NoSnapshot
<1>6. CASE CleanupOldest
  <2>1. Numbers' \subseteq Numbers /\ \A n \in Numbers' : snapshots'[n] = snapshots[n]
    BY <1>6 DEF CleanupOldest, Numbers
  <2>2. UNCHANGED <<made, rollback, first>>
    BY <1>6 DEF CleanupOldest
  <2> QED
    BY <2>1, <2>2 DEF SnapshotsInv, Marked
<1>7. CASE UNCHANGED snapshotVars
  BY <1>7 DEF snapshotVars, SnapshotsInv, Numbers, Marked
<1> QED
  BY <1>1, <1>2, <1>3, <1>4, <1>5, <1>6, <1>7 DEF SnapshotsNext

\* A rollback goes to the first factory snapshot as long as it exists, for any number of
\* creators and snapshots and however often a list was unreadable.
THEOREM FirstFactoryAlwaysWins == SnapshotsSpec => FirstFactoryWins
<1>1. SnapshotsInit => SnapshotsInv
  BY DEF SnapshotsInit, SnapshotsInv, Numbers, Marked, NoSnapshot
<1>2. SnapshotsInv /\ [SnapshotsNext]_snapshotVars =>
        [rollback'.prepared # rollback.prepared /\ rollback.known \in Numbers
           => rollback'.prepared = rollback.known]_snapshotVars
  BY DEF SnapshotsInv, SnapshotsNext, LookForFactory, CreateFactory, LookForTarget, RollBack,
     OtherSnapshot, CleanupOldest, snapshotVars
<1> QED
  BY <1>1, <1>2, SnapshotsStep, PTL DEF SnapshotsSpec, FirstFactoryWins

-----------------------------------------------------------------------------
(* The import of a configuration.  Its sets account for every member of the upload  *)
(* unless it reports an error; and a database that nobody had open while it was     *)
(* replaced has no log of commits to the old one.                                   *)

Contents == {"none", "own", "bundle", "torn", "mix"}

BundleTypeOK ==
  /\ disk \in [Files -> Contents]
  /\ log \in Contents
  /\ disturbed \in BOOLEAN
  /\ import \in [at : {"none", "stage", "copy", "done"}, members : SUBSET Files,
                 todo : SUBSET Files, staged : SUBSET Files, restored : SUBSET Files,
                 errors : BOOLEAN]

MembersAccounted ==
  /\ ~import.errors => import.members = import.todo \cup import.staged \cup import.restored
  /\ import.todo \cap import.staged = {}
  /\ import.todo \cap import.restored = {}
  /\ import.staged \cap import.restored = {}
  /\ import.at = "done" => import.todo = {} /\ import.staged = {}

\* The files are written one at a time.
OneAtATime == import.at = "copy" => \E f \in Files : import.todo = {f}

RestoredStays ==
  \A f \in import.restored : disk[f] = "bundle" \/ (f = Database /\ disturbed)

LogIsOfItsDatabase ==
  /\ log # "none" => opened # {}
  /\ ~disturbed =>
       /\ import.at = "copy" /\ Database \in import.todo => opened = {}
       /\ Database \in import.restored => log \in {"none", "bundle"}

BundleInv ==
  BundleTypeOK /\ MembersAccounted /\ OneAtATime /\ RestoredStays /\ LogIsOfItsDatabase

\* Writing the log back leaves every file but the database alone, and that one too if the
\* log is its own.
LEMMA CheckpointKeeps ==
  ASSUME BundleTypeOK
  PROVE  /\ Checkpointed \in [Files -> Contents]
         /\ \A f \in Files \ {Database} : Checkpointed[f] = disk[f]
         /\ log \in {"none", disk[Database]} => Checkpointed[Database] = disk[Database]
  BY BundleAssumption DEF BundleTypeOK, Checkpointed, Contents

\* The threads of the service: opening, committing to and closing the database.
LEMMA ThreadsKeepBundle ==
  ASSUME BundleInv, NEW t, Open(t) \/ Commit(t) \/ Close(t)
  PROVE  BundleInv'
<1>1. import' = import /\ MembersAccounted' /\ OneAtATime'
  BY DEF Open, Commit, Close, BundleInv, MembersAccounted, OneAtATime
<1>2. CASE Open(t)
  <2>1. /\ opened' = opened \cup {t} /\ UNCHANGED <<disk, log>>
        /\ disturbed' = (disturbed \/ (import.at = "copy" /\ Database \in import.todo))
    BY <1>2 DEF Open
  <2>2. BundleTypeOK' /\ RestoredStays'
    BY <1>1, <2>1 DEF BundleInv, BundleTypeOK, RestoredStays
  <2>3. LogIsOfItsDatabase'
    BY <1>1, <2>1 DEF BundleInv, LogIsOfItsDatabase
  <2> QED
    BY <1>1, <2>2, <2>3 DEF BundleInv
<1>3. CASE Commit(t)
  <2>1. /\ t \in opened /\ UNCHANGED <<disk, opened, disturbed>>
        /\ log' = IF log = "none" THEN disk[Database] ELSE log
    BY <1>3 DEF Commit
  <2>2. BundleTypeOK' /\ RestoredStays'
    BY <1>1, <2>1, BundleAssumption DEF BundleInv, BundleTypeOK, RestoredStays
  <2>3. LogIsOfItsDatabase'
    BY <1>1, <2>1 DEF BundleInv, LogIsOfItsDatabase, RestoredStays
  <2> QED
    BY <1>1, <2>2, <2>3 DEF BundleInv
<1>4. CASE Close(t)
  <2>1. UNCHANGED disturbed /\ opened' = opened \ {t}
    BY <1>4 DEF Close
  <2>2. CASE opened' = {} /\ disk' = Checkpointed /\ log' = "none"
    <3>1. BundleTypeOK'
      BY <1>1, <2>1, <2>2, CheckpointKeeps DEF BundleInv, BundleTypeOK, Contents
    <3>2. RestoredStays'
      <4> SUFFICES ASSUME NEW f \in import.restored, ~(f = Database /\ disturbed)
                   PROVE  disk'[f] = "bundle"
        BY <1>1, <2>1 DEF RestoredStays
      <4>1. f \in Files /\ disk[f] = "bundle"
        BY DEF BundleInv, BundleTypeOK, RestoredStays
      <4>2. CASE f # Database
        BY <2>2, <4>1, <4>2, CheckpointKeeps DEF BundleInv
      <4>3. CASE f = Database
        BY <2>2, <4>1, <4>3, CheckpointKeeps DEF BundleInv, LogIsOfItsDatabase
      <4> QED
        BY <4>2, <4>3
    <3>3. LogIsOfItsDatabase'
      BY <1>1, <2>1, <2>2 DEF LogIsOfItsDatabase
    <3> QED
      BY <1>1, <3>1, <3>2, <3>3 DEF BundleInv
  <2>3. CASE opened' # {} /\ UNCHANGED <<disk, log>>
    BY <1>1, <2>1, <2>3
       DEF BundleInv, BundleTypeOK, RestoredStays, LogIsOfItsDatabase
  <2> QED
    BY <1>4, <2>2, <2>3 DEF Close
<1> QED
  BY <1>2, <1>3, <1>4

\* The import: a member is read, its old file backed up and begun, and the new one written.
LEMMA StageKeepsBundle ==
  ASSUME BundleInv, NEW f \in Files, Stage(f)
  PROVE  BundleInv'
<1>1. /\ import.at = "stage" /\ f \in import.todo
      /\ UNCHANGED <<disk, log, opened, disturbed>>
      /\ \/ import' = [import EXCEPT !.todo = @ \ {f}, !.staged = @ \cup {f}]
         \/ import' = [import EXCEPT !.todo = @ \ {f}, !.errors = TRUE]
  BY DEF Stage
<1>2. BundleTypeOK'
  <2>1. CASE import' = [import EXCEPT !.todo = @ \ {f}, !.staged = @ \cup {f}]
    BY <1>1, <2>1 DEF BundleInv, BundleTypeOK
  <2>2. CASE import' = [import EXCEPT !.todo = @ \ {f}, !.errors = TRUE]
    BY <1>1, <2>2 DEF BundleInv, BundleTypeOK
  <2> QED
    BY <1>1, <2>1, <2>2
<1>3. /\ import'.at = "stage" /\ import'.todo = import.todo \ {f}
      /\ import'.restored = import.restored /\ import'.members = import.members
      /\ \/ import'.staged = import.staged \cup {f} /\ import'.errors = import.errors
         \/ import'.staged = import.staged /\ import'.errors
  BY <1>1 DEF BundleInv, BundleTypeOK
<1>4. MembersAccounted' /\ OneAtATime'
  BY <1>1, <1>3 DEF BundleInv, MembersAccounted, OneAtATime
<1>5. RestoredStays' /\ LogIsOfItsDatabase'
  BY <1>1, <1>3 DEF BundleInv, RestoredStays, LogIsOfItsDatabase
<1> QED
  BY <1>2, <1>4, <1>5 DEF BundleInv

LEMMA BackUpKeepsBundle ==
  ASSUME BundleInv, NEW f \in Files, BackUp(f)
  PROVE  BundleInv'
<1>1. /\ import.at = "stage" /\ import.todo = {} /\ f \in import.staged
      /\ disk' = [disk EXCEPT ![f] = "torn"]
      /\ import' = [import EXCEPT !.at = "copy", !.todo = {f}, !.staged = @ \ {f}]
      /\ disturbed' = (disturbed \/ (f = Database /\ opened # {}))
      /\ UNCHANGED <<log, opened>>
  BY DEF BackUp
<1>2. BundleTypeOK'
  BY <1>1 DEF BundleInv, BundleTypeOK, Contents
<1>3. /\ import'.at = "copy" /\ import'.todo = {f} /\ import'.staged = import.staged \ {f}
      /\ import'.restored = import.restored /\ import'.members = import.members
      /\ import'.errors = import.errors
  BY <1>1 DEF BundleInv, BundleTypeOK
<1>4. MembersAccounted' /\ OneAtATime'
  BY <1>1, <1>3 DEF BundleInv, MembersAccounted, OneAtATime
<1>5. RestoredStays'
  BY <1>1, <1>3 DEF BundleInv, BundleTypeOK, MembersAccounted, RestoredStays
<1>6. LogIsOfItsDatabase'
  BY <1>1, <1>3 DEF BundleInv, LogIsOfItsDatabase
<1> QED
  BY <1>2, <1>4, <1>5, <1>6 DEF BundleInv

LEMMA InstallKeepsBundle ==
  ASSUME BundleInv, NEW f \in Files, Install(f)
  PROVE  BundleInv'
<1>1. import.at = "copy" /\ f \in import.todo /\ UNCHANGED <<log, opened, disturbed>>
  BY DEF Install
<1>2. CASE /\ disk' = [disk EXCEPT ![f] = "bundle"]
           /\ import' = [import EXCEPT !.at = "stage", !.todo = {}, !.restored = @ \cup {f}]
  <2>1. BundleTypeOK'
    BY <1>1, <1>2 DEF BundleInv, BundleTypeOK, Contents
  <2>2. /\ import'.at = "stage" /\ import'.todo = {} /\ import'.staged = import.staged
        /\ import'.restored = import.restored \cup {f} /\ import'.members = import.members
        /\ import'.errors = import.errors
    BY <1>2 DEF BundleInv, BundleTypeOK
  <2>3. CASE import.todo = {f}
    <3>1. MembersAccounted' /\ OneAtATime'
      BY <1>1, <2>2, <2>3 DEF BundleInv, MembersAccounted, OneAtATime
    <3>2. RestoredStays'
      BY <1>1, <1>2, <2>2 DEF BundleInv, BundleTypeOK, RestoredStays
    <3>3. LogIsOfItsDatabase'
      BY <1>1, <2>2 DEF BundleInv, LogIsOfItsDatabase
    <3> QED
      BY <2>1, <3>1, <3>2, <3>3 DEF BundleInv
  <2> QED
    BY <1>1, <2>3 DEF BundleInv, OneAtATime
<1>3. CASE /\ import' = [import EXCEPT !.at = "stage", !.todo = {}, !.errors = TRUE]
           /\ UNCHANGED disk
  <2>1. BundleTypeOK'
    BY <1>1, <1>3 DEF BundleInv, BundleTypeOK
  <2>2. /\ import'.at = "stage" /\ import'.todo = {} /\ import'.staged = import.staged
        /\ import'.restored = import.restored /\ import'.errors
    BY <1>3 DEF BundleInv, BundleTypeOK
  <2> QED
    BY <1>1, <1>3, <2>1, <2>2
       DEF BundleInv, MembersAccounted, RestoredStays, LogIsOfItsDatabase, OneAtATime
<1> QED
  BY <1>2, <1>3 DEF Install

LEMMA StartKeepsBundle ==
  ASSUME BundleInv, NEW members \in SUBSET Files, NEW metadata \in BOOLEAN,
         StartImport(members, metadata)
  PROVE  BundleInv'
<1>1. /\ import' = [at |-> "stage", members |-> members, todo |-> members, staged |-> {},
                    restored |-> {}, errors |-> ~metadata]
      /\ disturbed' = FALSE /\ UNCHANGED <<disk, log, opened>>
  BY DEF StartImport, NoImport
<1>2. BundleTypeOK'
  BY <1>1 DEF BundleInv, BundleTypeOK
<1> QED
  BY <1>1, <1>2 DEF BundleInv, MembersAccounted, RestoredStays, LogIsOfItsDatabase, OneAtATime

LEMMA BundleStep == BundleInv /\ [BundleNext]_bundleVars => BundleInv'
<1> SUFFICES ASSUME BundleInv, [BundleNext]_bundleVars PROVE BundleInv'
  OBVIOUS
<1>1. CASE Finish
  <2>1. /\ import.todo = {} /\ import.staged = {}
        /\ UNCHANGED <<disk, log, opened, disturbed>>
    BY <1>1 DEF Finish
  <2>2. /\ BundleTypeOK'
        /\ import'.at = "done" /\ import'.todo = {} /\ import'.staged = {}
        /\ import'.restored = import.restored /\ import'.members = import.members
        /\ import.errors => import'.errors
    <3>1. CASE import' = [import EXCEPT !.at = "done"]
      BY <2>1, <3>1 DEF BundleInv, BundleTypeOK
    <3>2. CASE import' = [import EXCEPT !.at = "done", !.errors = TRUE]
      BY <2>1, <3>2 DEF BundleInv, BundleTypeOK
    <3> QED
      BY <1>1, <3>1, <3>2 DEF Finish
  <2> QED
    BY <2>1, <2>2
       DEF BundleInv, MembersAccounted, RestoredStays, LogIsOfItsDatabase, OneAtATime
<1>2. CASE BundleCrash
  <2>1. disk' = Checkpointed /\ log' = "none" /\ opened' = {} /\ disturbed' = FALSE
    BY <1>2 DEF BundleCrash
  <2>2. import' = [at |-> "none", members |-> {}, todo |-> {}, staged |-> {},
                   restored |-> {}, errors |-> FALSE]
    BY <1>2 DEF BundleCrash, NoImport
  <2>3. BundleTypeOK'
    BY <2>1, <2>2, CheckpointKeeps DEF BundleInv, BundleTypeOK, Contents
  <2> QED
    BY <2>1, <2>2, <2>3
       DEF BundleInv, MembersAccounted, RestoredStays, LogIsOfItsDatabase, OneAtATime
<1>3. CASE UNCHANGED bundleVars
  BY <1>3 DEF bundleVars, BundleInv, BundleTypeOK, MembersAccounted, RestoredStays,
              LogIsOfItsDatabase, OneAtATime
<1> QED
  BY <1>1, <1>2, <1>3, ThreadsKeepBundle, StartKeepsBundle, StageKeepsBundle,
     BackUpKeepsBundle, InstallKeepsBundle DEF BundleNext

\* An import that reports success has put every file of the bundle in place, for any files
\* and however many threads use the database meanwhile.
THEOREM SuccessAlwaysMeansRestored == BundleSpec => []SuccessMeansRestored
<1>1. BundleInit => BundleInv
  <2> SUFFICES ASSUME BundleInit PROVE BundleInv
    OBVIOUS
  <2>1. import = [at |-> "none", members |-> {}, todo |-> {}, staged |-> {},
                  restored |-> {}, errors |-> FALSE]
    BY DEF BundleInit, NoImport
  <2>2. disk \in [Files -> Contents]
    <3>1. disk \in [Files -> {"none", "own"}]
      BY DEF BundleInit
    <3> QED
      BY <3>1 DEF Contents
  <2>3. BundleTypeOK
    <3>1. log = "none" /\ disturbed = FALSE
      BY DEF BundleInit
    <3>2. log \in Contents /\ disturbed \in BOOLEAN
      BY <3>1 DEF Contents
    <3>3. import \in [at : {"none", "stage", "copy", "done"}, members : SUBSET Files,
                      todo : SUBSET Files, staged : SUBSET Files, restored : SUBSET Files,
                      errors : BOOLEAN]
      BY <2>1
    <3> QED
      BY <2>2, <3>2, <3>3 DEF BundleTypeOK
  <2> QED
    BY <2>1, <2>3 DEF BundleInit, BundleInv, MembersAccounted, RestoredStays,
                      LogIsOfItsDatabase, OneAtATime
<1>2. BundleInv => SuccessMeansRestored
  BY DEF BundleInv, MembersAccounted, RestoredStays, SuccessMeansRestored, Succeeded
<1> QED
  BY <1>1, <1>2, BundleStep, PTL DEF BundleSpec

-----------------------------------------------------------------------------
(* The migrations of the database.  The property alone is not inductive: it says  *)
(* nothing of what a migrator that is about to record a version has behind it.    *)

Has(v) == \A i \in DOMAIN Statements[v] : Statements[v][i] \in schema

Places == {Away} \cup [at : {"run", "alter"}, version : 2 .. Latest, next : Nat \ {0}]

MigrationsTypeOK ==
  /\ recorded \in 1 .. Latest
  /\ migrator \in [Migrators -> Places]

\* A migrator has the versions before its own behind it, and of its own the statements
\* before the next one.
Behind(k) ==
  k # Away =>
    /\ \A v \in 2 .. k.version - 1 : Has(v)
    /\ k.next <= Len(Statements[k.version]) + 1
    /\ \A i \in 1 .. k.next - 1 : Statements[k.version][i] \in schema
    /\ k.at = "alter" => k.next <= Len(Statements[k.version])

MigrationsInv ==
  /\ MigrationsTypeOK
  /\ RecordedIsComplete
  /\ \A m \in Migrators : Behind(migrator[m])

-----------------------------------------------------------------------------
\* The statements of a version are a sequence.
LEMMA StatementsOf ==
  ASSUME NEW v \in 2 .. Latest
  PROVE  /\ Len(Statements[v]) \in Nat
         /\ DOMAIN Statements[v] = 1 .. Len(Statements[v])
BY MigrationsAssumption

\* Where a migrator goes on after version v, if it has everything up to v behind it.
LEMMA FromIsBehind ==
  ASSUME NEW v \in 2 .. Latest + 1,
         \A u \in 2 .. v - 1 : Has(u)
  PROVE  From(v) \in Places /\ Behind(From(v))
<1>1. CASE v <= Latest
  <2>1. From(v) = [at |-> "run", version |-> v, next |-> 1]  BY <1>1 DEF From
  <2>2. v \in 2 .. Latest  BY <1>1, MigrationsAssumption
  <2> QED  BY <2>1, <2>2, StatementsOf DEF Places, Behind
<1>2. CASE ~ v <= Latest
  BY <1>2 DEF From, Places, Behind
<1> QED  BY <1>1, <1>2

\* A migrator that runs is at a version that has a migration.
LEMMA Running ==
  ASSUME MigrationsInv, NEW m \in Migrators, migrator[m].at # "away"
  PROVE  /\ migrator[m] \in [at : {"run", "alter"}, version : 2 .. Latest, next : Nat \ {0}]
         /\ migrator[m] # Away
         /\ Behind(migrator[m])
BY DEF MigrationsInv, MigrationsTypeOK, Places, Away

\* One migrator moves to k, the schema grows or stays, and the recorded version stays.
LEMMA OneMoves ==
  ASSUME MigrationsInv, NEW m \in Migrators, NEW k,
         Moves(m, k), schema \subseteq schema', recorded' = recorded,
         k \in Places, Behind(k)'
  PROVE  MigrationsInv'
<1>1. migrator' = [migrator EXCEPT ![m] = k]  BY DEF Moves
<1>2. MigrationsTypeOK'  BY <1>1 DEF MigrationsInv, MigrationsTypeOK
<1>3. RecordedIsComplete'  BY DEF MigrationsInv, RecordedIsComplete
<1>4. ASSUME NEW n \in Migrators PROVE Behind(migrator[n])'
  <2>1. CASE n = m  BY <2>1, <1>1 DEF MigrationsInv, MigrationsTypeOK
  <2>2. CASE n # m
    <3>1. migrator'[n] = migrator[n]  BY <2>2, <1>1 DEF MigrationsInv, MigrationsTypeOK
    <3>2. Behind(migrator[n])  BY DEF MigrationsInv
    <3> QED  BY <3>1, <3>2 DEF Behind, Has
  <2> QED  BY <2>1, <2>2
<1> QED  BY <1>2, <1>3, <1>4 DEF MigrationsInv

\* The statement a migrator is at is done, and it goes on to the next one.
LEMMA StatementDone ==
  ASSUME MigrationsInv, NEW m \in Migrators, migrator[m].at # "away",
         migrator[m].next <= Len(Statements[migrator[m].version]),
         schema' = schema \cup {Current(m)}, recorded' = recorded,
         Moves(m, NextStatement(m))
  PROVE  MigrationsInv'
<1>1. PICK k : k = migrator[m]
  OBVIOUS
<1>2. /\ k \in [at : {"run", "alter"}, version : 2 .. Latest, next : Nat \ {0}]
      /\ k # Away /\ Behind(k)
      /\ k.next <= Len(Statements[k.version])
  BY <1>1, Running
<1>3. PICK n : n = [at |-> "run", version |-> k.version, next |-> k.next + 1]
  OBVIOUS
<1>4. NextStatement(m) = n
  BY <1>1, <1>3 DEF NextStatement
<1>5. /\ n \in [at : {"run", "alter"}, version : 2 .. Latest, next : Nat \ {0}]
      /\ n.at = "run" /\ n.version = k.version /\ n.next = k.next + 1
  BY <1>2, <1>3
<1>6. Behind(n)'
  <2>1. n.at = "run" /\ n.version = k.version /\ n.next = k.next + 1
    BY <1>5
  <2>2. Len(Statements[k.version]) \in Nat
    BY <1>2, StatementsOf
  <2>3. Statements[k.version][k.next] \in schema'
    BY <1>1 DEF Current
  <2>4. \A v \in 2 .. n.version - 1 : Has(v)'
    BY <1>2, <2>1 DEF Behind, Has
  <2>5. \A i \in 1 .. n.next - 1 : Statements[n.version][i] \in schema'
    BY <1>2, <2>1, <2>3 DEF Behind
  <2>6. n.next <= Len(Statements[n.version]) + 1
    BY <1>2, <2>1, <2>2
  <2> QED
    BY <2>1, <2>4, <2>5, <2>6 DEF Behind, Has
<1>7. Moves(m, n) /\ schema \subseteq schema' /\ n \in Places
  BY <1>4, <1>5 DEF Moves, Places
<1> QED
  BY <1>6, <1>7, OneMoves

-----------------------------------------------------------------------------
LEMMA InvInit == MigrationsInit => MigrationsInv
BY MigrationsAssumption DEF MigrationsInit, MigrationsInv, MigrationsTypeOK, RecordedIsComplete,
                            Behind, Places

LEMMA InvStep ==
  ASSUME MigrationsInv, [MigrationsNext]_migrationVars
  PROVE  MigrationsInv'
<1>1. CASE Initialize
  BY <1>1 DEF Initialize, MigrationsInv, MigrationsTypeOK, RecordedIsComplete, Behind, Has
<1>2. CASE UNCHANGED migrationVars
  BY <1>2 DEF migrationVars, MigrationsInv, MigrationsTypeOK, RecordedIsComplete, Behind, Has
<1>3. ASSUME NEW m \in Migrators, ReadVersion(m)
      PROVE  MigrationsInv'
  <2>1. PICK v : v = IF base THEN recorded + 1 ELSE 2
    OBVIOUS
  <2>2. v \in 2 .. Latest + 1
    BY <2>1, MigrationsAssumption DEF MigrationsInv, MigrationsTypeOK
  <2>3. \A u \in 2 .. v - 1 : Has(u)
    BY <2>1 DEF MigrationsInv, MigrationsTypeOK, RecordedIsComplete, Has
  <2>4. From(v) \in Places /\ Behind(From(v))
    BY <2>2, <2>3, FromIsBehind
  <2>5. PICK k : k = From(v)
    OBVIOUS
  <2>6. Behind(k)'
    BY <1>3, <2>4, <2>5 DEF ReadVersion, Behind, Has
  <2> QED
    BY <1>3, <2>1, <2>4, <2>5, <2>6, OneMoves DEF ReadVersion
<1>4. ASSUME NEW m \in Migrators, Create(m)
      PROVE  MigrationsInv'
  BY <1>4, StatementDone DEF Create, Working
<1>5. ASSUME NEW m \in Migrators, LookForColumn(m)
      PROVE  MigrationsInv'
  <2>1. CASE Current(m) \in schema
    <3>1. schema' = schema \cup {Current(m)}
      BY <1>5, <2>1 DEF LookForColumn
    <3> QED
      BY <1>5, <2>1, <3>1, StatementDone DEF LookForColumn, Working
  <2>2. CASE Current(m) \notin schema
    <3>1. PICK k : k = migrator[m]
      OBVIOUS
    <3>2. /\ k \in [at : {"run", "alter"}, version : 2 .. Latest, next : Nat \ {0}]
          /\ k # Away /\ Behind(k)
      BY <1>5, <3>1, Running DEF LookForColumn, Working
    <3>3. PICK n : n = [k EXCEPT !.at = "alter"]
      OBVIOUS
    <3>4. n \in Places /\ n.version = k.version /\ n.next = k.next
      BY <3>2, <3>3 DEF Places
    <3>5. Behind(n)'
      BY <1>5, <3>1, <3>2, <3>4 DEF LookForColumn, Working, Behind, Has
    <3> QED
      BY <1>5, <2>2, <3>1, <3>3, <3>4, <3>5, OneMoves DEF LookForColumn
  <2> QED
    BY <2>1, <2>2
<1>6. ASSUME NEW m \in Migrators, AddColumn(m)
      PROVE  MigrationsInv'
  <2>1. migrator[m].next <= Len(Statements[migrator[m].version])
    BY <1>6, Running DEF AddColumn, Behind
  <2> QED
    BY <1>6, <2>1, StatementDone DEF AddColumn
<1>7. ASSUME NEW m \in Migrators, RecordVersion(m)
      PROVE  MigrationsInv'
  <2>1. PICK k : k = migrator[m]
    OBVIOUS
  <2>2. /\ k \in [at : {"run", "alter"}, version : 2 .. Latest, next : Nat \ {0}]
        /\ k # Away /\ Behind(k)
    BY <1>7, <2>1, Running DEF RecordVersion
  <2>3. k.next > Len(Statements[k.version])
    BY <1>7, <2>1, <2>2, StatementsOf DEF RecordVersion, Working
  <2>4. Has(k.version)
    BY <2>2, <2>3, StatementsOf DEF Behind, Has
  <2>5. \A u \in 2 .. k.version : Has(u)
    BY <2>2, <2>4 DEF Behind
  <2>6. From(k.version + 1) \in Places /\ Behind(From(k.version + 1))
    <3>1. k.version + 1 \in 2 .. Latest + 1 /\ (k.version + 1) - 1 = k.version
      BY <2>2, MigrationsAssumption
    <3> QED
      BY <2>5, <3>1, FromIsBehind
  <2>7. migrator' = [migrator EXCEPT ![m] = From(k.version + 1)]
    BY <1>7, <2>1 DEF RecordVersion, Moves
  <2>8. recorded' = k.version /\ schema' = schema
    BY <1>7, <2>1 DEF RecordVersion
  <2>9. MigrationsTypeOK'
    BY <2>2, <2>6, <2>7, <2>8, MigrationsAssumption DEF MigrationsInv, MigrationsTypeOK
  <2>10. RecordedIsComplete'
    BY <2>5, <2>8 DEF RecordedIsComplete, Has
  <2>11. ASSUME NEW n \in Migrators
         PROVE  Behind(migrator[n])'
    <3>1. PICK j : j = migrator'[n]
      OBVIOUS
    <3>2. Behind(j)
      BY <2>6, <2>7, <3>1 DEF MigrationsInv, MigrationsTypeOK
    <3> QED
      BY <2>8, <3>1, <3>2 DEF Behind, Has
  <2> QED
    BY <2>9, <2>10, <2>11 DEF MigrationsInv
<1>8. ASSUME NEW m \in Migrators, Stops(m)
      PROVE  MigrationsInv'
  <2>1. Away \in Places /\ Behind(Away)'
    BY DEF Places, Behind
  <2> QED
    BY <1>8, <2>1, OneMoves DEF Stops
<1> QED
  BY <1>1, <1>2, <1>3, <1>4, <1>5, <1>6, <1>7, <1>8 DEF MigrationsNext

\* Whatever is interrupted and whoever else migrates, the schema has everything of the
\* recorded version and of those before it: for any migrators and any migrations.
THEOREM RecordedAlwaysComplete == MigrationsSpec => []RecordedIsComplete
<1>1. MigrationsInv => RecordedIsComplete
  BY DEF MigrationsInv
<1> QED
  BY InvInit, InvStep, <1>1, PTL DEF MigrationsSpec
=============================================================================

