------------------------- MODULE StateKillerProofs -------------------------
(***************************************************************************)
(* Proofs about StateKiller, for any numbers of clients, of threads that   *)
(* kill and of cleanup threads, any block duration and any number of       *)
(* restarts: the types, and the bound on duplicate rules.                  *)
(***************************************************************************)
EXTENDS StateKiller, FiniteSetTheorems, TLAPS

-----------------------------------------------------------------------------
(* The type invariant *)

KillerRecord  == [pc : {"idle", "check", "insert", "record"},
                  client : Clients, port : Ports, left : 0..BlockDuration]
CleanerRecord == [pc : {"sleep", "next", "delete", "pop"},
                  expired : SUBSET Clients, client : Clients, port : Ports]

LEMMA RestTyped == AtRest \in KillerRecord /\ Asleep \in CleanerRecord
<1>1. (CHOOSE c \in Clients : TRUE) \in Clients
  BY KillerAssumption
<1>2. 0 \in 0..BlockDuration
  BY KillerAssumption
<1>3. QED
  BY <1>1, <1>2 DEF AtRest, Asleep, KillerRecord, CleanerRecord, Ports, HttpPort

(* A call that fails is counted within the bound of the model.               *)
LEMMA FailuresTyped ==
  ASSUME KillerTypeOK, IptFails \/ UNCHANGED failures
  PROVE  failures' \in 0..MaxFailures
  BY KillerAssumption DEF KillerTypeOK, IptFails

(* A step of a killer keeps the types.                                       *)
LEMMA KillerStepTyped ==
  ASSUME KillerTypeOK, NEW t \in Killers, KillStep(t) \/ (\E c \in Clients : Kill(t, c))
  PROVE  KillerTypeOK'
<1> USE DEF Ports, HttpPort, HttpsPort
<1>1. ASSUME NEW c \in Clients, Kill(t, c)
      PROVE  KillerTypeOK'
  <2>1. killer' \in [Killers -> KillerRecord]
    BY <1>1, KillerAssumption DEF Kill, KillerTypeOK, KillerRecord
  <2>2. QED
    BY <1>1, <2>1 DEF Kill, KillerTypeOK, KillerRecord
<1>2. ASSUME NextPort(t)
      PROVE  killer' \in [Killers -> KillerRecord]
  <2> DEFINE pc == IF killer[t].port = HttpPort THEN "check" ELSE "record"
  <2>1. pc \in {"idle", "check", "insert", "record"} /\ HttpsPort \in Ports
    OBVIOUS
  <2>2. killer[t] \in KillerRecord /\ killer \in [Killers -> KillerRecord]
    BY DEF KillerTypeOK, KillerRecord
  <2>3. killer' = [killer EXCEPT ![t].pc = pc, ![t].port = HttpsPort]
    BY <1>2 DEF NextPort
  <2> HIDE DEF pc
  <2>4. [killer[t] EXCEPT !.pc = pc, !.port = HttpsPort] \in KillerRecord
    BY <2>1, <2>2 DEF KillerRecord
  <2>5. QED
    BY <2>2, <2>3, <2>4
<1>3. CASE CheckRule(t)
  <2>1. killer' \in [Killers -> KillerRecord]
    <3>1. CASE NextPort(t)
      BY <1>2, <3>1
    <3>2. CASE killer' = [killer EXCEPT ![t].pc = "insert"]
      <4>1. killer[t] \in KillerRecord /\ killer \in [Killers -> KillerRecord]
        BY DEF KillerTypeOK, KillerRecord
      <4>2. [killer[t] EXCEPT !.pc = "insert"] \in KillerRecord
        BY <4>1 DEF KillerRecord
      <4>3. QED
        BY <3>2, <4>1, <4>2
    <3>3. QED
      BY <1>3, <3>1, <3>2 DEF CheckRule
  <2>2. failures' \in 0..MaxFailures
    BY <1>3, FailuresTyped DEF CheckRule
  <2>3. QED
    BY <1>3, <2>1, <2>2 DEF CheckRule, KillerTypeOK, KillerRecord
<1>4. CASE InsertRule(t)
  <2>1. killer' \in [Killers -> KillerRecord]
    BY <1>2, <1>4 DEF InsertRule
  <2>2. killer[t].client \in Clients /\ killer[t].port \in Ports
    BY DEF KillerTypeOK
  <2>3. rules' \in [Clients -> [Ports -> 0..MaxRules]]
    <3>1. CASE /\ rules[killer[t].client][killer[t].port] < MaxRules
               /\ rules' = [rules EXCEPT ![killer[t].client][killer[t].port] = @ + 1]
      <4>1. rules[killer[t].client][killer[t].port] + 1 \in 0..MaxRules
        BY <3>1, <2>2, KillerAssumption DEF KillerTypeOK
      <4>2. QED
        BY <3>1, <2>2, <4>1 DEF KillerTypeOK
    <3>2. CASE rules' = rules
      BY <3>2 DEF KillerTypeOK
    <3>3. QED
      BY <1>4, <3>1, <3>2 DEF InsertRule
  <2>4. failures' \in 0..MaxFailures
    BY <1>4, FailuresTyped DEF InsertRule
  <2>5. QED
    BY <1>4, <2>1, <2>3, <2>4 DEF InsertRule, KillerTypeOK, KillerRecord
<1>5. CASE RecordBlock(t)
  <2>1. killer' \in [Killers -> KillerRecord]
    BY <1>5, RestTyped DEF RecordBlock, KillerTypeOK, KillerRecord
  <2>2. killer[t].left \in 0..Absent
    BY KillerAssumption DEF KillerTypeOK, Absent
  <2>3. blocks' \in [Clients -> 0..Absent]
    BY <1>5, <2>2 DEF RecordBlock, KillerTypeOK
  <2>4. QED
    BY <1>5, <2>1, <2>3 DEF RecordBlock, KillerTypeOK, KillerRecord
<1>6. QED
  BY <1>1, <1>3, <1>4, <1>5 DEF KillStep

(* A step of a cleanup thread keeps the types.                               *)
LEMMA CleanerStepTyped ==
  ASSUME KillerTypeOK, NEW k \in Cleaners, CleanStep(k)
  PROVE  KillerTypeOK'
<1> USE DEF Ports, HttpPort, HttpsPort
<1>1. CASE CleanUp(k)
  <2> DEFINE old == {c \in Clients : blocks[c] = 0}
  <2>1. cleaner' \in [Cleaners -> CleanerRecord]
    <3>1. cleaner[k] \in CleanerRecord /\ cleaner \in [Cleaners -> CleanerRecord]
      BY DEF KillerTypeOK, CleanerRecord
    <3>2. cleaner' = [cleaner EXCEPT ![k].pc = "next", ![k].expired = old]
      BY <1>1 DEF CleanUp
    <3>3. old \in SUBSET Clients
      OBVIOUS
    <3> HIDE DEF old
    <3>4. [cleaner[k] EXCEPT !.pc = "next", !.expired = old] \in CleanerRecord
      BY <3>1, <3>3 DEF CleanerRecord
    <3>5. QED
      BY <3>1, <3>2, <3>4
  <2>2. QED
    BY <1>1, <2>1 DEF CleanUp, KillerTypeOK, CleanerRecord
<1>2. CASE NextExpired(k)
  <2>1. cleaner[k].expired \in SUBSET Clients
    BY DEF KillerTypeOK
  <2>2. cleaner' \in [Cleaners -> CleanerRecord]
    <3>1. cleaner \in [Cleaners -> CleanerRecord] /\ HttpPort \in Ports
      BY DEF KillerTypeOK, CleanerRecord
    <3>2. ASSUME NEW c \in cleaner[k].expired,
                 cleaner' = [cleaner EXCEPT ![k] = [pc |-> "delete", expired |-> @.expired \ {c},
                                                    client |-> c, port |-> HttpPort]]
          PROVE  cleaner' \in [Cleaners -> CleanerRecord]
      <4>1. [pc |-> "delete", expired |-> cleaner[k].expired \ {c}, client |-> c,
             port |-> HttpPort] \in CleanerRecord
        BY <2>1, <3>1 DEF CleanerRecord
      <4>2. QED
        BY <3>1, <3>2, <4>1
    <3>3. CASE cleaner' = [cleaner EXCEPT ![k] = Asleep]
      BY <3>1, <3>3, RestTyped
    <3>4. QED
      BY <1>2, <3>2, <3>3 DEF NextExpired
  <2>3. QED
    BY <1>2, <2>2 DEF NextExpired, KillerTypeOK, CleanerRecord
<1>3. CASE DeleteRule(k)
  <2>1. cleaner[k].client \in Clients /\ cleaner[k].port \in Ports
    BY DEF KillerTypeOK
  <2>2. UNCHANGED <<blocks, killer, restarts>> /\ failures' \in 0..MaxFailures
    BY <1>3, FailuresTyped DEF DeleteRule
  <2>3. CASE /\ rules[cleaner[k].client][cleaner[k].port] > 0
             /\ rules' = [rules EXCEPT ![cleaner[k].client][cleaner[k].port] = @ - 1]
             /\ UNCHANGED cleaner
    <3>1. rules[cleaner[k].client][cleaner[k].port] - 1 \in 0..MaxRules
      BY <2>1, <2>3, KillerAssumption DEF KillerTypeOK
    <3>2. rules' \in [Clients -> [Ports -> 0..MaxRules]]
      BY <2>1, <2>3, <3>1 DEF KillerTypeOK
    <3>3. QED
      BY <2>2, <2>3, <3>2 DEF KillerTypeOK
  <2>4. CASE rules' = rules
    <3> DEFINE pc == IF cleaner[k].port = HttpPort THEN "delete" ELSE "pop"
    <3>1. UNCHANGED cleaner \/ cleaner' = [cleaner EXCEPT ![k].pc = pc, ![k].port = HttpsPort]
      BY <1>3 DEF DeleteRule
    <3>2. cleaner' \in [Cleaners -> CleanerRecord]
      <4>1. pc \in {"sleep", "next", "delete", "pop"} /\ HttpsPort \in Ports
        OBVIOUS
      <4>2. cleaner[k] \in CleanerRecord /\ cleaner \in [Cleaners -> CleanerRecord]
        BY DEF KillerTypeOK, CleanerRecord
      <4> HIDE DEF pc
      <4>3. [cleaner[k] EXCEPT !.pc = pc, !.port = HttpsPort] \in CleanerRecord
        BY <4>1, <4>2 DEF CleanerRecord
      <4>4. QED
        BY <3>1, <4>2, <4>3
    <3>3. QED
      BY <2>2, <2>4, <3>2 DEF KillerTypeOK, CleanerRecord
  <2>5. QED
    BY <1>3, <2>3, <2>4 DEF DeleteRule
<1>4. CASE PopBlock(k)
  <2>1. Absent \in 0..Absent
    BY KillerAssumption DEF Absent
  <2>2. cleaner' \in [Cleaners -> CleanerRecord]
    <3>1. cleaner[k] \in CleanerRecord /\ cleaner \in [Cleaners -> CleanerRecord]
      BY DEF KillerTypeOK, CleanerRecord
    <3>2. [cleaner[k] EXCEPT !.pc = "next"] \in CleanerRecord
      BY <3>1 DEF CleanerRecord
    <3>3. QED
      BY <1>4, <3>1, <3>2 DEF PopBlock
  <2>3. blocks' \in [Clients -> 0..Absent]
    BY <1>4, <2>1 DEF PopBlock, KillerTypeOK
  <2>4. UNCHANGED <<rules, killer, failures, restarts>>
    BY <1>4 DEF PopBlock
  <2>5. QED
    BY <2>2, <2>3, <2>4 DEF KillerTypeOK, CleanerRecord
<1>5. QED
  BY <1>1, <1>2, <1>3, <1>4 DEF CleanStep

(* The clock and a restart keep the types.                                   *)
LEMMA TickTyped ==
  ASSUME KillerTypeOK, Tick \/ ServiceRestart
  PROVE  KillerTypeOK'
<1>1. CASE Tick
  <2>1. killer' \in [Killers -> KillerRecord]
    <3>1. ASSUME NEW t \in Killers
          PROVE  [killer[t] EXCEPT !.left = IF @ > 0 THEN @ - 1 ELSE 0] \in KillerRecord
      <4>1. killer[t] \in KillerRecord
        BY DEF KillerTypeOK, KillerRecord
      <4>2. (IF killer[t].left > 0 THEN killer[t].left - 1 ELSE 0) \in 0..BlockDuration
        BY <4>1, KillerAssumption DEF KillerRecord
      <4>3. QED
        BY <4>1, <4>2 DEF KillerRecord
    <3>2. QED
      BY <1>1, <3>1 DEF Tick
  <2>2. blocks' \in [Clients -> 0..Absent]
    BY <1>1, KillerAssumption DEF Tick, KillerTypeOK, IsBlocked, Absent
  <2>3. QED
    BY <1>1, <2>1, <2>2 DEF Tick, KillerTypeOK, KillerRecord
<1>2. CASE ServiceRestart
  <2>1. Absent \in 0..Absent /\ restarts' \in 0..MaxRestarts
    BY <1>2, KillerAssumption DEF ServiceRestart, KillerTypeOK, Absent
  <2>2. QED
    BY <1>2, <2>1, RestTyped DEF ServiceRestart, KillerTypeOK, KillerRecord, CleanerRecord
<1>3. QED
  BY <1>1, <1>2

(* The table, the rules and the threads keep their ranges; in particular the *)
(* client and port a thread works on are always those of a call under way.   *)
THEOREM KillerTypeCorrect == KillerSpec => []KillerTypeOK
<1>1. KillerInit => KillerTypeOK
  BY RestTyped, KillerAssumption
     DEF KillerInit, KillerTypeOK, KillerRecord, CleanerRecord, Absent
<1>2. KillerTypeOK /\ [KillerNext]_vars => KillerTypeOK'
  <2> SUFFICES ASSUME KillerTypeOK, [KillerNext]_vars
               PROVE  KillerTypeOK'
    OBVIOUS
  <2>1. CASE KillerNext
    BY <2>1, KillerStepTyped, CleanerStepTyped, TickTyped DEF KillerNext
  <2>2. CASE UNCHANGED vars
    BY <2>2 DEF vars, KillerTypeOK
  <2>3. QED
    BY <2>1, <2>2
<1>3. QED
  BY <1>1, <1>2, PTL DEF KillerSpec

-----------------------------------------------------------------------------
(* Duplicate rules *)

(* The threads about to insert a rule are some of the finitely many killers. *)
LEMMA InsertingFinite ==
  ASSUME NEW c, NEW p
  PROVE  /\ IsFiniteSet(Inserting(c, p))
         /\ Cardinality(Inserting(c, p)) \in Nat
         /\ Cardinality(Inserting(c, p)) <= Cardinality(Killers)
<1>1. Inserting(c, p) \in SUBSET Killers
  BY DEF Inserting
<1>2. QED
  BY <1>1, KillerAssumption, FS_Subset, FS_CardinalityType

(* No step forgets a failed call.                                            *)
LEMMA FailuresGrow ==
  ASSUME KillerTypeOK, KillerNext
  PROVE  failures \in Nat /\ failures' \in Nat /\ failures <= failures'
<1>1. failures \in Nat
  BY KillerAssumption DEF KillerTypeOK
<1>2. IptFails \/ UNCHANGED failures
  BY DEF KillerNext, Kill, KillStep, CheckRule, InsertRule, RecordBlock, CleanStep, CleanUp,
         NextExpired, DeleteRule, PopBlock, Tick, ServiceRestart
<1>3. QED
  BY <1>1, <1>2 DEF IptFails

(* A step that lets nobody new in between -C and -I, and adds no rule, keeps *)
(* the bound.                                                               *)
LEMMA FewerKeepBound ==
  ASSUME KillerTypeOK, KillerTypeOK', DuplicatesBounded, KillerNext,
         NEW c \in Clients, NEW p \in Ports,
         Inserting(c, p)' \subseteq Inserting(c, p), rules'[c][p] <= rules[c][p]
  PROVE  rules'[c][p] + Cardinality(Inserting(c, p)') <= Cardinality(Killers) + failures'
<1>1. rules[c][p] \in Nat /\ rules'[c][p] \in Nat
  BY KillerAssumption DEF KillerTypeOK
<1>2. Cardinality(Inserting(c, p)') <= Cardinality(Inserting(c, p))
  BY InsertingFinite, FS_Subset
<1>3. Inserting(c, p)' \in SUBSET Killers
  BY DEF Inserting
<1>4. Cardinality(Inserting(c, p)') \in Nat /\ Cardinality(Killers) \in Nat
  BY <1>3, KillerAssumption, FS_Subset, FS_CardinalityType
<1>5. QED
  BY <1>1, <1>2, <1>4, InsertingFinite, FailuresGrow DEF DuplicatesBounded

(* A thread that has left -C or -I of a client and port is not counted.      *)
LEMMA NextPortLeaves ==
  ASSUME KillerTypeOK, NEW t \in Killers, NextPort(t), NEW c, NEW p
  PROVE  Inserting(c, p)' = Inserting(c, p) \ {t}
BY DEF KillerTypeOK, NextPort, Inserting

LEMMA StepKeepsBound ==
  ASSUME KillerTypeOK, KillerTypeOK', DuplicatesBounded, KillerNext,
         NEW c \in Clients, NEW p \in Ports
  PROVE  rules'[c][p] + Cardinality(Inserting(c, p)') <= Cardinality(Killers) + failures'
<1>0. /\ rules[c][p] \in Nat /\ Cardinality(Killers) \in Nat
      /\ failures \in Nat /\ failures' \in Nat /\ failures <= failures'
  BY KillerAssumption, FS_CardinalityType, FailuresGrow DEF KillerTypeOK
<1>1. ASSUME NEW t \in Killers, NEW d \in Clients, Kill(t, d)
      PROVE  Inserting(c, p)' \subseteq Inserting(c, p) /\ rules' = rules
  BY <1>1 DEF Kill, KillerTypeOK, Inserting
<1>2. ASSUME NEW t \in Killers, CheckRule(t)
      PROVE  rules'[c][p] + Cardinality(Inserting(c, p)') <= Cardinality(Killers) + failures'
  <2>1. rules' = rules
    BY <1>2 DEF CheckRule
  <2>2. CASE NextPort(t)
    BY <1>0, <2>1, <2>2, NextPortLeaves, FewerKeepBound
  <2>3. CASE ~NextPort(t)
    <3>1. /\ killer' = [killer EXCEPT ![t].pc = "insert"]
          /\ rules[killer[t].client][killer[t].port] = 0 \/ IptFails
      BY <1>2, <2>3 DEF CheckRule
    <3>2. CASE killer[t].client = c /\ killer[t].port = p /\ rules[c][p] = 0
      <4>1. Inserting(c, p)' \in SUBSET Killers
        BY DEF Inserting
      <4>2. Cardinality(Inserting(c, p)') <= Cardinality(Killers)
            /\ Cardinality(Inserting(c, p)') \in Nat
        BY <4>1, KillerAssumption, FS_Subset, FS_CardinalityType
      <4>3. rules'[c][p] = 0
        BY <2>1, <3>2
      <4>4. QED
        BY <1>0, <4>2, <4>3
    <3>3. CASE killer[t].client = c /\ killer[t].port = p /\ rules[c][p] # 0
      <4>1. failures' = failures + 1
        BY <3>1, <3>3 DEF IptFails
      <4>2. t \notin Inserting(c, p) /\ Inserting(c, p)' = Inserting(c, p) \cup {t}
        BY <1>2, <3>1, <3>3 DEF CheckRule, Inserting, KillerTypeOK
      <4>3. Cardinality(Inserting(c, p)') = Cardinality(Inserting(c, p)) + 1
        BY <4>2, InsertingFinite, FS_AddElement
      <4>4. QED
        BY <1>0, <2>1, <4>1, <4>3, InsertingFinite DEF DuplicatesBounded
    <3>4. CASE ~(killer[t].client = c /\ killer[t].port = p)
      <4>1. Inserting(c, p)' \subseteq Inserting(c, p)
        BY <3>1, <3>4 DEF Inserting, KillerTypeOK
      <4>2. QED
        BY <1>0, <2>1, <4>1, FewerKeepBound
    <3>5. QED
      BY <3>2, <3>3, <3>4
  <2>4. QED
    BY <2>2, <2>3
<1>3. ASSUME NEW t \in Killers, InsertRule(t)
      PROVE  rules'[c][p] + Cardinality(Inserting(c, p)') <= Cardinality(Killers) + failures'
  <2>1. Inserting(c, p)' = Inserting(c, p) \ {t}
    BY <1>3, NextPortLeaves DEF InsertRule
  <2>2. killer[t].client \in Clients /\ killer[t].port \in Ports
    BY DEF KillerTypeOK
  <2>3. CASE killer[t].client = c /\ killer[t].port = p
    <3>1. t \in Inserting(c, p)
      BY <1>3, <2>3 DEF InsertRule, Inserting
    <3>2. Cardinality(Inserting(c, p)') = Cardinality(Inserting(c, p)) - 1
      BY <2>1, <3>1, InsertingFinite, FS_RemoveElement
    <3>3. rules'[c][p] \in {rules[c][p], rules[c][p] + 1}
      BY <1>3, <2>2, <2>3 DEF InsertRule, KillerTypeOK
    <3>4. QED
      BY <1>0, <3>2, <3>3, InsertingFinite DEF DuplicatesBounded
  <2>4. CASE ~(killer[t].client = c /\ killer[t].port = p)
    <3>1. rules'[c][p] = rules[c][p]
      BY <1>3, <2>2, <2>4 DEF InsertRule, KillerTypeOK
    <3>2. Inserting(c, p)' \subseteq Inserting(c, p) /\ rules'[c][p] <= rules[c][p]
      BY <1>0, <2>1, <3>1
    <3>3. QED
      BY <3>2, FewerKeepBound
  <2>5. QED
    BY <2>3, <2>4
<1>4. ASSUME NEW t \in Killers, RecordBlock(t)
      PROVE  Inserting(c, p)' \subseteq Inserting(c, p) /\ rules' = rules
  BY <1>4 DEF RecordBlock, KillerTypeOK, Inserting, AtRest
<1>5. ASSUME NEW k \in Cleaners, CleanStep(k)
      PROVE  Inserting(c, p)' \subseteq Inserting(c, p) /\ rules'[c][p] <= rules[c][p]
  <2>1. killer' = killer
    BY <1>5 DEF CleanStep, CleanUp, NextExpired, DeleteRule, PopBlock
  <2>2. ASSUME rules' = rules
        PROVE  rules'[c][p] <= rules[c][p]
    BY <1>0, <2>2
  <2>3. ASSUME DeleteRule(k)
        PROVE  rules'[c][p] <= rules[c][p]
    <3> DEFINE d == cleaner[k].client
               q == cleaner[k].port
    <3>1. d \in Clients /\ q \in Ports
      BY DEF KillerTypeOK
    <3>2. rules' = rules \/ rules' = [rules EXCEPT ![d][q] = @ - 1]
      BY <2>3 DEF DeleteRule
    <3>3. rules'[c][p] = rules[c][p] \/ rules'[c][p] = rules[c][p] - 1
      BY <3>1, <3>2 DEF KillerTypeOK
    <3>4. QED
      BY <1>0, <3>3
  <2>4. rules'[c][p] <= rules[c][p]
    BY <1>5, <2>2, <2>3 DEF CleanStep, CleanUp, NextExpired, PopBlock
  <2>5. QED
    BY <2>1, <2>4 DEF Inserting
<1>6. ASSUME Tick
      PROVE  Inserting(c, p)' \subseteq Inserting(c, p) /\ rules' = rules
  BY <1>6 DEF Tick, KillerTypeOK, Inserting
<1>7. ASSUME ServiceRestart
      PROVE  Inserting(c, p)' \subseteq Inserting(c, p) /\ rules' = rules
  BY <1>7 DEF ServiceRestart, Inserting, AtRest
<1>8. ASSUME Inserting(c, p)' \subseteq Inserting(c, p) /\ rules' = rules
      PROVE  rules'[c][p] + Cardinality(Inserting(c, p)') <= Cardinality(Killers) + failures'
  BY <1>0, <1>8, FewerKeepBound
<1>9. QED
  BY <1>1, <1>2, <1>3, <1>4, <1>5, <1>6, <1>7, <1>8, FewerKeepBound DEF KillerNext, KillStep

(* However often a client is killed, and whatever the cleanups and restarts  *)
(* do in between, its rules for a port never outnumber the threads that      *)
(* kill and the iptables calls that failed together, the rules about to be   *)
(* inserted included.                                                        *)
THEOREM DuplicatesAlwaysBounded == KillerSpec => []DuplicatesBounded
<1>1. KillerInit => DuplicatesBounded
  <2> SUFFICES ASSUME KillerInit, NEW c \in Clients, NEW p \in Ports
               PROVE  rules[c][p] + Cardinality(Inserting(c, p)) <= Cardinality(Killers) + failures
    BY DEF DuplicatesBounded
  <2>1. Inserting(c, p) = {}
    BY DEF KillerInit, Inserting, AtRest
  <2>2. rules[c][p] = 0 /\ failures = 0
    BY DEF KillerInit
  <2>3. QED
    BY <2>1, <2>2, KillerAssumption, FS_EmptySet, FS_CardinalityType
<1>2. KillerTypeOK /\ KillerTypeOK' /\ DuplicatesBounded /\ [KillerNext]_vars
        => DuplicatesBounded'
  <2> SUFFICES ASSUME KillerTypeOK, KillerTypeOK', DuplicatesBounded, [KillerNext]_vars
               PROVE  DuplicatesBounded'
    OBVIOUS
  <2>1. CASE KillerNext
    BY <2>1, StepKeepsBound DEF DuplicatesBounded
  <2>2. CASE UNCHANGED vars
    BY <2>2 DEF vars, DuplicatesBounded, Inserting
  <2>3. QED
    BY <2>1, <2>2
<1>3. QED
  BY <1>1, <1>2, KillerTypeCorrect, PTL DEF KillerSpec
=============================================================================
