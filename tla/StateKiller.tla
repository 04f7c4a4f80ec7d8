---------------------------- MODULE StateKiller ----------------------------
(***************************************************************************)
(* state_killer.py: the temporary iptables REJECT rules that keep a client *)
(* away from the proxy, and the table _active_blocks of their expiry times.*)
(*                                                                         *)
(* kill_states_for_video() is called by the analyzer workers and by the    *)
(* event loop, cleanup_expired_blocks() by every iptables-cleanup thread   *)
(* (analyzer_service starts one per copy of the module, and the service    *)
(* holds two: see the README).  _blocks_lock covers single accesses to the *)
(* table; each iptables call is a process of its own, outside the lock,    *)
(* and may fail or time out, which _ipt() reports like a rule not found.   *)
(*                                                                         *)
(* An expiry is kept as the time it has left: it counts down with Tick,    *)
(* and an entry at zero has expired but is still in the table.             *)
(***************************************************************************)
EXTENDS Naturals, FiniteSets

CONSTANTS Clients,        \* client addresses
          Killers,        \* threads that may be inside kill_states_for_video()
          Cleaners,       \* the iptables-cleanup threads
          BlockDuration,  \* BLOCK_DURATION_SECONDS (30)
          MaxRules,       \* bound of the model: rules per client and port
          MaxFailures,    \* bound of the model: iptables calls that fail
          MaxRestarts     \* bound of the model: restarts of the service

ASSUME KillerAssumption ==
  /\ {BlockDuration, MaxRules} \subseteq Nat \ {0}
  /\ {MaxFailures, MaxRestarts} \subseteq Nat
  /\ IsFiniteSet(Killers)
  /\ Clients # {}

HttpPort  == 1                 \* SQUID_HTTP_PORT, the first of the two loops
HttpsPort == 2                 \* SQUID_HTTPS_PORT
Ports     == {HttpPort, HttpsPort}
Absent    == BlockDuration + 1 \* the client has no entry in _active_blocks

VARIABLES
  blocks,    \* _active_blocks
  rules,     \* the kernel's INPUT chain: matching rules per client and port
  killer,    \* where each killer thread is
  cleaner,   \* where each cleanup thread is
  failures,  \* history: iptables calls that have failed
  restarts

vars == <<blocks, rules, killer, cleaner, failures, restarts>>

-----------------------------------------------------------------------------
AtRest == [pc |-> "idle", client |-> CHOOSE c \in Clients : TRUE,
           port |-> HttpPort, left |-> 0]
Asleep == [pc |-> "sleep", expired |-> {}, client |-> CHOOSE c \in Clients : TRUE,
           port |-> HttpPort]

IsBlocked(c) == blocks[c] \in 1..BlockDuration    \* is_client_blocked()

KillerTypeOK ==
  /\ blocks \in [Clients -> 0..Absent]
  /\ rules \in [Clients -> [Ports -> 0..MaxRules]]
  /\ killer \in [Killers -> [pc : {"idle", "check", "insert", "record"},
                             client : Clients, port : Ports, left : 0..BlockDuration]]
  /\ cleaner \in [Cleaners -> [pc : {"sleep", "next", "delete", "pop"},
                               expired : SUBSET Clients, client : Clients, port : Ports]]
  /\ failures \in 0..MaxFailures
  /\ restarts \in 0..MaxRestarts

KillerInit ==
  /\ blocks = [c \in Clients |-> Absent]
  /\ rules = [c \in Clients |-> [p \in Ports |-> 0]]
  /\ killer = [t \in Killers |-> AtRest]
  /\ cleaner = [k \in Cleaners |-> Asleep]
  /\ failures = 0
  /\ restarts = 0

-----------------------------------------------------------------------------
(* Mistakes a maintainer could make in the actions below; each is caught by *)
(* one of the properties at the end of the module.                          *)

(* -I without the -C *)
CheckRuleSkipped(t) ==
  /\ killer[t].pc = "check"
  /\ killer' = [killer EXCEPT ![t].pc = "insert"]
  /\ UNCHANGED <<blocks, rules, cleaner, failures, restarts>>

(* a repeated block adds to the recorded expiry *)
RecordBlockAdds(t) ==
  /\ killer[t].pc = "record"
  /\ blocks' = [blocks EXCEPT ![killer[t].client] = @ + killer[t].left]
  /\ killer' = [killer EXCEPT ![t] = AtRest]
  /\ UNCHANGED <<rules, cleaner, failures, restarts>>

(* "now < exp" instead of "now >= exp" *)
CleanUpUnexpired(k) ==
  /\ cleaner[k].pc = "sleep"
  /\ cleaner' = [cleaner EXCEPT ![k].pc = "next",
                                ![k].expired = {c \in Clients : IsBlocked(c)}]
  /\ UNCHANGED <<blocks, rules, killer, failures, restarts>>

-----------------------------------------------------------------------------
(* _add_client_block(), called by kill_states_for_video()                  *)

(* The next port, or the record after the last one. *)
NextPort(t) ==
  killer' = [killer EXCEPT ![t].pc = IF killer[t].port = HttpPort THEN "check" ELSE "record",
                           ![t].port = HttpsPort]

(* now = time.monotonic(), and the test of the recorded expiry *)
Kill(t, c) ==
  /\ killer[t].pc = "idle"
  /\ killer' = [killer EXCEPT ![t] = [pc |-> IF IsBlocked(c) THEN "record" ELSE "check",
                                      client |-> c, port |-> HttpPort,
                                      left |-> BlockDuration]]
  /\ UNCHANGED <<blocks, rules, cleaner, failures, restarts>>

(* _ipt() does not return 0 although it would have, had iptables run. *)
IptFails == failures < MaxFailures /\ failures' = failures + 1

(* iptables -C: is there a rule for this client and port?  A call that fails *)
(* says there is none.                                                      *)
CheckRule(t) ==
  /\ killer[t].pc = "check"
  /\ \/ /\ rules[killer[t].client][killer[t].port] > 0
        /\ NextPort(t)
        /\ UNCHANGED failures
     \/ /\ killer' = [killer EXCEPT ![t].pc = "insert"]
        /\ IF rules[killer[t].client][killer[t].port] = 0
             THEN UNCHANGED failures ELSE IptFails
  /\ UNCHANGED <<blocks, rules, cleaner, restarts>>

(* iptables -I, which adds a rule whether or not there is one by now, or     *)
(* fails and adds none; its exit code is not looked at.                      *)
InsertRule(t) ==
  LET c == killer[t].client
      p == killer[t].port
  IN
  /\ killer[t].pc = "insert"
  /\ \/ /\ rules[c][p] < MaxRules
        /\ rules' = [rules EXCEPT ![c][p] = @ + 1]
        /\ UNCHANGED failures
     \/ IptFails /\ UNCHANGED rules
  /\ NextPort(t)
  /\ UNCHANGED <<blocks, cleaner, restarts>>

(* expiry = now + duration, with the time read at the start of the call *)
RecordBlock(t) ==
  /\ killer[t].pc = "record"
  /\ blocks' = [blocks EXCEPT ![killer[t].client] = killer[t].left]
  /\ killer' = [killer EXCEPT ![t] = AtRest]
  /\ UNCHANGED <<rules, cleaner, failures, restarts>>

-----------------------------------------------------------------------------
(* cleanup_expired_blocks(), every 30 seconds in each cleanup thread       *)

(* expired = [ip for ip, exp in _active_blocks.items() if now >= exp] *)
CleanUp(k) ==
  /\ cleaner[k].pc = "sleep"
  /\ cleaner' = [cleaner EXCEPT ![k].pc = "next",
                                ![k].expired = {c \in Clients : blocks[c] = 0}]
  /\ UNCHANGED <<blocks, rules, killer, failures, restarts>>

(* for ip in expired: _remove_client_block(ip) *)
NextExpired(k) ==
  /\ cleaner[k].pc = "next"
  /\ \/ \E c \in cleaner[k].expired :
          cleaner' = [cleaner EXCEPT ![k] = [pc |-> "delete", expired |-> @.expired \ {c},
                                             client |-> c, port |-> HttpPort]]
     \/ /\ cleaner[k].expired = {}
        /\ cleaner' = [cleaner EXCEPT ![k] = Asleep]
  /\ UNCHANGED <<blocks, rules, killer, failures, restarts>>

(* while iptables -D succeeds: each call deletes one rule of this port.  The *)
(* loop ends when there is none left, or when a call fails.                  *)
DeleteRule(k) ==
  LET c == cleaner[k].client
      p == cleaner[k].port
  IN
  /\ cleaner[k].pc = "delete"
  /\ \/ /\ rules[c][p] > 0
        /\ rules' = [rules EXCEPT ![c][p] = @ - 1]
        /\ UNCHANGED <<cleaner, failures>>
     \/ /\ cleaner' = [cleaner EXCEPT ![k].pc = IF p = HttpPort THEN "delete" ELSE "pop",
                                       ![k].port = HttpsPort]
        /\ IF rules[c][p] = 0 THEN UNCHANGED failures ELSE IptFails
        /\ UNCHANGED rules
  /\ UNCHANGED <<blocks, killer, restarts>>

(* _active_blocks.pop(client_ip, None), whatever has been recorded since *)
PopBlock(k) ==
  /\ cleaner[k].pc = "pop"
  /\ blocks' = [blocks EXCEPT ![cleaner[k].client] = Absent]
  /\ cleaner' = [cleaner EXCEPT ![k].pc = "next"]
  /\ UNCHANGED <<rules, killer, failures, restarts>>

-----------------------------------------------------------------------------
(* A second passes; the calls in progress have read the clock already.      *)
Tick ==
  /\ \/ \E c \in Clients : IsBlocked(c)
     \/ \E t \in Killers : killer[t].left > 0
  /\ blocks' = [c \in Clients |-> IF IsBlocked(c) THEN blocks[c] - 1 ELSE blocks[c]]
  /\ killer' = [t \in Killers |-> [killer[t] EXCEPT !.left = IF @ > 0 THEN @ - 1 ELSE 0]]
  /\ UNCHANGED <<rules, cleaner, failures, restarts>>

(* The service restarts: the table is lost, the kernel keeps its rules. *)
ServiceRestart ==
  /\ restarts < MaxRestarts
  /\ restarts' = restarts + 1
  /\ blocks' = [c \in Clients |-> Absent]
  /\ killer' = [t \in Killers |-> AtRest]
  /\ cleaner' = [k \in Cleaners |-> Asleep]
  /\ UNCHANGED <<rules, failures>>

KillStep(t) == CheckRule(t) \/ InsertRule(t) \/ RecordBlock(t)
CleanStep(k) == CleanUp(k) \/ NextExpired(k) \/ DeleteRule(k) \/ PopBlock(k)

KillerNext ==
  \/ \E t \in Killers, c \in Clients : Kill(t, c)
  \/ \E t \in Killers : KillStep(t)
  \/ \E k \in Cleaners : CleanStep(k)
  \/ Tick
  \/ ServiceRestart

KillerSpec == KillerInit /\ [][KillerNext]_vars

(* Threads are scheduled, subprocess.run() has a timeout, and time passes. *)
FairKillerSpec ==
  /\ KillerSpec
  /\ \A t \in Killers : WF_vars(KillStep(t))
  /\ \A k \in Cleaners : WF_vars(CleanStep(k))
  /\ WF_vars(Tick)

-----------------------------------------------------------------------------
(* The -C test and the -I are two processes, so concurrent kills can insert  *)
(* a rule twice, and so can a -C that failed; but a client never collects    *)
(* more rules for a port than there are threads killing and calls that       *)
(* failed, however often it is blocked and over any number of cleanups and   *)
(* restarts: the while loop of the cleanup ends.                             *)
Inserting(c, p) ==
  {t \in Killers : killer[t].pc = "insert" /\ killer[t].client = c /\ killer[t].port = p}

DuplicatesBounded ==
  \A c \in Clients, p \in Ports :
     rules[c][p] + Cardinality(Inserting(c, p)) <= Cardinality(Killers) + failures

(* If a client is not killed any more, its entry leaves the table for good,  *)
(* whatever cleanups and late records were under way and calls failed.       *)
NoMoreKills == <>[][\A t \in Killers, c \in Clients : ~Kill(t, c)]_vars

BlocksAreForgotten == NoMoreKills => <>[](\A c \in Clients : blocks[c] = Absent)

-----------------------------------------------------------------------------
(* "The rule is removed after BLOCK_DURATION_SECONDS so general browsing is  *)
(* restored": the client gets the proxy back if it is not killed any more.   *)
RulesAreRemoved ==
  NoMoreKills => <>[](\A c \in Clients, p \in Ports : rules[c][p] = 0)
=============================================================================
