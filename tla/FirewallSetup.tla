----------------------------- MODULE FirewallSetup -----------------------------
(***************************************************************************)
(* The setup wizard and the uninstaller: what they do to the kernel's      *)
(* rules.  Every rule is looked for before it is added, in two calls, and  *)
(* two requests to the wizard may be between them.                         *)
(***************************************************************************)
EXTENDS Naturals, FiniteSets

CONSTANTS
  Setups,      \* runs of setup_iptables() at a time
  MaxDoubts    \* bound: checks for a rule that fail although the rule is there

ASSUME FirewallAssumption == IsFiniteSet(Setups) /\ MaxDoubts \in Nat

VARIABLES
  rules,      \* kind of rule -> the number of such rules in the kernel
  persisted,  \* the same in /etc/iptables/rules.v4
  setup,      \* run -> its next step
  doubts      \* history: the number of failed checks

firewallVars == <<rules, persisted, setup, doubts>>

\* One of the two ports of each kind.
Kinds == {"redirect", "quic"}
Adding == [redirect |-> "addRedirect", quic |-> "addQuic"]
AfterRule == [redirect |-> "quic", quic |-> "save"]

FirewallInit ==
  /\ rules = [k \in Kinds |-> 0] /\ persisted = rules
  /\ setup = [s \in Setups |-> "away"]
  /\ doubts = 0

Turns(s, step) == setup' = [setup EXCEPT ![s] = step]

\* Quic is blocked as well unless the request says otherwise.
SetUp(s) ==
  /\ setup[s] = "away"
  /\ Turns(s, "redirect")
  /\ UNCHANGED <<rules, persisted, doubts>>

\* A mistake: the rule is added without a look.
CheckRuleUnseen(s, k) ==
  /\ setup[s] = k
  /\ Turns(s, Adding[k])
  /\ UNCHANGED <<rules, persisted, doubts>>

\* iptables -C.  One that fails for another reason, or takes 30 s, says no as well.
CheckRule(s, k) ==
  /\ setup[s] = k
  /\ \/ rules[k] > 0 /\ Turns(s, AfterRule[k]) /\ UNCHANGED doubts
     \/ rules[k] = 0 /\ Turns(s, Adding[k]) /\ UNCHANGED doubts
     \/ rules[k] > 0 /\ doubts < MaxDoubts /\ doubts' = doubts + 1 /\ Turns(s, Adding[k])
  /\ UNCHANGED <<rules, persisted>>

\* iptables -A, which may fail.
AddRule(s, k) ==
  /\ setup[s] = Adding[k]
  /\ rules' \in {rules, [rules EXCEPT ![k] = @ + 1]}
  /\ Turns(s, AfterRule[k])
  /\ UNCHANGED <<persisted, doubts>>

SkipQuic(s) ==
  /\ setup[s] = "quic"
  /\ Turns(s, "save")
  /\ UNCHANGED <<rules, persisted, doubts>>

\* _save_iptables(), a best effort.
SaveRules(s) ==
  /\ setup[s] = "save"
  /\ persisted' \in {persisted, rules}
  /\ Turns(s, "away")
  /\ UNCHANGED <<rules, doubts>>

\* remove_iptables() deletes the rules with its comment by their numbers, the last first.
\* Its -D for the redirects names no interface, and so matches none of them.
RemoveRules ==
  /\ rules' = [rules EXCEPT !["quic"] = 0]
  /\ persisted' \in {persisted, rules'}
  /\ UNCHANGED <<setup, doubts>>

\* The rules come back as they were last saved.
FirewallReboot ==
  /\ rules' = persisted
  /\ setup' = [s \in Setups |-> "away"]
  /\ UNCHANGED <<persisted, doubts>>

FirewallNext ==
  \/ \E s \in Setups :
       \/ SetUp(s) \/ SkipQuic(s) \/ SaveRules(s)
       \/ \E k \in Kinds : CheckRule(s, k) \/ AddRule(s, k)
  \/ RemoveRules \/ FirewallReboot

FirewallSpec == FirewallInit /\ [][FirewallNext]_firewallVars

-----------------------------------------------------------------------------
\* The wizard may be run again at any time, and twice at once: a rule is there at most
\* once for each run that may overlap, and once more for each check that failed although
\* the rule was there.  Uninstalls and reboots in between do not make it more.
RulesDoNotPileUp ==
  \A k \in Kinds : rules[k] <= Cardinality(Setups) + doubts

=============================================================================
