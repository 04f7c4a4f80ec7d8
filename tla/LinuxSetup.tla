------------------------------- MODULE LinuxSetup -------------------------------
(***************************************************************************)
(* The setup wizard and the uninstaller as a whole: what they do to Squid  *)
(* and what they do to the kernel's rules, in any order.                   *)
(***************************************************************************)
EXTENDS SquidSetup, FirewallSetup

SetupInit == SquidInit /\ FirewallInit

\* The two halves of a request to the wizard are requests of their own here, since any of
\* its steps may be left out; a reboot of the machine is one of each half.
SetupNext ==
  \/ SquidNext /\ UNCHANGED firewallVars
  \/ FirewallNext /\ UNCHANGED squidVars

SetupSpec == SetupInit /\ [][SetupNext]_<<squidVars, firewallVars>>

-----------------------------------------------------------------------------
\* Nothing that the setup does piles up, however often it is run, interrupted and undone.
SetupDoesNotPileUp == IncludedOnce /\ RulesDoNotPileUp

=============================================================================
