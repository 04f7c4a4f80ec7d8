---------------------------- MODULE MCAdministration ----------------------------
(* What the administrator and the start of the service do to the files, rules and  *)
(* tables that the filter rests on.  These parts share nothing in the model, and   *)
(* "focus" chooses in the initial state which of them runs.                        *)
EXTENDS Sequences, Migrations, ConfigBundle, Snapshots, Profiles, Keywords,
        LinuxSetup, MlModels, Watchdog

VARIABLE focus

MCStatements == [v \in 2 .. 3 |->
  IF v = 2 THEN <<[column |-> FALSE, name |-> "profiles"], [column |-> TRUE, name |-> "strategy"]>>
           ELSE <<[column |-> TRUE, name |-> "comment_score"], [column |-> TRUE, name |-> "shorts_bonus"]>>]
MCClients == {"tablet", "laptop"}
MCRangeSets == {{}, {"tablet"}, MCClients}
MCIds == 1 .. 2
MCLabels == [brainrot : 0 .. 2, other : 0 .. 2]

others == <<migrationVars, bundleVars, snapshotVars, profileVars, keywordVars, squidVars,
            firewallVars, modelVars, dogVars>>

Init ==
  /\ focus \in {"migrations", "bundle", "snapshots", "profiles", "keywords", "squid", "firewall",
                "models", "watchdog"}
  /\ MigrationsInit /\ BundleInit /\ SnapshotsInit /\ ProfilesInit /\ KeywordsInit
  /\ SetupInit /\ ModelsInit /\ WatchdogInit
  /\ focus # "bundle" => disk = [f \in Files |-> "own"]

Next ==
  \/ focus = "migrations" /\ MigrationsNext
     /\ UNCHANGED <<focus, bundleVars, snapshotVars, profileVars, keywordVars, squidVars, firewallVars, modelVars, dogVars>>
  \/ focus = "bundle" /\ BundleNext
     /\ UNCHANGED <<focus, migrationVars, snapshotVars, profileVars, keywordVars, squidVars, firewallVars, modelVars, dogVars>>
  \/ focus = "snapshots" /\ SnapshotsNext
     /\ UNCHANGED <<focus, migrationVars, bundleVars, profileVars, keywordVars, squidVars, firewallVars, modelVars, dogVars>>
  \/ focus = "profiles" /\ ProfilesNext
     /\ UNCHANGED <<focus, migrationVars, bundleVars, snapshotVars, keywordVars, squidVars, firewallVars, modelVars, dogVars>>
  \/ focus = "keywords" /\ KeywordsNext
     /\ UNCHANGED <<focus, migrationVars, bundleVars, snapshotVars, profileVars, squidVars, firewallVars, modelVars, dogVars>>
  \/ focus = "squid" /\ SquidNext
     /\ UNCHANGED <<focus, migrationVars, bundleVars, snapshotVars, profileVars, keywordVars, firewallVars, modelVars, dogVars>>
  \/ focus = "firewall" /\ FirewallNext
     /\ UNCHANGED <<focus, migrationVars, bundleVars, snapshotVars, profileVars, keywordVars, squidVars, modelVars, dogVars>>
  \/ focus = "models" /\ ModelsNext
     /\ UNCHANGED <<focus, migrationVars, bundleVars, snapshotVars, profileVars, keywordVars, squidVars, firewallVars, dogVars>>
  \/ focus = "watchdog" /\ WatchdogNext
     /\ UNCHANGED <<focus, migrationVars, bundleVars, snapshotVars, profileVars, keywordVars, squidVars, firewallVars, modelVars>>

Spec == Init /\ [][Next]_<<focus, others>> /\ (focus = "watchdog" => WatchdogFairness)

-----------------------------------------------------------------------------
(* The two pure functions of the profiles, at their edges.                         *)

GlobalLimits == [block |-> 60, soft |-> 45, monitor |-> 30]

ASSUME \* "disabled" ignores the profile's own limits, and "strict" has one for all
  /\ Effective("disabled", [block |-> 1], GlobalLimits) = GlobalLimits
  /\ Effective("strict", [monitor |-> 20], GlobalLimits) = [l \in Limited |-> 20]
  /\ Effective("monitor_only", << >>, GlobalLimits).block = Unlimited

ASSUME \* a rule over midnight looks at the day it is, not at the day it began
  LET night == [days |-> {5}, start |-> 1320, end |-> 360]
  IN  /\ ScheduleActive(night, 5, 1380) /\ ScheduleActive(night, 5, 100)
      /\ ~ScheduleActive(night, 6, 100)

=============================================================================
