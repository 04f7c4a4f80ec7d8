------------------------------- MODULE SquidSetup ------------------------------
(***************************************************************************)
(* The setup wizard and the uninstaller: what they do to Squid.  A request *)
(* to the wizard runs its steps one after the other in executor threads,   *)
(* goes on after a step that failed, and nothing keeps two requests apart. *)
(* Squid's main configuration is changed by a helper that runs as root.    *)
(* The uninstaller's steps run on the event loop.                          *)
(***************************************************************************)
EXTENDS Naturals

CONSTANT Wizards   \* requests to /api/wizard/apply under way at a time

VARIABLES
  cert,       \* there is a certificate of the authority
  include,    \* the number of lines in squid.conf that include the snippet
  denyRules,  \* the file in conf.d with the deny rules is there
  requested,  \* what the request files ask the helper for
  helper,     \* where the helper is: it is a oneshot unit, so there is one at a time
  installed,  \* the helper scripts are there
  wizard,     \* wizard -> its next step
  complete    \* where it is noted that the wizard was completed: "flag", "row"

squidVars == <<cert, include, denyRules, requested, helper, installed, wizard, complete>>

SquidInit ==
  /\ cert = FALSE /\ include = 0 /\ denyRules = FALSE /\ requested = {}
  /\ helper = "idle" /\ installed = TRUE
  /\ wizard = [w \in Wizards |-> "away"] /\ complete = {}

-----------------------------------------------------------------------------
(* The wizard                                                                  *)

Goes(w, step) == wizard' = [wizard EXCEPT ![w] = step]

\* The settings and keywords are saved first.
Apply(w) ==
  /\ wizard[w] = "away"
  /\ Goes(w, "authority")
  /\ UNCHANGED <<cert, include, denyRules, requested, helper, installed, complete>>

\* The step after the one that a step belongs to.
AfterStep == [authority |-> "squid", generate |-> "squid", squid |-> "scripts", conf |-> "scripts",
              start |-> "scripts", wait |-> "scripts", scripts |-> "mark", mark |-> "away"]

\* A step that is not asked for, or that fails before it changes anything more.
LeaveOut(w) ==
  /\ wizard[w] # "away"
  /\ Goes(w, AfterStep[wizard[w]])
  /\ UNCHANGED <<cert, include, denyRules, requested, helper, installed, complete>>

\* create_ca(): openssl makes a key and then a certificate.
LookForCa(w) ==
  /\ wizard[w] = "authority"
  /\ Goes(w, IF cert THEN "squid" ELSE "generate")
  /\ UNCHANGED <<cert, include, denyRules, requested, helper, installed, complete>>

CreateCa(w) ==
  /\ wizard[w] = "generate"
  /\ cert' = TRUE
  /\ Goes(w, "squid")
  /\ UNCHANGED <<include, denyRules, requested, helper, installed, complete>>

\* configure_squid(): the snippet, and the request to put the deny rules in place.
WriteSnippets(w) ==
  /\ wizard[w] = "squid" /\ cert
  /\ requested' = requested \cup {"denyRules"}
  /\ Goes(w, "conf")
  /\ UNCHANGED <<cert, include, denyRules, helper, installed, complete>>

\* The helper is asked only if squid.conf does not mention the snippet.
LookAtConf(w) ==
  /\ wizard[w] = "conf"
  /\ IF include > 0 THEN Goes(w, "scripts") /\ UNCHANGED requested
                    ELSE Goes(w, "start") /\ requested' = requested \cup {"include"}
  /\ UNCHANGED <<cert, include, denyRules, helper, installed, complete>>

\* systemctl start: a unit that is active is joined.
StartHelper(w) ==
  /\ wizard[w] = "start" /\ installed
  /\ helper' = IF helper = "idle" THEN "read" ELSE helper
  /\ Goes(w, "wait")
  /\ UNCHANGED <<cert, include, denyRules, requested, installed, complete>>

\* The wizard waits 15 s at most (LeaveOut); what squid -k parse says changes nothing.
HelperReturns(w) ==
  /\ wizard[w] = "wait" /\ helper = "idle"
  /\ Goes(w, "scripts")
  /\ UNCHANGED <<cert, include, denyRules, requested, helper, installed, complete>>

\* install_helpers() finds the scripts in place, or not at all.
InstallHelpers(w) ==
  /\ wizard[w] = "scripts"
  /\ Goes(w, "mark")
  /\ UNCHANGED <<cert, include, denyRules, requested, helper, installed, complete>>

\* After the verification, whatever it said.  The row is a best effort.
MarkComplete(w) ==
  /\ wizard[w] = "mark"
  /\ \E noted \in {{"row", "flag"}, {"flag"}} : complete' = complete \cup noted
  /\ Goes(w, "away")
  /\ UNCHANGED <<cert, include, denyRules, requested, helper, installed>>

\* The client leaves, and the stream ends between two steps.
Leave(w) ==
  /\ wizard[w] \in {"authority", "squid", "scripts", "mark"}
  /\ Goes(w, "away")
  /\ UNCHANGED <<cert, include, denyRules, requested, helper, installed, complete>>

-----------------------------------------------------------------------------
(* The helper                                                                  *)

\* A mistake: the helper trusts the request.
HelperReadsTrusting ==
  /\ helper = "read"
  /\ helper' = IF "include" \in requested THEN "insert" ELSE "idle"
  /\ UNCHANGED <<cert, include, denyRules, requested, installed, wizard, complete>>

HelperReads ==
  /\ helper = "read"
  /\ helper' = IF "include" \notin requested THEN "idle"
               ELSE IF include > 0 THEN "parse" ELSE "insert"
  /\ UNCHANGED <<cert, include, denyRules, requested, installed, wizard, complete>>

HelperInserts ==
  /\ helper = "insert"
  /\ include' = include + 1
  /\ helper' = "parse"
  /\ UNCHANGED <<cert, denyRules, requested, installed, wizard, complete>>

\* After a fatal error the line is taken out again; the command for that leaves it when
\* it is the last of the file.
HelperParses ==
  /\ helper = "parse"
  /\ \/ helper' = "copy" /\ requested' = requested \ {"include"} /\ UNCHANGED include
     \/ helper' = "idle" /\ include' \in {0, include} /\ UNCHANGED requested
  /\ UNCHANGED <<cert, denyRules, installed, wizard, complete>>

HelperCopies ==
  /\ helper = "copy"
  /\ denyRules' = (denyRules \/ "denyRules" \in requested)
  /\ requested' = requested \ {"denyRules"}
  /\ helper' = "idle"
  /\ UNCHANGED <<cert, include, installed, wizard, complete>>

-----------------------------------------------------------------------------
(* The uninstaller: each of its steps may fail, and the others follow.         *)

RemoveDenyRules ==
  /\ denyRules' = FALSE
  /\ UNCHANGED <<cert, include, requested, helper, installed, wizard, complete>>

RemoveCa ==
  /\ cert' = FALSE
  /\ UNCHANGED <<include, denyRules, requested, helper, installed, wizard, complete>>

RemoveHelpers ==
  /\ installed' = FALSE
  /\ UNCHANGED <<cert, include, denyRules, requested, helper, wizard, complete>>

RemoveFlag ==
  /\ complete' = complete \ {"flag"}
  /\ UNCHANGED <<cert, include, denyRules, requested, helper, installed, wizard>>

\* _wizard_completed(), at any request for a page: the row brings the flag back.
LookForFlag ==
  /\ "row" \in complete
  /\ complete' = complete \cup {"flag"}
  /\ UNCHANGED <<cert, include, denyRules, requested, helper, installed, wizard>>

\* The machine restarts.
SquidReboot ==
  /\ wizard' = [w \in Wizards |-> "away"] /\ helper' = "idle"
  /\ UNCHANGED <<cert, include, denyRules, requested, installed, complete>>

SquidNext ==
  \/ \E w \in Wizards :
       \/ Apply(w) \/ LeaveOut(w) \/ LookForCa(w) \/ CreateCa(w)
       \/ WriteSnippets(w) \/ LookAtConf(w) \/ StartHelper(w) \/ HelperReturns(w)
       \/ InstallHelpers(w) \/ MarkComplete(w) \/ Leave(w)
  \/ HelperReads \/ HelperInserts \/ HelperParses \/ HelperCopies
  \/ RemoveDenyRules \/ RemoveCa \/ RemoveHelpers \/ RemoveFlag
  \/ LookForFlag
  \/ SquidReboot

-----------------------------------------------------------------------------
\* Overlapping runs of the wizard all find that squid.conf lacks the snippet and all ask
\* for it; it is included once, and what the helper leaves after a fatal error or a
\* reboot does not add to it.
IncludedOnce == include <= 1

=============================================================================
