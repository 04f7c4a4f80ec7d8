------------------------------- MODULE MCGateway -------------------------------
(* Parts that share nothing in the model are checked side by side: "focus"        *)
(* chooses in the initial state which of them runs.                               *)
EXTENDS GateReaders, IcapServer, ShimPipeline

VARIABLE focus

MCRows == {[status |-> "none", channel |-> FALSE]} \cup
          [status : {"allow", "soft_block"}, channel : BOOLEAN]
MCRequests == {[method |-> "OPTIONS", target |-> FALSE, json |-> FALSE, id |-> FALSE, intent |-> "click"],
               [method |-> "REQMOD", target |-> TRUE, json |-> TRUE, id |-> TRUE, intent |-> "hover"],
               [method |-> "REQMOD", target |-> TRUE, json |-> TRUE, id |-> TRUE, intent |-> "click"]}
MCTokenSets == [helper |-> {{"url", "channel"}, {"raw"}}, redirector |-> {{"url"}},
                api |-> {{"url", "channel", "both"}}]

Init ==
  /\ focus \in {"readers", "icap", "shim"}
  /\ ReadersInit /\ IcapInit /\ ShimInit
  /\ focus # "readers" => /\ reader = "redirector" /\ listed = {}
                          /\ tier = "none" /\ row.status = "none"
  /\ focus # "icap" => ~enforce /\ request = [c \in Conns |-> CHOOSE r \in Requests : TRUE]
  /\ focus # "shim" => sharesModule

Next ==
  \/ focus = "readers" /\ ReadersNext /\ UNCHANGED <<focus, icapVars, shimVars>>
  \/ focus = "icap" /\ IcapNext /\ UNCHANGED <<focus, readerVars, shimVars>>
  \/ focus = "shim" /\ ShimNext /\ UNCHANGED <<focus, readerVars, icapVars>>

gatewayVars == <<focus, readerVars, icapVars, shimVars>>

Spec == Init /\ [][Next]_gatewayVars /\ IcapFairness /\ (focus = "shim" => ShimFairness)

=============================================================================
