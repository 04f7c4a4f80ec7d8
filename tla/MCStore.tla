-------------------------------- MODULE MCStore --------------------------------
(* What the analyses and the administrator's requests write: the videos table, the *)
(* lists of blocked videos, and the profile of a channel.  The three share nothing *)
(* in the model, and "focus" chooses in the initial state which of them runs.      *)
EXTENDS VideoStore, AclFiles, ChannelProfiles

VARIABLE focus

MCIds == 1 .. 2

Init ==
  /\ focus \in {"videos", "files", "channels"}
  /\ StoreInit /\ FilesInit /\ ChannelsInit
  /\ focus # "videos" => weight = (CHOOSE w \in Weights : TRUE) /\ limit = (CHOOSE l \in Limits : TRUE)
  /\ focus # "channels" => flagLimit = (CHOOSE f \in FlagLimits : TRUE)

Next ==
  \/ focus = "videos" /\ StoreNext /\ UNCHANGED <<focus, fileVars, channelVars>>
  \/ focus = "files" /\ FilesNext /\ UNCHANGED <<focus, vars, channelVars>>
  \/ focus = "channels" /\ ChannelsNext /\ UNCHANGED <<focus, vars, fileVars>>

Spec == Init /\ [][Next]_<<focus, vars, fileVars, channelVars>>

=============================================================================
