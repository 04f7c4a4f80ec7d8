------------------------------- MODULE Keywords --------------------------------
(***************************************************************************)
(* The list of keywords and its synchronisation with the community's list: *)
(* fetch, compare with the hash of the last synchronised list, back up,    *)
(* merge, write, save the hash.  The service may end between any two of    *)
(* these.  All of it runs on the event loop.                               *)
(***************************************************************************)
EXTENDS Integers

CONSTANTS
  Words,      \* keywords, each in one category
  TopWeight   \* the weights are 1 .. TopWeight

ASSUME KeywordsAssumption == TopWeight \in Nat \ {0}

Strategies == {"additive", "full_sync", "weighted_merge"}

VARIABLES
  words,       \* the list in keywords.json: the weight of a word, 0 for none; or Torn
  saved,       \* the same in its backup, or NoList
  community,   \* the community's list
  synced,      \* the list whose hash is saved, or NoList
  strategy,    \* one of Strategies, or "off"
  sync,        \* what the event loop is doing
  untouched    \* history: the list and the strategy are as the last synchronisation left them

keywordVars == <<words, saved, community, synced, strategy, sync, untouched>>

Lists == [Words -> 0 .. TopWeight]
Torn == [w \in Words |-> -1]
NoList == [w \in Words |-> -2]
Empty == [w \in Words |-> 0]

KeywordsInit ==
  /\ words = [w \in Words |-> 1] /\ saved = NoList
  /\ community = Empty /\ synced = NoList
  /\ strategy = "additive" /\ sync = "idle" /\ untouched = TRUE

\* _load_local_keywords(): a file that is missing or cannot be parsed is an empty list.
Loaded == IF words = Torn THEN Empty ELSE words

\* merge_keywords()
Merge(local, other, how) ==
  CASE how = "full_sync"      -> other
    [] how = "additive"       -> [w \in Words |-> IF local[w] = 0 THEN other[w] ELSE local[w]]
    [] how = "weighted_merge" -> [w \in Words |-> IF other[w] > local[w] THEN other[w] ELSE local[w]]

\* compute_diff(): a full synchronisation does not look at the weights.
Diff(local, other, how) ==
  LET added    == {w \in Words : local[w] = 0 /\ other[w] > 0}
      removed  == {w \in Words : local[w] > 0 /\ other[w] = 0}
      modified == {w \in Words : 0 < local[w] /\ local[w] < other[w]}
  IN  added \cup (IF how = "full_sync" THEN removed ELSE {})
            \cup (IF how = "weighted_merge" THEN modified ELSE {})

-----------------------------------------------------------------------------
\* What others do: the community, PUT /api/community/config, the administrator.
CommunityChanges(list) ==
  /\ sync = "idle"
  /\ community' = list
  /\ UNCHANGED <<words, saved, synced, strategy, sync, untouched>>

ChooseStrategy(how) ==
  /\ sync = "idle"
  /\ strategy' = how /\ untouched' = FALSE
  /\ UNCHANGED <<words, saved, community, synced, sync>>

\* An edit of the file; PUT /api/wizard/keywords writes one without categories, which
\* every reader takes for an empty list.
EditWords(list) ==
  /\ sync = "idle"
  /\ words' = list /\ untouched' = FALSE
  /\ UNCHANGED <<saved, community, synced, strategy, sync>>

\* POST /api/community/sync clears the time of the last check, so it is never too soon.
\* The fetch may fail; the list may be the one of the last time, or change nothing.
Sync ==
  /\ sync = "idle" /\ strategy # "off" /\ community # synced
  /\ IF Diff(Loaded, community, strategy) = {}
     THEN sync' = "hash" ELSE sync' = "backup"
  /\ UNCHANGED <<words, saved, community, synced, strategy, untouched>>

\* A backup that fails is only logged.
BackUpWords ==
  /\ sync = "backup"
  /\ saved' \in {saved, words}
  /\ sync' = "write"
  /\ UNCHANGED <<words, community, synced, strategy, untouched>>

\* A mistake: a list that could not be written counts as synchronised.
WriteMergedAnyway ==
  /\ sync = "write"
  /\ words' \in {words, Merge(Loaded, community, strategy)}
  /\ sync' = "hash"
  /\ UNCHANGED <<saved, community, synced, strategy, untouched>>

\* The file is replaced as a whole, or the synchronisation ends without it.
WriteMerged ==
  /\ sync = "write"
  /\ \/ words' = Merge(Loaded, community, strategy) /\ sync' = "hash"
     \/ sync' = "idle" /\ UNCHANGED words
  /\ UNCHANGED <<saved, community, synced, strategy, untouched>>

SaveHash ==
  /\ sync = "hash"
  /\ synced' = community /\ sync' = "idle" /\ untouched' = TRUE
  /\ UNCHANGED <<words, saved, community, strategy>>

\* rollback_keywords() copies the backup over the live file.
RollbackBegins ==
  /\ sync = "idle" /\ saved # NoList
  /\ words' = Torn /\ untouched' = FALSE /\ sync' = "rollback"
  /\ UNCHANGED <<saved, community, synced, strategy>>

RollbackEnds ==
  /\ sync = "rollback"
  /\ words' \in {saved, Torn}
  /\ sync' = "idle"
  /\ UNCHANGED <<saved, community, synced, strategy, untouched>>

\* The service ends: a backup that was being copied is torn.
KeywordsCrash ==
  /\ sync # "idle"
  /\ saved' \in IF sync = "backup" THEN {saved, Torn} ELSE {saved}
  /\ sync' = "idle"
  /\ UNCHANGED <<words, community, synced, strategy, untouched>>

KeywordsNext ==
  \/ \E list \in Lists : CommunityChanges(list) \/ EditWords(list)
  \/ \E how \in Strategies \cup {"off"} : ChooseStrategy(how)
  \/ Sync \/ BackUpWords \/ WriteMerged \/ SaveHash
  \/ RollbackBegins \/ RollbackEnds
  \/ KeywordsCrash

KeywordsSpec == KeywordsInit /\ [][KeywordsNext]_keywordVars

-----------------------------------------------------------------------------
\* A list whose hash is saved has been merged: as long as nobody touches the list or the
\* strategy, the next synchronisation, which stops at an equal hash, misses nothing.  A
\* full synchronisation is excepted, since it takes a changed weight for no change.
SyncedIsMerged ==
  (synced # NoList /\ untouched /\ sync = "idle" /\ strategy \in {"additive", "weighted_merge"})
     => Merge(Loaded, synced, strategy) = Loaded

=============================================================================
