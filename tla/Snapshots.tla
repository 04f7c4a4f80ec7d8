------------------------------- MODULE Snapshots -------------------------------
(***************************************************************************)
(* The factory snapshot: the end of the setup wizard and a request of the  *)
(* administrator make one unless there is one, and a rollback goes back to *)
(* it.  Both look at snapper's list first, and a list that cannot be read  *)
(* is an empty list.  snapper itself makes and cleans up other snapshots.  *)
(***************************************************************************)
EXTENDS Naturals, FiniteSets, FiniteSetsExt

CONSTANTS
  Creators,      \* the wizard's thread and the event loop
  MaxSnapshots   \* bound: snapshots ever made

VARIABLES
  snapshots,   \* number -> what marks it: "flag", "name" (a description), or "plain"
  made,        \* the highest number given
  creator,     \* creator -> "away", or about to create
  rollback,    \* its target, the snapshot last prepared; history: first as it looked
  first        \* history: the first flagged snapshot there was

snapshotVars == <<snapshots, made, creator, rollback, first>>

NoSnapshot == 0

SnapshotsInit ==
  /\ snapshots = << >> /\ made = 0 /\ first = NoSnapshot
  /\ creator = [c \in Creators |-> "away"]
  /\ rollback = [target |-> NoSnapshot, prepared |-> NoSnapshot, known |-> NoSnapshot]

Numbers == DOMAIN snapshots
Marked(mark) == {n \in Numbers : snapshots[n] = mark}

\* A mistake: the newest one.
FactoryNewest ==
  IF Marked("flag") # {} THEN Max(Marked("flag"))
  ELSE IF Marked("name") # {} THEN Max(Marked("name")) ELSE NoSnapshot

\* get_factory_snapshot_id(): the flag counts before the description, the oldest first.
Factory ==
  IF Marked("flag") # {} THEN Min(Marked("flag"))
  ELSE IF Marked("name") # {} THEN Min(Marked("name")) ELSE NoSnapshot

\* What a caller learns, the list may be unreadable.
Found == {Factory, NoSnapshot}

Made(mark) ==
  /\ made < MaxSnapshots
  /\ made' = made + 1
  /\ snapshots' = [n \in Numbers \cup {made'} |-> IF n = made' THEN mark ELSE snapshots[n]]

\* create_factory_snapshot(): without a root configuration snapper gets one first, and
\* the request ends if it cannot.
LookForFactory(c) ==
  /\ creator[c] = "away"
  /\ NoSnapshot \in Found
  /\ creator' = [creator EXCEPT ![c] = "create"]
  /\ UNCHANGED <<snapshots, made, rollback, first>>

\* snapper create; it may also fail, and it may finish after it was given up.
CreateFactory(c) ==
  /\ creator[c] = "create"
  /\ creator' = [creator EXCEPT ![c] = "away"]
  /\ \/ Made("flag") /\ first' = IF first = NoSnapshot THEN made' ELSE first
     \/ UNCHANGED <<snapshots, made, first>>
  /\ UNCHANGED rollback

LookForTarget ==
  /\ rollback.target = NoSnapshot
  /\ \E n \in Found \ {NoSnapshot} : rollback' = [rollback EXCEPT !.target = n, !.known = first]
  /\ UNCHANGED <<snapshots, made, creator, first>>

\* snapper rollback; it fails if the snapshot has gone.
RollBack ==
  /\ rollback.target # NoSnapshot
  /\ rollback' \in {[rollback EXCEPT !.target = NoSnapshot]} \cup
                   {[rollback EXCEPT !.target = NoSnapshot, !.prepared = n] : n \in Numbers \cap {rollback.target}}
  /\ UNCHANGED <<snapshots, made, creator, first>>

\* A timeline snapshot, or one of the administrator with a description of his own.
OtherSnapshot ==
  /\ \E mark \in {"name", "plain"} : Made(mark)
  /\ UNCHANGED <<creator, rollback, first>>

\* The number cleanup, which the factory snapshot is given to as well.
CleanupOldest ==
  /\ Numbers # {}
  /\ snapshots' = [n \in Numbers \ {Min(Numbers)} |-> snapshots[n]]
  /\ UNCHANGED <<made, creator, rollback, first>>

SnapshotsNext ==
  \/ \E c \in Creators : LookForFactory(c) \/ CreateFactory(c)
  \/ LookForTarget \/ RollBack
  \/ OtherSnapshot \/ CleanupOldest

SnapshotsSpec == SnapshotsInit /\ [][SnapshotsNext]_snapshotVars

-----------------------------------------------------------------------------
\* Whatever duplicates unreadable lists and two creators have made, and whatever else is
\* called "factory", a rollback goes to the first factory snapshot, if there was one when
\* it looked and it still exists.
FirstFactoryWins ==
  [][rollback'.prepared # rollback.prepared /\ rollback.known \in Numbers
       => rollback'.prepared = rollback.known]_snapshotVars

=============================================================================
