------------------------------- MODULE AclFiles --------------------------------
(***************************************************************************)
(* The file of blocked videos that the service writes for Squid.  Every    *)
(* analysis thread and the event loop change the videos table and then     *)
(* write the whole list anew, through one temporary file: two writers may  *)
(* share it, and a writer whose temporary file is gone goes on writing     *)
(* into the file that is live.  The file of channels is written in the     *)
(* same way.                                                               *)
(***************************************************************************)
EXTENDS Integers, Sequences, FiniteSets

CONSTANTS
  Ids,       \* numbers: the videos, in the order a query returns them
  Writers    \* the threads, and the event loop

ASSUME AclFilesAssumption == IsFiniteSet(Ids) /\ Ids \subseteq Nat /\ IsFiniteSet(Writers)

VARIABLES
  flagged,   \* the videos whose row says block or soft_block
  content,   \* inode -> its lines
  live,      \* the inode behind the path of the list
  temp,      \* the inode behind the path with ".tmp", or none
  writer,    \* writer -> where it is, its list and the inode it has open
  alone      \* history: no other update since this writer's began

fileVars == <<flagged, content, live, temp, writer, alone>>

\* Enough for the live file, one temporary file, and one per writer.
Inodes == 1 .. Cardinality(Writers) + 2
NoInode == 0
Away == [at |-> "away", list |-> <<>>, inode |-> NoInode]

FilesInit ==
  /\ flagged = {} /\ live = 1 /\ temp = NoInode
  /\ content = [i \in Inodes |-> <<>>]
  /\ writer = [w \in Writers |-> Away]
  /\ alone = [w \in Writers |-> FALSE]

\* get_blocked_video_ids(): the k-th line is the flagged video with k up to it.
BlockedIds ==
  [k \in 1 .. Cardinality(flagged) |->
     CHOOSE v \in flagged : Cardinality({u \in flagged : u <= v}) = k]

\* The lines of a file that held old after new was written from its start: the ids of
\* videos all have one length.
Overwritten(old, new) == new \o SubSeq(old, Len(new) + 1, Len(old))

At(w, place) == writer[w].at = place

\* A verdict, an override or nothing that the list shows (a whitelisting); then
\* _update_acl_files().
ChangeAndUpdate(w) ==
  /\ At(w, "away")
  /\ \/ \E v \in Ids : flagged' = (flagged \cup {v}) \ (flagged \cap {v})
     \/ UNCHANGED flagged
  /\ writer' = [writer EXCEPT ![w].at = "read"]
  /\ alone' = [x \in Writers |-> x = w /\ \A y \in Writers \ {w} : At(y, "away")]
  /\ UNCHANGED <<content, live, temp>>

\* A recalculation changes the table and leaves the list as it is.
ChangeOnly ==
  /\ \E v \in Ids : flagged' = (flagged \cup {v}) \ (flagged \cap {v})
  /\ alone' = [x \in Writers |-> FALSE]
  /\ UNCHANGED <<content, live, temp, writer>>

ReadList(w) ==
  /\ At(w, "read")
  /\ writer' = [writer EXCEPT ![w].at = "open", ![w].list = BlockedIds]
  /\ UNCHANGED <<flagged, content, live, temp, alone>>

FreeInodes == Inodes \ ({live, temp} \cup {writer[w].inode : w \in Writers})

Opened(w, i) == [writer EXCEPT ![w].at = "write", ![w].inode = i]

\* A mistake: the temporary file is opened without truncating it.
OpenKeeps(w) ==
  /\ At(w, "open")
  /\ \/ temp # NoInode /\ writer' = Opened(w, temp) /\ UNCHANGED <<content, temp>>
     \/ temp = NoInode /\ LET i == CHOOSE j \in FreeInodes : TRUE
                          IN  /\ writer' = Opened(w, i) /\ temp' = i
                              /\ content' = [content EXCEPT ![i] = <<>>]
  /\ UNCHANGED <<flagged, live, alone>>

\* open(tmp, "w") takes the temporary file of another writer if there is one.
Open(w) ==
  /\ At(w, "open")
  /\ LET i == IF temp # NoInode THEN temp ELSE CHOOSE j \in FreeInodes : TRUE
     IN  /\ writer' = Opened(w, i) /\ temp' = i
         /\ content' = [content EXCEPT ![i] = <<>>]
  /\ UNCHANGED <<flagged, live, alone>>

\* The list reaches the file when it is closed.
Write(w) ==
  /\ At(w, "write")
  /\ content' = [content EXCEPT ![writer[w].inode] = Overwritten(@, writer[w].list)]
  /\ writer' = [writer EXCEPT ![w].at = "replace"]
  /\ UNCHANGED <<flagged, live, temp, alone>>

\* Writers close what they had open; a file without a name and a descriptor is gone.
Leaves(ws) ==
  /\ writer' = [w \in Writers |-> IF w \in ws THEN Away ELSE writer[w]]
  /\ alone' = [w \in Writers |-> w \notin ws /\ alone[w]]
  /\ content' = [i \in Inodes |->
                   IF i \in {live', temp'} \cup {writer'[w].inode : w \in Writers}
                   THEN content[i] ELSE <<>>]

\* A full disk: the error is logged and the temporary file stays.
WriteFails(w) ==
  /\ At(w, "write")
  /\ UNCHANGED <<flagged, live, temp>>
  /\ Leaves({w})

\* os.replace(); without a temporary file it raises, which is logged.
Replace(w) ==
  /\ At(w, "replace")
  /\ live' = IF temp = NoInode THEN live ELSE temp
  /\ temp' = NoInode
  /\ UNCHANGED flagged
  /\ Leaves({w})

\* The service is killed and started again: its files stay as they are.
FilesCrash ==
  /\ UNCHANGED <<flagged, live, temp>>
  /\ Leaves(Writers)

FilesNext ==
  \/ \E w \in Writers : \/ ChangeAndUpdate(w) \/ ReadList(w) \/ Open(w)
                        \/ Write(w) \/ WriteFails(w) \/ Replace(w)
  \/ ChangeOnly
  \/ FilesCrash

FilesSpec == FilesInit /\ [][FilesNext]_fileVars

-----------------------------------------------------------------------------
\* An update that no other update or recalculation joins leaves exactly the blocked
\* videos in the list, whatever earlier updates, failures and crashes left behind.
UndisturbedListIsExact ==
  [][\A w \in Writers :
       (At(w, "replace") /\ writer'[w].at = "away" /\ alone[w] /\ live' # live)
          => content'[live'] = BlockedIds]_fileVars

=============================================================================
