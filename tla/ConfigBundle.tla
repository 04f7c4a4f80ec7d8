----------------------------- MODULE ConfigBundle ------------------------------
(***************************************************************************)
(* A configuration bundle is imported file by file over the files of a     *)
(* running service.  One of them is its database: while a thread has it    *)
(* open, its latest commits are in a log beside it, and whoever closes it  *)
(* last writes them into the file.                                         *)
(***************************************************************************)
EXTENDS FiniteSets

CONSTANTS
  Files,      \* the files of a bundle
  Database,   \* the one that is the database
  DbThreads   \* analysis threads; the event loop is busy with the import

ASSUME BundleAssumption == Database \in Files

VARIABLES
  disk,        \* file -> what it holds: "own", "bundle", "torn", or a "mix" of two databases
  backup,      \* file -> what its ".bak" holds
  log,         \* the database that the commits in its log were made to, or "none"
  opened,      \* the threads that have the database open
  import,      \* the import under way and its result
  disturbed    \* history: the database was open while it was replaced

bundleVars == <<disk, backup, log, opened, import, disturbed>>

NoImport == [at |-> "none", members |-> {}, todo |-> {}, staged |-> {}, restored |-> {},
             errors |-> FALSE]

BundleInit ==
  /\ disk \in [Files -> {"none", "own"}] /\ disk[Database] = "own"
  /\ backup = [f \in Files |-> "none"]
  /\ log = "none" /\ opened = {} /\ disturbed = FALSE
  /\ import = NoImport

Open(t) ==
  /\ t \notin opened
  /\ opened' = opened \cup {t}
  /\ disturbed' = (disturbed \/ (import.at = "copy" /\ Database \in import.todo))
  /\ UNCHANGED <<disk, backup, log, import>>

Commit(t) ==
  /\ t \in opened
  /\ log' = IF log = "none" THEN disk[Database] ELSE log
  /\ UNCHANGED <<disk, backup, opened, import, disturbed>>

Checkpointed == [disk EXCEPT ![Database] = IF log \in {"none", @} THEN @ ELSE "mix"]

Close(t) ==
  /\ t \in opened
  /\ opened' = opened \ {t}
  /\ IF opened' = {} THEN disk' = Checkpointed /\ log' = "none"
                     ELSE UNCHANGED <<disk, log>>
  /\ UNCHANGED <<backup, import, disturbed>>

\* An upload with any of the files; its metadata may be missing, which is an error, or
\* of another version, which is none.
StartImport(members, metadata) ==
  /\ import.at \in {"none", "done"}
  /\ import' = [NoImport EXCEPT !.at = "stage", !.members = members, !.todo = members,
                               !.errors = ~metadata]
  /\ disturbed' = FALSE
  /\ UNCHANGED <<disk, backup, log, opened>>

\* A mistake: a member that cannot be read is left out without a word.
StageQuietly(f) ==
  /\ import.at = "stage" /\ f \in import.todo
  /\ import' \in {[import EXCEPT !.todo = @ \ {f}, !.staged = @ \cup {f}],
                  [import EXCEPT !.todo = @ \ {f}]}
  /\ UNCHANGED <<disk, backup, log, opened, disturbed>>

\* _safe_extract_member(), which may find the member damaged.
Stage(f) ==
  /\ import.at = "stage" /\ f \in import.todo
  /\ import' \in {[import EXCEPT !.todo = @ \ {f}, !.staged = @ \cup {f}],
                  [import EXCEPT !.todo = @ \ {f}, !.errors = TRUE]}
  /\ UNCHANGED <<disk, backup, log, opened, disturbed>>

\* The copy of the old file is a best effort.
BackUp(f) ==
  /\ import.at = "stage" /\ import.todo = {} /\ f \in import.staged
  /\ backup' \in {backup, [backup EXCEPT ![f] = IF disk[f] = "none" THEN @ ELSE disk[f]]}
  /\ disk' = [disk EXCEPT ![f] = "torn"]
  /\ import' = [import EXCEPT !.at = "copy", !.todo = {f}, !.staged = @ \ {f}]
  /\ disturbed' = (disturbed \/ (f = Database /\ opened # {}))
  /\ UNCHANGED <<log, opened>>

\* The file is written in place; the copy may fail half way.
Install(f) ==
  /\ import.at = "copy" /\ f \in import.todo
  /\ \/ /\ disk' = [disk EXCEPT ![f] = "bundle"]
        /\ import' = [import EXCEPT !.at = "stage", !.todo = {}, !.restored = @ \cup {f}]
     \/ /\ import' = [import EXCEPT !.at = "stage", !.todo = {}, !.errors = TRUE]
        /\ UNCHANGED disk
  /\ UNCHANGED <<backup, log, opened, disturbed>>

\* The service restarts when anything was restored.  The restart also ends the process
\* that asked for it, and its threads: the answer is then never sent.
Finish ==
  /\ import.at = "stage" /\ import.todo = {} /\ import.staged = {}
  /\ \/ import' = [import EXCEPT !.at = "done"]
     \/ import.restored # {} /\ import' = [import EXCEPT !.at = "done", !.errors = TRUE]
  /\ UNCHANGED <<disk, backup, log, opened, disturbed>>

\* The process ends, by that restart or by itself; the next one opens the database and
\* closes it again.
BundleCrash ==
  /\ disk' = Checkpointed /\ log' = "none"
  /\ import' = NoImport /\ opened' = {} /\ disturbed' = FALSE
  /\ UNCHANGED backup

BundleNext ==
  \/ \E t \in DbThreads : Open(t) \/ Commit(t) \/ Close(t)
  \/ \E members \in SUBSET Files, metadata \in BOOLEAN : StartImport(members, metadata)
  \/ \E f \in Files : Stage(f) \/ BackUp(f) \/ Install(f)
  \/ Finish
  \/ BundleCrash

BundleSpec == BundleInit /\ [][BundleNext]_bundleVars

Succeeded == import.at = "done" /\ import.restored # {} /\ ~import.errors

-----------------------------------------------------------------------------
\* An import that reports success has put every file of the bundle in place, whole: a
\* damaged archive never succeeds in part.  The database is excepted if a thread had it
\* open while it was replaced, and nothing prevents that.
SuccessMeansRestored ==
  Succeeded =>
    /\ import.restored = import.members
    /\ \A f \in import.members : disk[f] = "bundle" \/ (f = Database /\ disturbed)

=============================================================================
