------------------------------ MODULE Migrations -------------------------------
(***************************************************************************)
(* The schema migrations.  The service runs them at every start, and       *)
(* db_migrations.py may be run by hand at the same time.  SQLite commits   *)
(* each statement that changes the schema by itself: the with-block of a   *)
(* migration opens no transaction for them, so a migration may stop        *)
(* between any two statements.                                             *)
(***************************************************************************)
EXTENDS Naturals, Sequences

CONSTANTS
  Migrators,    \* processes that may run the migrations
  Latest,       \* versions 2 .. Latest have a migration
  Statements    \* version -> what its statements add, columns and tables, in order

ASSUME MigrationsAssumption ==
  /\ Latest \in Nat \ {0}
  /\ DOMAIN Statements = 2 .. Latest
  /\ \A v \in 2 .. Latest : Statements[v] \in Seq([column : BOOLEAN, name : STRING])

VARIABLES
  base,       \* db.initialize() has made the first schema
  schema,     \* what the statements have added
  recorded,   \* the version in the settings table
  migrator    \* migrator -> where it is, at which version and statement

migrationVars == <<base, schema, recorded, migrator>>

Away == [at |-> "away", version |-> 0, next |-> 0]

MigrationsInit ==
  /\ base = FALSE /\ schema = {} /\ recorded = 1
  /\ migrator = [m \in Migrators |-> Away]

Moves(m, to) == migrator' = [migrator EXCEPT ![m] = to]

\* The first statement of a version, or the end.
From(v) == IF v <= Latest THEN [at |-> "run", version |-> v, next |-> 1] ELSE Away

Working(m) == migrator[m].at = "run" /\ migrator[m].next <= Len(Statements[migrator[m].version])
Current(m) == Statements[migrator[m].version][migrator[m].next]
NextStatement(m) ==
  [at |-> "run", version |-> migrator[m].version, next |-> migrator[m].next + 1]

\* db.initialize() at the first start.
Initialize ==
  /\ base' = TRUE
  /\ UNCHANGED <<schema, recorded, migrator>>

\* The version is read once; without the settings table it is 0, and all are pending.
ReadVersion(m) ==
  /\ migrator[m].at = "away"
  /\ Moves(m, From(IF base THEN recorded + 1 ELSE 2))
  /\ UNCHANGED <<base, schema, recorded>>

\* CREATE ... IF NOT EXISTS
Create(m) ==
  /\ base /\ Working(m) /\ ~Current(m).column
  /\ schema' = schema \cup {Current(m)}
  /\ Moves(m, NextStatement(m))
  /\ UNCHANGED <<base, recorded>>

\* _column_exists(): an ALTER of a column that is there is left out.
LookForColumn(m) ==
  /\ base /\ Working(m) /\ Current(m).column
  /\ Moves(m, IF Current(m) \in schema THEN NextStatement(m) ELSE [migrator[m] EXCEPT !.at = "alter"])
  /\ UNCHANGED <<base, schema, recorded>>

\* The ALTER; "duplicate column name", when another migrator was faster, is no error.
AddColumn(m) ==
  /\ migrator[m].at = "alter"
  /\ schema' = schema \cup {Current(m)}
  /\ Moves(m, NextStatement(m))
  /\ UNCHANGED <<base, recorded>>

\* _set_schema_version() and the commit; a slower migrator may set it back.
RecordVersion(m) ==
  /\ migrator[m].at = "run" /\ ~Working(m)
  /\ recorded' = migrator[m].version
  /\ Moves(m, From(migrator[m].version + 1))
  /\ UNCHANGED <<base, schema>>

\* A mistake: a statement that fails is logged and the next one is tried.
StopsSkipping(m) ==
  /\ Working(m) \/ migrator[m].at = "alter"
  /\ Moves(m, NextStatement(m))
  /\ UNCHANGED <<base, schema, recorded>>

\* A statement fails (no table, a locked database, a full disk), or the process ends.
Stops(m) ==
  /\ migrator[m].at # "away"
  /\ Moves(m, Away)
  /\ UNCHANGED <<base, schema, recorded>>

MigrationsNext ==
  \/ Initialize
  \/ \E m \in Migrators :
       \/ ReadVersion(m) \/ Create(m) \/ LookForColumn(m) \/ AddColumn(m)
       \/ RecordVersion(m) \/ Stops(m)

MigrationsSpec == MigrationsInit /\ [][MigrationsNext]_migrationVars

-----------------------------------------------------------------------------
\* "Safe to call on every startup": whatever was interrupted and whoever else migrates,
\* the schema has everything of the recorded version and of those before it, so that
\* no later start skips a column that upsert_video() writes.
RecordedIsComplete ==
  \A v \in 2 .. recorded : \A i \in DOMAIN Statements[v] : Statements[v][i] \in schema

=============================================================================
