----------------------------- MODULE Migrations -----------------------------
(***************************************************************************)
(* infrastructure/migrations/run_all.py and the files it runs, by one       *)
(* runner at a time, again after it failed or was killed.  A PostgreSQL     *)
(* file is a sequence of the tables (and the indexes that need an           *)
(* extension) that it creates; a ClickHouse file is cut into statements by  *)
(* the runner, so it is a sequence of lexemes: "--" starts a comment and    *)
(* "nl" ends it, "w" is a word, and the name of an object stands for its    *)
(* CREATE ... IF NOT EXISTS.                                                *)
(*                                                                         *)
(* Operators marked [fault] are wrong versions of the one that follows     *)
(* them, used to check the properties.                                     *)
(***************************************************************************)
EXTENDS Integers, Sequences, FiniteSets, SequencesExt, FiniteSetsExt

CONSTANTS MaxRuns, MaxKills    \* bounds: runs, and runs killed or cut off

ASSUME MigrationsAssumption == {MaxRuns, MaxKills} \subseteq Nat

extensions == <<"vector", "pg_trgm", "uuid-ossp">>
govcon_core == <<"agencies", "agencies_name_trgm", "vendors", "vendors_name_trgm", "contracts",
                 "contracts_title_trgm", "contracts_embedding_ivf">>
govcon_workforce == <<"employees", "lcats", "lcat_requirements", "assignments", "clearances",
                      "certifications">>
govcon_lifecycle == <<"recompete_events", "gap_analyses", "alert_rules", "alert_history">>

database_sql == <<"workforce_analytics", ";">>
interaction_events_sql == <<"interaction_events", ";">>
\* The second line of the comment has a semicolon.
audit_log_sql == <<"--", "w", "nl", "--", "w", ";", "w", "nl", "--", "w", "nl", "audit_log", ";",
                   "--", "w", "nl", "audit_log_daily_mv", ";">>
govcon_audit_log_sql == <<"--", "w", "nl", "--", "w", "nl", "--", "w", "nl", "govcon_audit_log", ";",
                          "govcon_audit_log_daily_mv", ";">>

\* What must be there: referenced tables, types and operator classes.
Requires(object) ==
    CASE object \in {"agencies_name_trgm", "vendors_name_trgm", "contracts_title_trgm"} -> {"pg_trgm"}
      [] object = "contracts"                -> {"agencies", "vendors", "vector"}
      [] object = "contracts_embedding_ivf"  -> {"contracts"}
      [] object \in {"lcats", "recompete_events"} -> {"contracts"}
      [] object = "lcat_requirements"        -> {"lcats"}
      [] object = "assignments"              -> {"employees", "contracts", "lcats"}
      [] object \in {"clearances", "certifications"} -> {"employees"}
      [] object = "gap_analyses"             -> {"contracts", "lcats"}
      [] object = "alert_history"            -> {"alert_rules"}
      [] object \in {"interaction_events", "audit_log", "govcon_audit_log"} -> {"workforce_analytics"}
      [] object = "audit_log_daily_mv"       -> {"audit_log"}
      [] object = "govcon_audit_log_daily_mv" -> {"govcon_audit_log"}
      [] OTHER -> {}

\* sorted by name: 01, 02, ...
_ordered_sql_files(files) == files

PgFiles == _ordered_sql_files(<<extensions, govcon_core, govcon_workforce, govcon_lifecycle>>)
ChFiles == _ordered_sql_files(<<database_sql, interaction_events_sql, audit_log_sql, govcon_audit_log_sql>>)

Objects == (UNION {ToSet(f) : f \in ToSet(PgFiles) \cup ToSet(ChFiles)}) \ {"--", "w", "nl", ";"}

\* sql.split(";") without the pieces that are blank.
_split_statements(f) ==
    LET cut    == SetToSortSeq({0, Len(f) + 1} \cup {i \in DOMAIN f : f[i] = ";"}, <)
        pieces == [k \in 1..Len(cut) - 1 |-> SubSeq(f, cut[k] + 1, cut[k + 1] - 1)]
    IN  SelectSeq(pieces, LAMBDA p : ToSet(p) \ {"nl"} # {})

\* The lexemes of a piece that ClickHouse does not take for a comment.
Code(piece) ==
    {i \in DOMAIN piece : piece[i] # "nl" /\
        \A j \in 1..i : piece[j] = "--" => \E k \in j..i : piece[k] = "nl"}

\* One request is one statement; a comment is an empty query, words are no SQL.
OneStatement(piece) == Cardinality(Code(piece)) = 1 /\ \A i \in Code(piece) : piece[i] \in Objects

VARIABLES
    pg,         \* committed objects of PostgreSQL
    tx,         \* objects of the open transaction
    ch,         \* objects of ClickHouse
    runner,         \* where the runner is: phase, file, statement
    refused,    \* where runs ended because a server refused a statement
    starts, kills

migrationVars == <<pg, tx, ch, runner, refused, starts, kills>>

Position(phase, file, no) == [phase |-> phase, file |-> file, no |-> no]
Idle == Position("none", 0, 0)

MigrationsInit ==
    /\ pg = {} /\ tx = {} /\ ch = {} /\ runner = Idle /\ refused = {} /\ starts = 0 /\ kills = 0

StartRun ==
    /\ runner = Idle /\ starts < MaxRuns
    /\ starts' = starts + 1 /\ runner' = Position("pg", 1, 1)
    /\ UNCHANGED <<pg, tx, ch, refused, kills>>

\* The first statement of the next file, the next server, or the end.
NextFile(phase, file) ==
    IF phase = "pg" THEN IF file < Len(PgFiles) THEN Position("pg", file + 1, 1) ELSE Position("ch", 1, 1)
    ELSE IF file < Len(ChFiles) THEN Position("ch", file + 1, 1) ELSE Idle

\* [fault] the object must not be there.
CreateTable(object, there) == object \notin there /\ Requires(object) \subseteq there

\* CREATE ... IF NOT EXISTS
Create(object, there) == Requires(object) \subseteq there

Refuse == runner' = Idle /\ refused' = refused \cup {runner} /\ tx' = {} /\ UNCHANGED <<pg, ch>>

\* [fault] autocommit: every statement is committed.
AtOnce(no, file) == TRUE

\* conn.commit() follows the last statement of a file.
Commits(no, file) == no = Len(file)

_apply_postgres ==
    /\ runner.phase = "pg"
    /\ LET file == PgFiles[runner.file]
       IN IF ~Create(file[runner.no], pg \cup tx) THEN Refuse
          ELSE /\ IF Commits(runner.no, file)
                  THEN pg' = pg \cup tx \cup {file[runner.no]} /\ tx' = {}
                  ELSE tx' = tx \cup {file[runner.no]} /\ UNCHANGED pg
               /\ runner' = IF runner.no = Len(file) THEN NextFile("pg", runner.file) ELSE [runner EXCEPT !.no = @ + 1]
               /\ UNCHANGED <<ch, refused>>
    /\ UNCHANGED <<starts, kills>>

_apply_clickhouse ==
    /\ runner.phase = "ch"
    /\ LET pieces == _split_statements(ChFiles[runner.file])
           piece  == pieces[runner.no]
           object == piece[CHOOSE i \in Code(piece) : TRUE]
       IN IF ~(OneStatement(piece) /\ Create(object, ch)) THEN Refuse
          ELSE /\ ch' = ch \cup {object}
               /\ runner' = IF runner.no = Len(pieces) THEN NextFile("ch", runner.file) ELSE [runner EXCEPT !.no = @ + 1]
               /\ UNCHANGED <<pg, tx, refused>>
    /\ UNCHANGED <<starts, kills>>

\* The runner is killed, or loses a server: PostgreSQL rolls back.
Kill ==
    /\ runner # Idle /\ kills < MaxKills
    /\ kills' = kills + 1 /\ runner' = Idle /\ tx' = {}
    /\ UNCHANGED <<pg, ch, refused, starts>>

MigrationsNext == StartRun \/ _apply_postgres \/ _apply_clickhouse \/ Kill

MigrationsSpec == MigrationsInit /\ [][MigrationsNext]_migrationVars

-----------------------------------------------------------------------------
(* Properties.                                                             *)

MigrationsTypeOK ==
    /\ pg \cup tx \cup ch \subseteq Objects /\ runner.phase \in {"none", "pg", "ch"}
    /\ starts \in 0..MaxRuns /\ kills \in 0..MaxKills

\* "Each .sql file runs in its own transaction (PG)" (run_all.py:4): whenever
\* the runner stops, PostgreSQL has a prefix of the files, each of them whole, and
\* ClickHouse is only touched behind the last of them.
FilesWhole ==
    LET applied == {i \in DOMAIN PgFiles : ToSet(PgFiles[i]) \subseteq pg}
    IN  /\ pg = UNION {ToSet(PgFiles[i]) : i \in applied}
        /\ ch # {} => applied = DOMAIN PgFiles

\* Idempotent: what an earlier run left never stops a later one.  PostgreSQL
\* refuses nothing, and all runs that a server stops are stopped at one place.
Repeatable ==
    /\ \A place \in refused : place.phase = "ch"
    /\ Cardinality(refused) <= 1

\* "Run every PG + ClickHouse migration from disk in order" (run_all.py:1): when
\* no run is under way and none was killed, everything is applied.  The comment
\* in 03_audit_log.sql is cut into a request, which ClickHouse refuses.
EverythingApplied == runner = Idle /\ starts > 0 /\ kills = 0 => pg \cup ch = Objects

=============================================================================
