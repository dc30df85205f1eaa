----------------------------- MODULE Migration -----------------------------
(***************************************************************************)
(* The schema at boot: app._init_db runs dbschema.migrate in one `with     *)
(* db_connect(...)` block.  On SQLite the statements that define tables    *)
(* take effect at once until the first INSERT opens the transaction the    *)
(* block commits; on Postgres all of it is one transaction, and a second   *)
(* process may be at the same work, for migrate_to_postgres.py imports the *)
(* application.  A process may crash at any point and start again, with or *)
(* without the recon package.                                              *)
(***************************************************************************)
EXTENDS Naturals, Sequences, FiniteSets

CONSTANTS Process       \* the server and the import tool

Ext == {"monitor", "router"}    \* the owners of the extra tables

(* What a schema is made of: tables, columns of the two tables that older  *)
(* files lack, indexes, the two extra sets of tables, and version rows.    *)
Tables == {"runs", "investigations"}
Columns == {"runs.kind", "runs.investigation_id", "investigations.started_at"}
Baseline == Tables \cup Columns
Indexes == {"idx_runs", "idx_investigations"}
V1 == "version 1"
V2 == "version 2"
Full == {"schema_version"} \cup Baseline \cup Indexes \cup {V1, V2, "router"}

(* Databases found at boot: none, one from before the columns, one from    *)
(* before the indexes, one that booted without recon.                      *)
Found == {{}, Tables, Baseline \cup {"schema_version", V1, "monitor", "router"}, Full}

VARIABLES postgres,     \* which database it is
          db,           \* what is committed
          txn,          \* process -> what its open transaction adds
          inTxn,        \* process -> it has a transaction open
          step,         \* process -> index of its next statement; 0: not running
          have,         \* process -> the version it read
          recon,        \* process -> the recon package was imported
          booted        \* process -> _init_db has returned

migrationVars == <<postgres, db, txn, inTxn, step, have, recon, booted>>

(* The statements of migrate, in order, each with what it makes.           *)
Statement == << "schema_version", "read",
  "runs", "runs.kind", "runs.investigation_id",
  "investigations", "investigations.started_at", V1,
  "idx_runs", "idx_investigations", V2,
  "monitor", "router", "commit" >>
LastStep == Len(Statement)

MigrationInit ==
  /\ postgres \in BOOLEAN
  /\ db \in Found
  /\ txn = [p \in Process |-> {}]
  /\ inTxn = [p \in Process |-> FALSE]
  /\ step = [p \in Process |-> 0]
  /\ have = [p \in Process |-> 0]
  /\ recon = [p \in Process |-> TRUE]
  /\ booted = [p \in Process |-> FALSE]

Sees(p) == db \cup txn[p]

(* What another open transaction has made is waited for. *)
Waits(p, x) == \E q \in Process \ {p} : x \in txn[q]

(* A new connection.  Two processes at once need Postgres, where the       *)
(* import tool runs beside the server.                                     *)
Boot(p) ==
  /\ step[p] = 0 /\ (postgres \/ \A q \in Process : step[q] = 0)
  /\ step' = [step EXCEPT ![p] = 1]
  /\ inTxn' = [inTxn EXCEPT ![p] = postgres]
  /\ have' = [have EXCEPT ![p] = 0]
  /\ \E r \in BOOLEAN : recon' = [recon EXCEPT ![p] = r]
  /\ booted' = [booted EXCEPT ![p] = FALSE]
  /\ UNCHANGED <<postgres, db, txn>>

Version(p) == IF V2 \in Sees(p) THEN 2 ELSE IF V1 \in Sees(p) THEN 1 ELSE 0

\* fault: a table that exists is taken to have all its columns
SkipsColumns(p, x) ==
  \/ have[p] >= 1 /\ x \in Baseline \cup {V1}
  \/ have[p] >= 2 /\ x \in Indexes \cup {V2}
  \/ ~recon[p] /\ x = "monitor"
  \/ x \in Columns /\ Tables \subseteq db

(* migrate passes over what `have` says was done; its extra tables are     *)
(* made on every boot, the monitor's only with recon.                      *)
Skips(p, x) ==
  \/ have[p] >= 1 /\ x \in Baseline \cup {V1}
  \/ have[p] >= 2 /\ x \in Indexes \cup {V2}
  \/ ~recon[p] /\ x = "monitor"

Advance(p) == step' = [step EXCEPT ![p] = @ + 1]

Read(p) ==
  /\ step[p] \in 1..LastStep /\ Statement[step[p]] = "read"
  /\ have' = [have EXCEPT ![p] = Version(p)]
  /\ Advance(p)
  /\ UNCHANGED <<postgres, db, txn, inTxn, recon, booted>>

(* CREATE ... IF NOT EXISTS, _ensure_column and the INSERT of a version    *)
(* (which opens SQLite's transaction).                                     *)
Make(p) ==
  LET x == Statement[step[p]]
      opens == x \in {V1, V2}
  IN  /\ step[p] \in 1..LastStep /\ x \notin {"read", "commit"}
      /\ Skips(p, x) \/ ~Waits(p, x)
      /\ Skips(p, x) \/ x \notin {V1, V2} \/ x \notin Sees(p)
      /\ IF Skips(p, x) \/ x \in Sees(p) THEN UNCHANGED <<db, txn, inTxn>>
         ELSE IF inTxn[p] \/ opens
         THEN /\ txn' = [txn EXCEPT ![p] = @ \cup {x}]
              /\ inTxn' = [inTxn EXCEPT ![p] = TRUE]
              /\ UNCHANGED db
         ELSE db' = db \cup {x} /\ UNCHANGED <<txn, inTxn>>
      /\ Advance(p)
      /\ UNCHANGED <<postgres, have, recon, booted>>

Commit(p) ==
  /\ step[p] = LastStep
  /\ db' = db \cup txn[p]
  /\ txn' = [txn EXCEPT ![p] = {}]
  /\ inTxn' = [inTxn EXCEPT ![p] = FALSE]
  /\ booted' = [booted EXCEPT ![p] = TRUE]
  /\ step' = [step EXCEPT ![p] = LastStep + 1]
  /\ UNCHANGED <<postgres, have, recon>>

(* The process dies or stops, or the statement fails: a version another    *)
(* process inserted meanwhile is a duplicate key, a table it made a        *)
(* duplicate name.  What the transaction added is rolled back.             *)
Die(p) ==
  /\ step[p] > 0
  /\ step' = [step EXCEPT ![p] = 0]
  /\ txn' = [txn EXCEPT ![p] = {}]
  /\ inTxn' = [inTxn EXCEPT ![p] = FALSE]
  /\ booted' = [booted EXCEPT ![p] = FALSE]
  /\ UNCHANGED <<postgres, db, have, recon>>

MigrationNext == \E p \in Process : Boot(p) \/ Read(p) \/ Make(p) \/ Commit(p) \/ Die(p)

MigrationSpec == MigrationInit /\ [][MigrationNext]_migrationVars

----------------------------------------------------------------------------
(* A version is on record only with all the migration made, whatever       *)
(* crash, restart or rival came between its statements; a process that has *)
(* booted finds the tables it uses, also where an earlier boot ran without *)
(* recon.                                                                  *)
SchemaIsWhole ==
  /\ V1 \in db => Baseline \subseteq db
  /\ V2 \in db => Indexes \subseteq db
  /\ \A p \in Process : booted[p] =>
       Full \cup (IF recon[p] THEN {"monitor"} ELSE {}) \subseteq db
=============================================================================
