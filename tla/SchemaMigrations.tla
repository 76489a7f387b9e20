-------------------------- MODULE SchemaMigrations ---------------------------
(***************************************************************************)
(* Opening a database (crates/roxt-store/src/lib.rs, migrations.rs): any   *)
(* number of processes, of builds that carry different numbers of          *)
(* migrations, open the same file at the same time.  Each turns WAL on,    *)
(* makes sure of the bookkeeping table, reads the version outside of any   *)
(* transaction and then applies the migrations that are missing, each in a *)
(* transaction of its own.                                                 *)
(*                                                                         *)
(* Of SQLite: DDL is transactional; BEGIN is deferred, so the first DDL    *)
(* statement takes the one write lock, checks the schema as it then is and *)
(* fails if the table exists; a statement gives up waiting for the lock    *)
(* after the busy timeout; a transaction that is dropped, or whose process *)
(* dies, leaves no trace.                                                  *)
(***************************************************************************)
EXTENDS Naturals

CONSTANTS
  Openers,     \* the processes
  Nobody,      \* no process: nobody holds the lock, no row is there
  Earlier,     \* whoever wrote the rows the database has at the start
  Supported,   \* MIGRATIONS.last().version of each process's build
  MaxVersion   \* the highest version any build knows, or the file has

Versions == 1..MaxVersion

ASSUME OpenersAssumption == Nobody \notin Openers /\ Earlier \notin Openers /\ Nobody # Earlier
ASSUME VersionAssumption == MaxVersion \in Nat
ASSUME SupportedAssumption == Supported \in [Openers -> 0..MaxVersion]

VARIABLES
  objects,      \* the migrations whose tables and indexes the file has
  bookkeeping,  \* does the table schema_migrations exist
  audit,        \* its rows: who applied each version (applied_at_ns)
  lock,         \* who holds the database's write lock
  pc,           \* where each process's open is
  version,      \* the migration a process applies, or looks for next
  error         \* what a failed open returned

vars == <<objects, bookkeeping, audit, lock, pc, version, error>>

NoError == [kind |-> "none", version |-> 0]

(* The database's recorded version: COALESCE(MAX(version), 0).             *)
Recorded == {v \in Versions : audit[v] # Nobody}

CurrentVersion ==
  IF Recorded = {} THEN 0
  ELSE CHOOSE v \in Recorded : \A u \in Recorded : u <= v

Working(o) == pc[o] \in {"open", "wal", "create", "current", "begin", "ddl", "record", "commit"}

Move(o, from, to) == pc[o] \in from /\ pc' = [pc EXCEPT ![o] = to]

(* Variants: the tables of a transaction that is rolled back stay, and the *)
(* migration that failed is taken for applied.                             *)
RollbackKeepsTables(o) ==
  /\ lock' = IF lock = o THEN Nobody ELSE lock
  /\ objects' = IF lock = o THEN objects \cup {version[o]} ELSE objects
  /\ audit' = audit

RollbackMarksApplied(o) ==
  /\ lock' = IF lock = o THEN Nobody ELSE lock
  /\ objects' = objects
  /\ audit' = IF pc[o] = "ddl" THEN [audit EXCEPT ![version[o]] = o] ELSE audit

(* A transaction dropped without a commit leaves nothing, and frees the    *)
(* lock if it had it.                                                      *)
Rollback(o) ==
  /\ lock' = IF lock = o THEN Nobody ELSE lock
  /\ UNCHANGED <<objects, audit>>

(* Variants: the error is logged and not returned, and open starts over.   *)
FailWithLogged(o, kind, v) ==
  /\ Rollback(o)
  /\ error' = error
  /\ pc' = [pc EXCEPT ![o] = "opened"]

FailWithRetry(o, kind, v) ==
  /\ Rollback(o)
  /\ error' = error
  /\ pc' = [pc EXCEPT ![o] = "create"]

(* open returns an error.                                                  *)
FailWith(o, kind, v) ==
  /\ Rollback(o)
  /\ error' = [error EXCEPT ![o] = [kind |-> kind, version |-> v]]
  /\ pc' = [pc EXCEPT ![o] = "failed"]

(***************************************************************************)
(* SqliteStore::open up to the migrations.                                 *)
(***************************************************************************)

(* Connection::open, then journal_mode = WAL; either may fail.             *)
OpenFile(o) ==
  /\ Move(o, {"open"}, "wal")
  /\ UNCHANGED <<objects, bookkeeping, audit, lock, version, error>>

SetWal(o) ==
  /\ Move(o, {"wal"}, "create")
  /\ UNCHANGED <<objects, bookkeeping, audit, lock, version, error>>

OpenFails(o) ==
  /\ pc[o] \in {"open", "wal"}
  /\ FailWith(o, "DatabaseOpen", 0)
  /\ UNCHANGED <<bookkeeping, version>>

(***************************************************************************)
(* apply_pending.                                                          *)
(***************************************************************************)

(* CREATE TABLE IF NOT EXISTS is a transaction of its own, and a write     *)
(* only if the table is missing.                                           *)
CreateBookkeeping(o) ==
  /\ Move(o, {"create"}, "current")
  /\ bookkeeping \/ lock = Nobody
  /\ bookkeeping' = TRUE
  /\ UNCHANGED <<objects, audit, lock, version, error>>

(* The loop over the migrations newer than the version that was read: it   *)
(* ends behind the last one of this build.  Variant: it does not.          *)
AfterVersionNoEnd(o, v) == "begin"
AfterVersion(o, v) == IF v >= Supported[o] THEN "opened" ELSE "begin"

(* The database is newer than this build.  Variant: nobody looks.          *)
FromFutureUnchecked(o) == FALSE
FromFuture(o) == CurrentVersion > Supported[o]

(* current_version, the check against the future, and the filter of the    *)
(* migrations: all later decisions of this open rest on this one read.     *)
ReadVersion(o) ==
  /\ ~FromFuture(o)
  /\ Move(o, {"current"}, AfterVersion(o, CurrentVersion))
  /\ version' = [version EXCEPT ![o] = CurrentVersion + 1]
  /\ UNCHANGED <<objects, bookkeeping, audit, lock, error>>

RefuseFuture(o) ==
  /\ pc[o] = "current"
  /\ FromFuture(o)
  /\ FailWith(o, "VersionFromFuture", CurrentVersion)
  /\ UNCHANGED <<bookkeeping, version>>

(* Either of the two statements above fails: version 0 is reported.        *)
PrepareFails(o) ==
  /\ pc[o] \in {"create", "current"}
  /\ FailWith(o, "SchemaMigration", 0)
  /\ UNCHANGED <<bookkeeping, version>>

(***************************************************************************)
(* apply_one: the transaction of one migration.                            *)
(***************************************************************************)

(* unchecked_transaction: a deferred BEGIN, which locks nothing.           *)
BeginMigration(o) ==
  /\ Move(o, {"begin"}, "ddl")
  /\ UNCHANGED <<objects, bookkeeping, audit, lock, version, error>>

(* execute_batch(migration.sql) takes the lock; what it makes must not be  *)
(* there yet, and nobody else sees it before the commit.                   *)
ExecuteSql(o) ==
  /\ Move(o, {"ddl"}, "record")
  /\ lock = Nobody
  /\ version[o] \notin objects
  /\ lock' = o
  /\ UNCHANGED <<objects, bookkeeping, audit, version, error>>

(* INSERT INTO schema_migrations: the version is the primary key.          *)
RecordVersion(o) ==
  /\ Move(o, {"record"}, "commit")
  /\ version[o] \notin Recorded
  /\ UNCHANGED <<objects, bookkeeping, audit, lock, version, error>>

(* The version recorded.  Variant: that of the newest migration.           *)
RowVersionNewest(o) == Supported[o]
RowVersion(o) == version[o]

(* tx.commit(): the tables and the row appear together; then the next      *)
(* migration of this build, if there is one.                               *)
CommitMigration(o) ==
  /\ Move(o, {"commit"}, AfterVersion(o, version[o]))
  /\ objects' = objects \cup {version[o]}
  /\ audit' = [audit EXCEPT ![RowVersion(o)] = o]
  /\ lock' = Nobody
  /\ version' = [version EXCEPT ![o] = @ + 1]
  /\ UNCHANGED <<bookkeeping, error>>

(* A statement of the transaction fails: an I/O error or the busy timeout  *)
(* at any of them, or a table or row that is there already.                *)
MigrationFails(o) ==
  /\ pc[o] \in {"begin", "ddl", "record", "commit"}
  /\ FailWith(o, "SchemaMigration", version[o])
  /\ UNCHANGED <<bookkeeping, version>>

(* Every statement of open is answered, by success or by an error.         *)
OpenStep(o) ==
  \/ OpenFile(o)
  \/ SetWal(o)
  \/ OpenFails(o)
  \/ CreateBookkeeping(o)
  \/ ReadVersion(o)
  \/ RefuseFuture(o)
  \/ PrepareFails(o)
  \/ BeginMigration(o)
  \/ ExecuteSql(o)
  \/ RecordVersion(o)
  \/ CommitMigration(o)
  \/ MigrationFails(o)

(***************************************************************************)
(* The processes around it.                                                *)
(***************************************************************************)

(* A process dies at any time, with the lock and its open transaction.     *)
Crash(o) ==
  /\ pc[o] # "crashed"
  /\ Rollback(o)
  /\ pc' = [pc EXCEPT ![o] = "crashed"]
  /\ UNCHANGED <<bookkeeping, version, error>>

(* The next command of the same build opens the database.                  *)
OpenAgain(o) ==
  /\ Move(o, {"opened", "failed", "crashed"}, "open")
  /\ error' = [error EXCEPT ![o] = NoError]
  /\ UNCHANGED <<objects, bookkeeping, audit, lock, version>>

(* A database as some earlier build left it, or no database at all.        *)
Init ==
  /\ \E k \in 0..MaxVersion :
       /\ objects = 1..k
       /\ audit = [v \in Versions |-> IF v <= k THEN Earlier ELSE Nobody]
       /\ bookkeeping = (k > 0)
  /\ lock = Nobody
  /\ pc = [o \in Openers |-> "open"]
  /\ version = [o \in Openers |-> 0]
  /\ error = [o \in Openers |-> NoError]

Next == \E o \in Openers : OpenStep(o) \/ Crash(o) \/ OpenAgain(o)

Spec == Init /\ [][Next]_vars

(* SQLite answers every statement, if only with a busy error.              *)
FairSpec == Spec /\ \A o \in Openers : WF_vars(OpenStep(o))

(***************************************************************************)
(* Properties.                                                             *)
(***************************************************************************)

TypeOK ==
  /\ objects \subseteq Versions
  /\ bookkeeping \in BOOLEAN
  /\ audit \in [Versions -> Openers \cup {Nobody, Earlier}]
  /\ lock \in Openers \cup {Nobody}
  /\ pc \in [Openers -> {"open", "wal", "create", "current", "begin", "ddl",
                         "record", "commit", "opened", "failed", "crashed"}]
  /\ version \in [Openers -> 0..(MaxVersion + 1)]
  /\ error \in [Openers ->
       [kind : {"none", "DatabaseOpen", "SchemaMigration", "VersionFromFuture"},
        version : 0..MaxVersion]]

(* The bookkeeping never lies about the file: the versions recorded are    *)
(* exactly the migrations applied and have no gap, at every moment, across *)
(* concurrent openers, failures and crashes.                               *)
SchemaIsRecorded ==
  /\ objects = Recorded
  /\ Recorded = 1..CurrentVersion

(* A database that this build opens has every migration it needs.          *)
OpenedIsMigrated ==
  \A o \in Openers : pc[o] = "opened" => 1..Supported[o] \subseteq objects

(* "a database from a *newer* roxt refuses to open" (store lib.rs:24): no  *)
(* open returns Ok on a database that is newer than the build at its last  *)
(* statement, although the version was read before all its transactions    *)
(* and a newer build may have migrated the file in between.                *)
NoOpenOfTheFuture ==
  [][\A o \in Openers :
       pc[o] # "opened" /\ pc'[o] = "opened" => CurrentVersion' <= Supported[o]]_vars

(* A recorded migration is never applied again nor its audit row rewritten.*)
AuditIsFinal ==
  [][\A v \in Versions : audit[v] # Nobody => audit'[v] = audit[v]]_audit

(* Every open ends, with a result or with the death of its process, also   *)
(* when another process keeps the lock.                                    *)
OpenReturns == \A o \in Openers : Working(o) ~> ~Working(o)

(* The openers together take the database through its versions one by one. *)
History == INSTANCE SchemaHistory WITH version <- CurrentVersion, schema <- objects

ImplementsHistory == History!Spec

(* "Returns SchemaMigration if a step fails (the step's transaction rolls  *)
(* back, leaving the database at the previous version)" (migrations.rs:49).*)
(* An open that lost the race for a migration fails as well, and leaves    *)
(* the database at the version it reports as failed, or beyond.            *)
FailureLeavesPrevious ==
  [][\A o \in Openers :
       pc[o] # "failed" /\ pc'[o] = "failed" /\ error'[o].kind = "SchemaMigration"
         /\ error'[o].version > 0
       => CurrentVersion' = error'[o].version - 1]_vars
=============================================================================
