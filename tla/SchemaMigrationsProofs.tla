----------------------- MODULE SchemaMigrationsProofs ------------------------
(***************************************************************************)
(* Theorems about SchemaMigrations for any number of processes and builds, *)
(* each with any number of migrations, and any database to start with.     *)
(*                                                                         *)
(* The version a process read may be out of date at every later statement. *)
(* What saves the database is that the first DDL statement takes the lock  *)
(* and fails on tables that exist: behind it, the migration in hand is the *)
(* one the database lacks next.                                            *)
(***************************************************************************)
EXTENDS SchemaMigrations, TLAPS

(* The database is at version k, its tables and its bookkeeping alike.     *)
DbAt(k) == objects = 1..k /\ Recorded = 1..k

DbInv == \E k \in 0..MaxVersion : DbAt(k)

InTransaction(o) == pc[o] \in {"record", "commit"}

(* Behind its first DDL statement a process has the lock, and only then.   *)
LockInv == \A o \in Openers : InTransaction(o) <=> lock = o

(* The migration in hand is one of this build's, and never one that leaves *)
(* a gap; inside the transaction it is the next one of the database.       *)
HandInv ==
  \A o \in Openers :
    /\ pc[o] \in {"begin", "ddl", "record", "commit"} =>
         version[o] \in 1..Supported[o] /\ version[o] - 1 \in {0} \cup objects
    /\ InTransaction(o) => version[o] \notin objects

IInv == TypeOK /\ DbInv /\ LockInv /\ HandInv /\ OpenedIsMigrated

-----------------------------------------------------------------------------
(***************************************************************************)
(* The recorded version of a database.                                     *)
(***************************************************************************)

(* The largest of the first k versions is k.                               *)
LEMMA LastOfRange ==
  ASSUME NEW k \in Nat \ {0}
  PROVE  (CHOOSE v \in 1..k : \A u \in 1..k : u <= v) = k
<1>1. k \in 1..k /\ \A u \in 1..k : u <= k
  OBVIOUS
<1>2. \A v \in 1..k : (\A u \in 1..k : u <= v) => v = k
  BY <1>1
<1> QED
  BY <1>1, <1>2

(* The recorded version of a database at version k is k, before a step and *)
(* after it.                                                               *)
LEMMA VersionOf ==
  ASSUME NEW k \in 0..MaxVersion
  PROVE  /\ DbAt(k) => CurrentVersion = k
         /\ DbAt(k)' => CurrentVersion' = k
<1> USE VersionAssumption
<1>1. CASE k = 0
  BY <1>1 DEF DbAt, CurrentVersion
<1>2. CASE k # 0
  <2>1. 1..k # {} /\ (CHOOSE v \in 1..k : \A u \in 1..k : u <= v) = k
    BY <1>2, LastOfRange
  <2> QED
    BY <2>1 DEF DbAt, CurrentVersion
<1> QED
  BY <1>1, <1>2

(* Only a commit changes what the file has and records.                    *)
LEMMA OnlyCommitWrites ==
  [Next]_vars => UNCHANGED <<objects, audit>> \/ \E o \in Openers : CommitMigration(o)
  BY DEF Next, vars, OpenStep, OpenFile, SetWal, OpenFails, CreateBookkeeping,
         ReadVersion, RefuseFuture, PrepareFails, BeginMigration, ExecuteSql,
         RecordVersion, MigrationFails, Crash, OpenAgain, FailWith, Rollback

(* Without a commit the recorded version stays.                            *)
LEMMA VersionStays ==
  ASSUME UNCHANGED <<objects, audit>>
  PROVE  Recorded' = Recorded /\ CurrentVersion' = CurrentVersion
  BY DEF Recorded, CurrentVersion

(* A commit takes a database from version[o] - 1 to version[o].            *)
LEMMA CommitUpgrades ==
  ASSUME IInv, NEW o \in Openers, CommitMigration(o), NEW k \in 0..MaxVersion, DbAt(k)
  PROVE  version[o] = k + 1 /\ k + 1 \in 0..MaxVersion /\ DbAt(k + 1)'
<1> USE VersionAssumption, SupportedAssumption
<1>1. pc[o] = "commit"
  BY DEF CommitMigration, Move
<1>2. /\ version[o] \in 1..Supported[o]
      /\ version[o] - 1 \in {0} \cup objects
      /\ version[o] \notin objects
  BY <1>1 DEF IInv, HandInv, InTransaction
<1>3. version[o] = k + 1 /\ k + 1 \in 0..MaxVersion
  BY <1>2 DEF DbAt
<1>4. objects' = 1..(k + 1)
  BY <1>3 DEF CommitMigration, DbAt
<1>5. Recorded' = Recorded \cup {k + 1}
  <2>1. audit' = [audit EXCEPT ![k + 1] = o] /\ k + 1 \in Versions /\ o # Nobody
    BY <1>3, OpenersAssumption DEF CommitMigration, RowVersion, Versions
  <2>2. audit \in [Versions -> Openers \cup {Nobody, Earlier}]
    BY DEF IInv, TypeOK
  <2> QED
    BY <2>1, <2>2 DEF Recorded
<1> QED
  BY <1>3, <1>4, <1>5 DEF DbAt
-----------------------------------------------------------------------------
(***************************************************************************)
(* Every step keeps the invariant.                                         *)
(***************************************************************************)

(* A database as an earlier build left it satisfies the invariant.         *)
LEMMA InvInit == Init => IInv
<1> SUFFICES ASSUME Init PROVE IInv
  OBVIOUS
<1> USE VersionAssumption, OpenersAssumption
<1>1. PICK k \in 0..MaxVersion :
        /\ objects = 1..k
        /\ audit = [v \in Versions |-> IF v <= k THEN Earlier ELSE Nobody]
        /\ bookkeeping = (k > 0)
  BY DEF Init
<1>2. objects \subseteq Versions /\ audit \in [Versions -> Openers \cup {Nobody, Earlier}]
  BY <1>1 DEF Versions
<1>3. bookkeeping \in BOOLEAN
  BY <1>1
<1>4. Recorded = 1..k
  BY <1>1 DEF Recorded, Versions
<1>5. TypeOK
  BY <1>2, <1>3 DEF Init, TypeOK, NoError
<1>6. DbInv
  BY <1>1, <1>4 DEF DbInv, DbAt
<1>7. LockInv /\ HandInv /\ OpenedIsMigrated
  BY DEF Init, LockInv, HandInv, InTransaction, OpenedIsMigrated
<1> QED
  BY <1>5, <1>6, <1>7 DEF IInv

(* The file stays at its version, or a commit takes it to the next one.    *)
LEMMA DbStep == IInv /\ [Next]_vars => DbInv'
<1> SUFFICES ASSUME IInv, [Next]_vars PROVE DbInv'
  OBVIOUS
<1>1. PICK k \in 0..MaxVersion : DbAt(k)
  BY DEF IInv, DbInv
<1>2. CASE UNCHANGED <<objects, audit>>
  BY <1>1, <1>2, VersionStays DEF DbInv, DbAt
<1>3. CASE \E o \in Openers : CommitMigration(o)
  <2>1. k + 1 \in 0..MaxVersion /\ DbAt(k + 1)'
    BY <1>1, <1>3, CommitUpgrades
  <2> QED
    BY <2>1 DEF DbInv
<1> QED
  BY <1>2, <1>3, OnlyCommitWrites

(* Every component keeps its type.                                         *)
LEMMA TypeStep == IInv /\ [Next]_vars => TypeOK'
<1> SUFFICES ASSUME IInv, [Next]_vars PROVE TypeOK'
  OBVIOUS
<1> USE VersionAssumption, SupportedAssumption
<1>1. PICK k \in 0..MaxVersion : DbAt(k)
  BY DEF IInv, DbInv
<1>2. CurrentVersion = k
  BY <1>1, VersionOf
<1>3. TypeOK /\ HandInv
  BY DEF IInv
<1>4. CASE UNCHANGED vars
  BY <1>3, <1>4 DEF vars, TypeOK
<1>5. ASSUME NEW o \in Openers, OpenStep(o) PROVE TypeOK'
  <2>1. CASE OpenFile(o) \/ SetWal(o) \/ BeginMigration(o) \/ RecordVersion(o)
    BY <1>3, <2>1 DEF TypeOK, OpenFile, SetWal, BeginMigration, RecordVersion, Move
  <2>2. CASE OpenFails(o)
    BY <1>3, <2>2 DEF TypeOK, OpenFails, FailWith, Rollback
  <2>3. CASE PrepareFails(o)
    BY <1>3, <2>3 DEF TypeOK, PrepareFails, FailWith, Rollback
  <2>4. CASE RefuseFuture(o)
    BY <1>2, <1>3, <2>4 DEF TypeOK, RefuseFuture, FailWith, Rollback
  <2>5. CASE MigrationFails(o)
    <3>1. version[o] \in 0..MaxVersion
      BY <1>3, <2>5 DEF HandInv, MigrationFails
    <3> QED
      BY <1>3, <2>5, <3>1 DEF TypeOK, MigrationFails, FailWith, Rollback
  <2>6. CASE CreateBookkeeping(o)
    BY <1>3, <2>6 DEF TypeOK, CreateBookkeeping, Move
  <2>7. CASE ReadVersion(o)
    BY <1>2, <1>3, <2>7 DEF TypeOK, ReadVersion, AfterVersion, Move
  <2>8. CASE ExecuteSql(o)
    BY <1>3, <2>8 DEF TypeOK, ExecuteSql, Move
  <2>9. CASE CommitMigration(o)
    <3>1. version[o] = k + 1 /\ k + 1 \in 0..MaxVersion
      BY <1>1, <2>9, CommitUpgrades
    <3> QED
      BY <1>3, <2>9, <3>1
      DEF TypeOK, CommitMigration, RowVersion, AfterVersion, Move, Versions
  <2> QED
    BY <1>5, <2>1, <2>2, <2>3, <2>4, <2>5, <2>6, <2>7, <2>8, <2>9 DEF OpenStep
<1>6. ASSUME NEW o \in Openers, Crash(o) \/ OpenAgain(o) PROVE TypeOK'
  <2>1. CASE Crash(o)
    BY <1>3, <2>1 DEF TypeOK, Crash, Rollback
  <2>2. CASE OpenAgain(o)
    BY <1>3, <2>2 DEF TypeOK, OpenAgain, Move, NoError
  <2> QED
    BY <1>6, <2>1, <2>2
<1> QED
  BY <1>4, <1>5, <1>6 DEF Next

(* The lock belongs to the process that is inside its transaction.         *)
LEMMA LockStep == IInv /\ [Next]_vars => LockInv'
<1> SUFFICES ASSUME IInv, [Next]_vars PROVE LockInv'
  OBVIOUS
<1> USE OpenersAssumption DEF LockInv, InTransaction
<1>1. LockInv /\ pc \in [Openers -> {"open", "wal", "create", "current", "begin", "ddl",
                                     "record", "commit", "opened", "failed", "crashed"}]
  BY DEF IInv, TypeOK
<1>2. CASE UNCHANGED vars
  BY <1>1, <1>2 DEF vars
<1>3. ASSUME NEW o \in Openers, OpenStep(o) PROVE LockInv'
  <2>1. CASE OpenFile(o) \/ SetWal(o) \/ BeginMigration(o) \/ CreateBookkeeping(o)
    BY <1>1, <2>1 DEF OpenFile, SetWal, BeginMigration, CreateBookkeeping, Move
  <2>2. CASE RecordVersion(o)
    BY <1>1, <2>2 DEF RecordVersion, Move
  <2>3. CASE OpenFails(o) \/ PrepareFails(o) \/ RefuseFuture(o) \/ MigrationFails(o)
    BY <1>1, <2>3
    DEF OpenFails, PrepareFails, RefuseFuture, MigrationFails, FailWith, Rollback
  <2>4. CASE ReadVersion(o)
    BY <1>1, <2>4 DEF ReadVersion, AfterVersion, Move
  <2>5. CASE ExecuteSql(o)
    BY <1>1, <2>5 DEF ExecuteSql, Move
  <2>6. CASE CommitMigration(o)
    BY <1>1, <2>6 DEF CommitMigration, AfterVersion, Move
  <2> QED
    BY <1>3, <2>1, <2>2, <2>3, <2>4, <2>5, <2>6 DEF OpenStep
<1>4. ASSUME NEW o \in Openers, Crash(o) \/ OpenAgain(o) PROVE LockInv'
  BY <1>1, <1>4 DEF Crash, OpenAgain, Rollback, Move
<1> QED
  BY <1>2, <1>3, <1>4 DEF Next

(* What a process has in hand stays its next migration: nobody commits     *)
(* while another is inside its transaction.                                *)
LEMMA HandStep == IInv /\ [Next]_vars => HandInv'
<1> SUFFICES ASSUME IInv, [Next]_vars PROVE HandInv'
  OBVIOUS
<1> USE VersionAssumption, SupportedAssumption DEF HandInv, InTransaction
<1>1. PICK k \in 0..MaxVersion : DbAt(k)
  BY DEF IInv, DbInv
<1>2. CurrentVersion = k
  BY <1>1, VersionOf
<1>3. HandInv /\ LockInv /\ version \in [Openers -> 0..(MaxVersion + 1)]
        /\ pc \in [Openers -> {"open", "wal", "create", "current", "begin", "ddl",
                               "record", "commit", "opened", "failed", "crashed"}]
  BY DEF IInv, TypeOK
<1>4. CASE UNCHANGED vars
  BY <1>3, <1>4 DEF vars
<1>5. ASSUME NEW o \in Openers, OpenStep(o) PROVE HandInv'
  <2>1. CASE OpenFile(o) \/ SetWal(o) \/ BeginMigration(o) \/ CreateBookkeeping(o)
               \/ RecordVersion(o)
    BY <1>3, <2>1
    DEF OpenFile, SetWal, BeginMigration, CreateBookkeeping, RecordVersion, Move
  <2>2. CASE OpenFails(o) \/ PrepareFails(o) \/ RefuseFuture(o) \/ MigrationFails(o)
    BY <1>3, <2>2
    DEF OpenFails, PrepareFails, RefuseFuture, MigrationFails, FailWith, Rollback
  <2>3. CASE ReadVersion(o)
    BY <1>1, <1>2, <1>3, <2>3 DEF ReadVersion, AfterVersion, Move, DbAt
  <2>4. CASE ExecuteSql(o)
    BY <1>3, <2>4 DEF ExecuteSql, Move
  <2>5. CASE CommitMigration(o)
    <3>1. version[o] = k + 1 /\ objects' = 1..(k + 1) /\ objects = 1..k
      BY <1>1, <2>5, CommitUpgrades DEF DbAt
    <3>2. pc[o] = "commit" /\ lock = o
      BY <1>3, <2>5 DEF CommitMigration, Move, LockInv
    <3>3. ASSUME NEW p \in Openers, p # o
          PROVE pc'[p] = pc[p] /\ version'[p] = version[p] /\ ~InTransaction(p)
      BY <1>3, <2>5, <3>2, <3>3 DEF CommitMigration, Move, LockInv
    <3>4. version'[o] = k + 2 /\ pc'[o] = AfterVersion(o, k + 1)
      BY <1>3, <2>5, <3>1 DEF CommitMigration, Move
    <3>5. ASSUME NEW p \in Openers
          PROVE /\ pc'[p] \in {"begin", "ddl", "record", "commit"} =>
                     version'[p] \in 1..Supported[p] /\ version'[p] - 1 \in {0} \cup objects'
                /\ pc'[p] \in {"record", "commit"} => version'[p] \notin objects'
      <4>1. CASE p = o
        BY <3>1, <3>4, <4>1 DEF AfterVersion
      <4>2. CASE p # o
        BY <1>3, <3>1, <3>3, <4>2
      <4> QED
        BY <4>1, <4>2
    <3> QED
      BY <3>5
  <2> QED
    BY <1>5, <2>1, <2>2, <2>3, <2>4, <2>5 DEF OpenStep
<1>6. ASSUME NEW o \in Openers, Crash(o) \/ OpenAgain(o) PROVE HandInv'
  BY <1>3, <1>6 DEF Crash, OpenAgain, Rollback, Move
<1> QED
  BY <1>4, <1>5, <1>6 DEF Next

(* A process opens a database only behind the last migration of its build. *)
LEMMA OpenedStep == IInv /\ [Next]_vars => OpenedIsMigrated'
<1> SUFFICES ASSUME IInv, [Next]_vars PROVE OpenedIsMigrated'
  OBVIOUS
<1> USE VersionAssumption, SupportedAssumption DEF OpenedIsMigrated
<1>1. PICK k \in 0..MaxVersion : DbAt(k)
  BY DEF IInv, DbInv
<1>2. CurrentVersion = k
  BY <1>1, VersionOf
<1>3. OpenedIsMigrated /\ pc \in [Openers -> {"open", "wal", "create", "current", "begin",
                          "ddl", "record", "commit", "opened", "failed", "crashed"}]
  BY DEF IInv, TypeOK
<1>4. CASE UNCHANGED vars
  BY <1>3, <1>4 DEF vars
<1>5. ASSUME NEW o \in Openers, OpenStep(o) PROVE OpenedIsMigrated'
  <2>1. CASE OpenFile(o) \/ SetWal(o) \/ BeginMigration(o) \/ CreateBookkeeping(o)
               \/ RecordVersion(o) \/ ExecuteSql(o)
    BY <1>3, <2>1
    DEF OpenFile, SetWal, BeginMigration, CreateBookkeeping, RecordVersion, ExecuteSql, Move
  <2>2. CASE OpenFails(o) \/ PrepareFails(o) \/ RefuseFuture(o) \/ MigrationFails(o)
    BY <1>3, <2>2
    DEF OpenFails, PrepareFails, RefuseFuture, MigrationFails, FailWith, Rollback
  <2>3. CASE ReadVersion(o)
    <3>1. objects' = 1..k /\ objects = 1..k
      BY <1>1, <2>3 DEF ReadVersion, DbAt
    <3>2. ASSUME NEW p \in Openers, pc'[p] = "opened" PROVE 1..Supported[p] \subseteq 1..k
      <4>1. CASE p = o
        BY <1>2, <1>3, <2>3, <3>2, <4>1 DEF ReadVersion, AfterVersion, Move
      <4>2. CASE p # o
        BY <1>3, <2>3, <3>1, <3>2, <4>2 DEF ReadVersion, Move
      <4> QED
        BY <4>1, <4>2
    <3> QED
      BY <3>1, <3>2
  <2>4. CASE CommitMigration(o)
    <3>1. version[o] = k + 1 /\ objects' = 1..(k + 1) /\ objects = 1..k
      BY <1>1, <2>4, CommitUpgrades DEF DbAt
    <3>2. ASSUME NEW p \in Openers, pc'[p] = "opened" PROVE 1..Supported[p] \subseteq 1..(k + 1)
      <4>1. CASE p = o
        BY <1>3, <2>4, <3>1, <3>2, <4>1 DEF CommitMigration, AfterVersion, Move
      <4>2. CASE p # o
        BY <1>3, <2>4, <3>1, <3>2, <4>2 DEF CommitMigration, Move
      <4> QED
        BY <4>1, <4>2
    <3> QED
      BY <3>1, <3>2
  <2> QED
    BY <1>5, <2>1, <2>2, <2>3, <2>4 DEF OpenStep
<1>6. ASSUME NEW o \in Openers, Crash(o) \/ OpenAgain(o) PROVE OpenedIsMigrated'
  BY <1>3, <1>6 DEF Crash, OpenAgain, Rollback, Move
<1> QED
  BY <1>4, <1>5, <1>6 DEF Next

(* The invariant holds at every moment.                                    *)
LEMMA Invariance == Spec => []IInv
<1>1. IInv /\ [Next]_vars => IInv'
  BY TypeStep, DbStep, LockStep, HandStep, OpenedStep DEF IInv
<1> QED
  BY InvInit, <1>1, PTL DEF Spec
-----------------------------------------------------------------------------
(***************************************************************************)
(* The theorems.                                                           *)
(***************************************************************************)

(* Every component stays in its type.                                      *)
THEOREM TypeCorrect == Spec => []TypeOK
<1>1. IInv => TypeOK
  BY DEF IInv
<1> QED
  BY <1>1, Invariance, PTL

(* The bookkeeping never lies about the file and has no gap, however many  *)
(* processes open it at the same time, fail and die.                       *)
THEOREM SchemaRecorded == Spec => []SchemaIsRecorded
<1>1. IInv => SchemaIsRecorded
  <2> SUFFICES ASSUME IInv PROVE SchemaIsRecorded
    OBVIOUS
  <2>1. PICK k \in 0..MaxVersion : DbAt(k)
    BY DEF IInv, DbInv
  <2> QED
    BY <2>1, VersionOf DEF SchemaIsRecorded, DbAt
<1> QED
  BY <1>1, Invariance, PTL

(* A database that a build opens has every migration the build needs.      *)
THEOREM OpenedMigrated == Spec => []OpenedIsMigrated
<1>1. IInv => OpenedIsMigrated
  BY DEF IInv
<1> QED
  BY <1>1, Invariance, PTL

(* No open returns Ok on a database that is newer than its build, although *)
(* the version was read before any lock was taken.                         *)
THEOREM FutureRefused == Spec => NoOpenOfTheFuture
<1> DEFINE Safe == \A o \in Openers :
       pc[o] # "opened" /\ pc'[o] = "opened" => CurrentVersion' <= Supported[o]
<1>1. IInv /\ [Next]_vars => [Safe]_vars
  <2> SUFFICES ASSUME IInv, [Next]_vars, NEW p \in Openers,
                      pc[p] # "opened", pc'[p] = "opened"
               PROVE  CurrentVersion' <= Supported[p]
    OBVIOUS
  <2> USE VersionAssumption, SupportedAssumption
  <2>1. PICK k \in 0..MaxVersion : DbAt(k)
    BY DEF IInv, DbInv
  <2>2. CurrentVersion = k
    BY <2>1, VersionOf
  <2>3. pc \in [Openers -> {"open", "wal", "create", "current", "begin",
                          "ddl", "record", "commit", "opened", "failed", "crashed"}]
    BY DEF IInv, TypeOK
  <2>4. ReadVersion(p) \/ CommitMigration(p)
    BY <2>3 DEF Next, vars, OpenStep, OpenFile, SetWal, OpenFails, CreateBookkeeping,
         ReadVersion, RefuseFuture, PrepareFails, BeginMigration, ExecuteSql,
         RecordVersion, CommitMigration, MigrationFails, Crash, OpenAgain, FailWith, Move
  <2>5. CASE ReadVersion(p)
    <3>1. CurrentVersion' = CurrentVersion
      BY <2>5, VersionStays DEF ReadVersion
    <3> QED
      BY <2>2, <2>5, <3>1 DEF ReadVersion, FromFuture
  <2>6. CASE CommitMigration(p)
    <3>1. version[p] = k + 1 /\ k + 1 \in 0..MaxVersion /\ DbAt(k + 1)'
      BY <2>1, <2>6, CommitUpgrades
    <3>2. CurrentVersion' = k + 1
      BY <3>1, VersionOf
    <3>3. version[p] \in 1..Supported[p]
      BY <2>6 DEF IInv, HandInv, CommitMigration, Move
    <3> QED
      BY <3>1, <3>2, <3>3
  <2> QED
    BY <2>4, <2>5, <2>6
<1> QED
  BY <1>1, Invariance, PTL DEF Spec, NoOpenOfTheFuture

(* A recorded migration is never applied again nor its row rewritten.      *)
THEOREM AuditFinal == Spec => AuditIsFinal
<1> DEFINE Kept == \A v \in Versions : audit[v] # Nobody => audit'[v] = audit[v]
<1>1. IInv /\ [Next]_vars => [Kept]_audit
  <2> SUFFICES ASSUME IInv, [Next]_vars PROVE Kept
    OBVIOUS
  <2>1. CASE UNCHANGED <<objects, audit>>
    BY <2>1
  <2>2. CASE \E o \in Openers : CommitMigration(o)
    <3>1. PICK o \in Openers : CommitMigration(o)
      BY <2>2
    <3>2. version[o] \notin objects /\ audit' = [audit EXCEPT ![version[o]] = o]
      BY <3>1 DEF IInv, HandInv, InTransaction, CommitMigration, Move, RowVersion
    <3>3. objects = Recorded /\ audit \in [Versions -> Openers \cup {Nobody, Earlier}]
      BY DEF IInv, DbInv, DbAt, TypeOK
    <3> QED
      BY <3>2, <3>3 DEF Recorded
  <2> QED
    BY <2>1, <2>2, OnlyCommitWrites
<1> QED
  BY <1>1, Invariance, PTL DEF Spec, AuditIsFinal

(* The openers together take the database through its versions one by one: *)
(* SchemaMigrations implements SchemaHistory.                              *)
THEOREM OpenersImplementHistory == Spec => ImplementsHistory
<1> USE VersionAssumption
<1>1. Init => History!Init
  <2> SUFFICES ASSUME Init PROVE History!Init
    OBVIOUS
  <2>1. PICK k \in 0..MaxVersion : DbAt(k)
    BY InvInit DEF IInv, DbInv
  <2> QED
    BY <2>1, VersionOf DEF History!Init, DbAt
<1>2. IInv /\ [Next]_vars => [History!Upgrade]_<<CurrentVersion, objects>>
  <2> SUFFICES ASSUME IInv, [Next]_vars
               PROVE  [History!Upgrade]_<<CurrentVersion, objects>>
    OBVIOUS
  <2>1. CASE UNCHANGED <<objects, audit>>
    BY <2>1, VersionStays
  <2>2. CASE \E o \in Openers : CommitMigration(o)
    <3>1. PICK o \in Openers : CommitMigration(o)
      BY <2>2
    <3>2. PICK k \in 0..MaxVersion : DbAt(k)
      BY DEF IInv, DbInv
    <3>3. k + 1 \in 0..MaxVersion /\ DbAt(k + 1)'
      BY <3>1, <3>2, CommitUpgrades
    <3>4. CurrentVersion = k /\ CurrentVersion' = k + 1
      BY <3>2, <3>3, VersionOf
    <3> QED
      BY <3>2, <3>3, <3>4 DEF DbAt, History!Upgrade
  <2> QED
    BY <2>1, <2>2, OnlyCommitWrites
<1> QED
  BY <1>1, <1>2, Invariance, PTL DEF Spec, ImplementsHistory, History!Spec, History!vars
=============================================================================
