------------------------------- MODULE Migrate -------------------------------
(***************************************************************************)
(* cmd/migrate: any number of runners take one database through the        *)
(* migration files, one transaction per file.  Runners may race, die at    *)
(* any statement and be started again; a transaction whose runner is gone  *)
(* stays open until the server notices.                                    *)
(*                                                                         *)
(* A version is its file's place in sort.Strings order.  What a file's SQL *)
(* does is abstracted to the number of times it took effect; it may well   *)
(* succeed a second time, as the IF NOT EXISTS of this repository does.    *)
(* Where its own locks make a second runner of one file wait, it waits     *)
(* before Apply: that takes interleavings away and adds none, and who is   *)
(* waited for goes on as in Record.                                        *)
(***************************************************************************)
EXTENDS Naturals

CONSTANTS
  Runners,     \* processes that run the command, one after the other
  N,           \* the number of migration files
  MaxFaults    \* bound on failing statements, lost answers and crashes

ASSUME MigrateAssumption == N \in Nat \ {0} /\ MaxFaults \in Nat

Versions == 1 .. N

VARIABLES
  table,       \* whether schema_migrations exists
  recorded,    \* the versions whose row is committed in schema_migrations
  applied,     \* ghost: how often each version's SQL was committed
  pc,          \* the statement each runner is about to send
  at,          \* the file each runner is working on
  txn,         \* how far the transaction of each runner is
  faults       \* the number of faults so far

database == <<table, recorded, applied>>
migrateVars == <<table, recorded, applied, pc, at, txn, faults>>

Resting == {"idle", "done", "dead"}
Points  == Resting \cup {"create", "creating", "check", "begin", "apply", "record",
                          "commit"}
Stages  == {"closed", "open", "applied", "recorded"}

MigrateInit ==
  /\ table = FALSE
  /\ recorded = {}
  /\ applied = [v \in Versions |-> 0]
  /\ pc = [r \in Runners |-> "idle"]
  /\ at = [r \in Runners |-> 1]
  /\ txn = [r \in Runners |-> "closed"]
  /\ faults = 0

\* A process is modelled by the same r again once nothing is left of its last.
Start(r) ==
  /\ pc[r] \in Resting
  /\ txn[r] = "closed"
  /\ pc' = [pc EXCEPT ![r] = "create"]
  /\ at' = [at EXCEPT ![r] = 1]
  /\ UNCHANGED <<database, txn, faults>>

Goto(r, point) == pc' = [pc EXCEPT ![r] = point] /\ UNCHANGED at

Stage(r, stage) == txn' = [txn EXCEPT ![r] = stage]

\* CREATE TABLE IF NOT EXISTS looks for the table first,
LookForTable(r) ==
  /\ pc[r] = "create"
  /\ Goto(r, IF table THEN "check" ELSE "creating")
  /\ UNCHANGED <<database, txn, faults>>

\* Fault: the loop stops before the last file.
NextFileShort(r) ==
  IF at[r] + 1 >= N THEN Goto(r, "done")
  ELSE /\ at' = [at EXCEPT ![r] = @ + 1]
       /\ pc' = [pc EXCEPT ![r] = "check"]

NextFile(r) ==
  IF at[r] = N THEN Goto(r, "done")
  ELSE /\ at' = [at EXCEPT ![r] = @ + 1]
       /\ pc' = [pc EXCEPT ![r] = "check"]

Check(r) ==
  /\ pc[r] = "check"
  /\ table
  /\ IF at[r] \in recorded THEN NextFile(r) ELSE Goto(r, "begin")
  /\ UNCHANGED <<database, txn, faults>>

Begin(r) ==
  /\ pc[r] = "begin"
  /\ Goto(r, "apply")
  /\ Stage(r, "open")
  /\ UNCHANGED <<database, faults>>

\* Fault: after an error the loop goes on with the next file.
FatalGoesOn(r) == (txn' = txn \/ Stage(r, "closed")) /\ NextFile(r)

\* log.Fatalf; the Rollback before it may not get through.
Fatal(r) == (txn' = txn \/ Stage(r, "closed")) /\ Goto(r, "dead")

\* and fails at the catalog's unique keys if another runner creates it meanwhile.
CreateTable(r) ==
  /\ pc[r] = "creating"
  /\ IF table THEN Fatal(r)
     ELSE Goto(r, "check") /\ UNCHANGED txn
  /\ table' = TRUE
  /\ UNCHANGED <<recorded, applied, faults>>

\* Another runner's commit since the check may make the SQL fail, or not.
Apply(r) ==
  /\ pc[r] = "apply"
  /\ \/ Goto(r, "record") /\ Stage(r, "applied")
     \/ at[r] \in recorded /\ Fatal(r)
  /\ UNCHANGED <<database, faults>>

\* The unique index makes an insert wait for an open transaction's row.
RowIsOpen(r) == \E q \in Runners \ {r} : txn[q] = "recorded" /\ at[q] = at[r]

\* Fault: ON CONFLICT DO NOTHING.
RecordOnConflictDoNothing(r) ==
  /\ pc[r] = "record"
  /\ ~RowIsOpen(r)
  /\ Goto(r, "commit") /\ Stage(r, "recorded")
  /\ UNCHANGED <<database, faults>>

\* Fault: the row is inserted through the pool and not through tx.
RecordOutsideTx(r) ==
  /\ pc[r] = "record"
  /\ ~RowIsOpen(r)
  /\ IF at[r] \in recorded
     THEN Fatal(r) /\ UNCHANGED recorded
     ELSE Goto(r, "commit") /\ Stage(r, "recorded") /\ recorded' = recorded \cup {at[r]}
  /\ UNCHANGED <<table, applied, faults>>

\* Fault: a conflict is taken for a passing error and the file is tried again.
RecordTriesAgain(r) ==
  /\ pc[r] = "record"
  /\ ~RowIsOpen(r)
  /\ IF at[r] \in recorded THEN Goto(r, "begin") /\ Stage(r, "closed")
                           ELSE Goto(r, "commit") /\ Stage(r, "recorded")
  /\ UNCHANGED <<database, faults>>

\* Fault: the loop goes on without the commit.
RecordUncommitted(r) ==
  /\ pc[r] = "record"
  /\ ~RowIsOpen(r)
  /\ IF at[r] \in recorded THEN Fatal(r)
                           ELSE NextFile(r) /\ Stage(r, "recorded")
  /\ UNCHANGED <<database, faults>>

Record(r) ==
  /\ pc[r] = "record"
  /\ ~RowIsOpen(r)
  /\ IF at[r] \in recorded THEN Fatal(r)
                           ELSE Goto(r, "commit") /\ Stage(r, "recorded")
  /\ UNCHANGED <<database, faults>>

\* The commit may take effect although its answer is lost.
Commit(r) ==
  /\ pc[r] = "commit"
  /\ recorded' = recorded \cup {at[r]}
  /\ applied' = [applied EXCEPT ![at[r]] = @ + 1]
  /\ Stage(r, "closed")
  /\ \/ NextFile(r) /\ UNCHANGED faults
     \/ faults < MaxFaults /\ faults' = faults + 1 /\ Goto(r, "dead")
  /\ UNCHANGED table

\* A statement fails without effect, or the process is killed before it.
Fail(r) ==
  /\ faults < MaxFaults
  /\ pc[r] \notin Resting
  /\ faults' = faults + 1
  /\ Fatal(r)
  /\ UNCHANGED database

\* The server rolls back what a lost connection leaves open.
Abandon(r) ==
  /\ pc[r] = "dead"
  /\ txn[r] # "closed"
  /\ Stage(r, "closed")
  /\ UNCHANGED <<database, pc, at, faults>>

Run(r) ==
  \/ LookForTable(r)
  \/ CreateTable(r)
  \/ Check(r)
  \/ Begin(r)
  \/ Apply(r)
  \/ Record(r)
  \/ Commit(r)

MigrateNext == \E r \in Runners : Start(r) \/ Run(r) \/ Fail(r) \/ Abandon(r)

MigrateSpec == MigrateInit /\ [][MigrateNext]_migrateVars

\* A running process goes on and the server notices lost connections; nothing
\* makes anybody start the command.
FairMigrateSpec ==
  MigrateSpec /\ \A r \in Runners : WF_migrateVars(Run(r)) /\ WF_migrateVars(Abandon(r))

-----------------------------------------------------------------------------
(* Correctness *)

MigrateTypeOK ==
  /\ table \in BOOLEAN
  /\ recorded \subseteq Versions
  /\ applied \in [Versions -> Nat]
  /\ pc \in [Runners -> Points]
  /\ at \in [Runners -> Versions]
  /\ txn \in [Runners -> Stages]
  /\ faults \in 0 .. MaxFaults

\* However runners race, die and are started again, the SQL of a migration is
\* in the database exactly if its row is, and then once: the table tells the
\* truth about the schema.
TableTellsTruth ==
  \A v \in Versions : applied[v] = IF v \in recorded THEN 1 ELSE 0

\* A runner that ends without an error leaves no migration out, even if others
\* were applying them at the time.
DoneMeansAll == (\E r \in Runners : pc[r] = "done") => recorded = Versions

\* Whoever waits for the row of another's transaction waits for one that can be
\* committed or dropped, and that waits for nobody: the lock of the unique index
\* closes no circle.
WaitsCanEnd ==
  \A r \in Runners : pc[r] = "record" /\ RowIsOpen(r) =>
    \A q \in Runners : txn[q] = "recorded" /\ at[q] = at[r] => pc[q] \in {"commit", "dead"}

\* As long as nothing but the race makes runners fail, one that is still running
\* has the next migration before it: they cannot all be knocked out.
RaceLeavesOne ==
  faults = 0 /\ (\E r \in Runners : pc[r] # "idle") =>
    recorded = Versions \/ \E r \in Runners : pc[r] \notin Resting /\ at[r] \notin recorded

\* The schema's history is that of migrations applied one by one in order.
History == INSTANCE SchemaHistory
ImplementsHistory == History!HistorySpec

\* A started runner comes to an end: it waits for another's transaction only
\* until that ends or the server drops it.
RunsEnd == \A r \in Runners : pc[r] \notin Resting ~> pc[r] \in Resting

\* Runners that race knock each other out, but never all before the last
\* migration is in, unless something else fails.
RaceCompletes ==
  (\E r \in Runners : pc[r] # "idle") ~> (recorded = Versions \/ faults > 0)
=============================================================================
