---------------------------- MODULE MigrateProofs ----------------------------
(***************************************************************************)
(* For any runners, files and faults: schema_migrations tells the truth    *)
(* about the schema, and Migrate implements SchemaHistory.                 *)
(***************************************************************************)
EXTENDS Migrate, TLAPS

LEMMA Bounds == N \in Nat /\ 1 <= N /\ MaxFaults \in Nat
BY MigrateAssumption

USE Bounds

\* A runner past its check of a file found every earlier file recorded.
InLoop(r) == pc[r] \in {"check", "begin", "apply", "record", "commit"}

\* How far the statements sent so far have taken the runner and its transaction.
Fits(r) ==
  /\ pc[r] \in {"idle", "done", "create", "creating", "check", "begin"} =>
       txn[r] = "closed"
  /\ pc[r] = "commit" => txn[r] = "recorded"
  /\ txn[r] = "recorded" => pc[r] \in {"commit", "dead"}
  /\ pc[r] \in {"create", "creating"} => at[r] = 1

\* A row that waits for its commit is in no table and in no other transaction.
RowIsNew(r) ==
  txn[r] = "recorded" => /\ at[r] \notin recorded
                         /\ ~RowIsOpen(r)

Ordered == \A v \in recorded : \A u \in Versions : u < v => u \in recorded

EarlierRecorded ==
  \A r \in Runners : InLoop(r) => \A u \in Versions : u < at[r] => u \in recorded

MigrateInv ==
  /\ MigrateTypeOK
  /\ TableTellsTruth
  /\ DoneMeansAll
  /\ Ordered
  /\ EarlierRecorded
  /\ \A r \in Runners : Fits(r) /\ RowIsNew(r)

-----------------------------------------------------------------------------

LEMMA MigrateInitInv == MigrateInit => MigrateInv
<1> SUFFICES ASSUME MigrateInit PROVE MigrateInv
  OBVIOUS
<1>1. MigrateTypeOK
  <2>1. 1 \in Versions /\ 0 \in 0 .. MaxFaults
    BY DEF Versions
  <2>2. applied \in [Versions -> Nat]
    BY DEF MigrateInit
  <2>3. at \in [Runners -> Versions]
    BY <2>1 DEF MigrateInit
  <2>4. pc \in [Runners -> Points] /\ txn \in [Runners -> Stages]
    BY DEF MigrateInit, Points, Resting, Stages
  <2> QED
    BY <2>1, <2>2, <2>3, <2>4 DEF MigrateInit, MigrateTypeOK
<1>2. TableTellsTruth /\ Ordered
  BY DEF MigrateInit, TableTellsTruth, Ordered
<1>3. DoneMeansAll /\ EarlierRecorded
  BY DEF MigrateInit, DoneMeansAll, EarlierRecorded, InLoop
<1>4. \A r \in Runners : Fits(r) /\ RowIsNew(r)
  BY DEF MigrateInit, Fits, RowIsNew
<1> QED
  BY <1>1, <1>2, <1>3, <1>4 DEF MigrateInv

\* A step that one runner takes concerns no other.
Alone(r) ==
  \A q \in Runners \ {r} : pc'[q] = pc[q] /\ at'[q] = at[q] /\ txn'[q] = txn[q]

\* What a step of r that commits nothing has to respect.
LEMMA LocalStep ==
  ASSUME MigrateInv, MigrateTypeOK', NEW r \in Runners, Alone(r),
         UNCHANGED <<recorded, applied>>,
         pc'[r] = "done" => recorded = Versions,
         InLoop(r)' => \A u \in Versions : u < at'[r] => u \in recorded,
         Fits(r)', RowIsNew(r)'
  PROVE  MigrateInv'
<1>1. TableTellsTruth' /\ Ordered'
  BY DEF MigrateInv, TableTellsTruth, Ordered
<1>2. DoneMeansAll'
  BY DEF MigrateInv, DoneMeansAll, Alone
<1>3. EarlierRecorded'
  BY DEF MigrateInv, EarlierRecorded, InLoop, Alone
<1>4. ASSUME NEW q \in Runners PROVE Fits(q)' /\ RowIsNew(q)'
  <2>1. CASE q = r
    BY <2>1
  <2>2. CASE q # r
    <3>1. Fits(q)'
      BY <2>2 DEF MigrateInv, Fits, Alone
    <3>2. ASSUME txn'[q] = "recorded" PROVE at'[q] \notin recorded' /\ ~RowIsOpen(q)'
      BY <2>2, <3>2 DEF MigrateInv, RowIsNew, RowIsOpen, Alone
    <3> QED
      BY <3>1, <3>2 DEF RowIsNew
  <2> QED
    BY <2>1, <2>2
<1> QED
  BY <1>1, <1>2, <1>3, <1>4 DEF MigrateInv

\* A runner that ends or goes on after a file that is recorded.
LEMMA NextFileKeeps ==
  ASSUME MigrateTypeOK, NEW r \in Runners, NextFile(r)
  PROVE  /\ at' \in [Runners -> Versions] /\ pc' \in [Runners -> Points]
         /\ \A q \in Runners \ {r} : at'[q] = at[q] /\ pc'[q] = pc[q]
         /\ \/ at[r] = N /\ at'[r] = at[r] /\ pc'[r] = "done"
            \/ at[r] < N /\ at'[r] = at[r] + 1 /\ pc'[r] = "check"
<1>1. at[r] \in Nat /\ 1 <= at[r] /\ at[r] <= N
  BY DEF MigrateTypeOK, Versions
<1>2. CASE at[r] = N
  BY <1>2 DEF MigrateTypeOK, NextFile, Goto, Points, Resting
<1>3. CASE at[r] # N
  <2>1. at[r] < N /\ at[r] + 1 \in Versions
    BY <1>1, <1>3 DEF Versions
  <2> QED
    BY <2>1, <1>3 DEF MigrateTypeOK, NextFile, Goto, Points, Resting
<1> QED
  BY <1>2, <1>3

\* An order-closed set of versions that holds all below v and v itself.
LEMMA CoveredUpTo ==
  ASSUME NEW S \in SUBSET Versions, NEW v \in Versions, v \in S,
         \A u \in Versions : u < v => u \in S
  PROVE  /\ v = N => S = Versions
         /\ \A u \in Versions : u < v + 1 => u \in S
<1>1. \A u \in Versions : u < v + 1 => u < v \/ u = v
  BY DEF Versions
<1>2. v = N => \A u \in Versions : u < v + 1
  BY DEF Versions
<1> QED
  BY <1>1, <1>2

LEMMA FatalKeeps ==
  ASSUME MigrateInv, NEW r \in Runners, pc[r] \notin Resting, Fatal(r),
         faults' \in 0 .. MaxFaults, UNCHANGED database
  PROVE  MigrateInv'
<1>1. MigrateTypeOK'
  BY DEF MigrateInv, MigrateTypeOK, Fatal, Stage, Goto, Points, Resting, Stages, database
<1>2. Alone(r) /\ pc'[r] = "dead" /\ at'[r] = at[r] /\ txn'[r] \in {"closed", txn[r]}
  BY DEF Alone, MigrateInv, MigrateTypeOK, Fatal, Stage, Goto
<1>3. RowIsNew(r)'
  BY <1>2 DEF MigrateInv, RowIsNew, RowIsOpen, Alone, database
<1> QED
  BY <1>1, <1>2, <1>3, LocalStep DEF InLoop, Fits, database

LEMMA CommitKeeps ==
  ASSUME MigrateInv, NEW r \in Runners, Commit(r)
  PROVE  MigrateInv'
<1> DEFINE v == at[r]
<1>1. v \in Versions /\ txn[r] = "recorded" /\ v \notin recorded /\ applied[v] = 0
  BY DEF MigrateInv, MigrateTypeOK, Commit, Fits, RowIsNew, TableTellsTruth
<1>2. \A u \in Versions : u < v => u \in recorded
  BY DEF MigrateInv, Commit, EarlierRecorded, InLoop
<1>3. /\ recorded' = recorded \cup {v} /\ recorded' \subseteq Versions
      /\ applied' = [applied EXCEPT ![v] = 1] /\ applied' \in [Versions -> Nat]
  BY <1>1 DEF Commit, MigrateInv, MigrateTypeOK
<1>4. /\ at' \in [Runners -> Versions] /\ pc' \in [Runners -> Points]
      /\ \A q \in Runners \ {r} : at'[q] = at[q] /\ pc'[q] = pc[q]
      /\ \/ at[r] = N /\ at'[r] = at[r] /\ pc'[r] = "done"
         \/ at[r] < N /\ at'[r] = at[r] + 1 /\ pc'[r] = "check"
         \/ at'[r] = at[r] /\ pc'[r] = "dead"
  <2>1. CASE NextFile(r)
    BY <2>1, NextFileKeeps DEF MigrateInv
  <2>2. CASE Goto(r, "dead")
    BY <2>2 DEF Goto, MigrateInv, MigrateTypeOK, Points, Resting
  <2> QED
    BY <2>1, <2>2 DEF Commit
<1>5. /\ txn' = [txn EXCEPT ![r] = "closed"] /\ txn'[r] = "closed"
      /\ \A q \in Runners \ {r} : txn'[q] = txn[q]
  BY DEF Commit, Stage, MigrateInv, MigrateTypeOK
<1>6. MigrateTypeOK'
  <2>1. txn' \in [Runners -> Stages] /\ table' \in BOOLEAN /\ faults' \in 0 .. MaxFaults
    BY <1>5 DEF Commit, MigrateInv, MigrateTypeOK, Stages
  <2> QED
    BY <2>1, <1>3, <1>4 DEF MigrateTypeOK
<1>7. TableTellsTruth' /\ Ordered'
  BY <1>1, <1>2, <1>3 DEF MigrateInv, MigrateTypeOK, TableTellsTruth, Ordered
<1>8. /\ v = N => recorded' = Versions
      /\ \A u \in Versions : u < v + 1 => u \in recorded'
  BY <1>1, <1>2, <1>3, CoveredUpTo
<1>9. DoneMeansAll'
  BY <1>1, <1>3, <1>4, <1>8 DEF DoneMeansAll, MigrateInv
<1>10. EarlierRecorded'
  <2>1. ASSUME NEW q \in Runners, InLoop(q)', NEW u \in Versions, u < at'[q]
        PROVE  u \in recorded'
    <3>1. CASE q = r
      BY <3>1, <2>1, <1>4, <1>8 DEF InLoop
    <3>2. CASE q # r
      BY <3>2, <2>1, <1>3, <1>4 DEF InLoop, MigrateInv, EarlierRecorded
    <3> QED
      BY <3>1, <3>2
  <2> QED
    BY <2>1 DEF EarlierRecorded
<1>11. ASSUME NEW q \in Runners PROVE Fits(q)' /\ RowIsNew(q)'
  <2>1. CASE q = r
    BY <2>1, <1>4, <1>5 DEF Fits, RowIsNew
  <2>2. CASE q # r
    <3>1. Fits(q)'
      BY <2>2, <1>4, <1>5 DEF MigrateInv, Fits
    <3>2. ASSUME txn[q] = "recorded" PROVE at[q] # v
      BY <3>2, <2>2, <1>1 DEF MigrateInv, RowIsNew, RowIsOpen
    <3>3. RowIsNew(q)'
      BY <3>2, <2>2, <1>3, <1>4, <1>5 DEF MigrateInv, RowIsNew, RowIsOpen
    <3> QED
      BY <3>1, <3>3
  <2> QED
    BY <2>1, <2>2
<1> QED
  BY <1>6, <1>7, <1>9, <1>10, <1>11 DEF MigrateInv

-----------------------------------------------------------------------------

LEMMA MigrateStepInv ==
  ASSUME MigrateInv, [MigrateNext]_migrateVars
  PROVE  MigrateInv'
<1> USE DEF Points, Resting, Stages
<1>1. ASSUME NEW r \in Runners, Start(r)
      PROVE  MigrateInv'
  <2>1. /\ MigrateTypeOK' /\ Alone(r)
        /\ pc'[r] = "create" /\ txn'[r] = "closed" /\ at'[r] = 1
    BY <1>1 DEF Start, MigrateInv, MigrateTypeOK, Alone, Versions, database
  <2> QED
    BY <1>1, <2>1, LocalStep DEF Start, database, InLoop, Fits, RowIsNew
<1>2. ASSUME NEW r \in Runners, CreateTable(r)
      PROVE  MigrateInv'
  <2>1. CASE table
    <3>1. UNCHANGED table
      BY <1>2, <2>1 DEF CreateTable, MigrateInv, MigrateTypeOK
    <3> QED
      BY <1>2, <2>1, <3>1, FatalKeeps DEF CreateTable, MigrateInv, MigrateTypeOK, database
  <2>2. CASE ~table
    <3>1. /\ MigrateTypeOK' /\ Alone(r)
          /\ pc'[r] = "check" /\ txn'[r] = "closed" /\ at'[r] = 1
      BY <1>2, <2>2 DEF CreateTable, Goto, MigrateInv, MigrateTypeOK, Alone, Fits
    <3>2. \A u \in Versions : ~(u < at'[r])
      BY <3>1 DEF Versions
    <3> QED
      BY <1>2, <3>1, <3>2, LocalStep DEF CreateTable, Fits, RowIsNew
  <2> QED
    BY <2>1, <2>2
<1>10. ASSUME NEW r \in Runners, LookForTable(r)
       PROVE  MigrateInv'
  <2>1. /\ MigrateTypeOK' /\ Alone(r) /\ txn'[r] = "closed" /\ at'[r] = 1
        /\ pc'[r] \in {"check", "creating"}
    BY <1>10 DEF LookForTable, Goto, MigrateInv, MigrateTypeOK, Alone, Fits, database
  <2>2. \A u \in Versions : ~(u < at'[r])
    BY <2>1 DEF Versions
  <2> QED
    BY <1>10, <2>1, <2>2, LocalStep DEF LookForTable, Fits, RowIsNew, database
<1>3. ASSUME NEW r \in Runners, Check(r)
      PROVE  MigrateInv'
  <2>1. \A u \in Versions : u < at[r] => u \in recorded
    BY <1>3 DEF Check, MigrateInv, EarlierRecorded, InLoop
  <2>2. MigrateTypeOK' /\ Alone(r) /\ txn'[r] = "closed"
    <3>1. CASE NextFile(r)
      BY <1>3, <3>1, NextFileKeeps
         DEF Check, MigrateInv, MigrateTypeOK, Alone, Fits, database
    <3>2. CASE Goto(r, "begin")
      BY <1>3, <3>2 DEF Check, Goto, MigrateInv, MigrateTypeOK, Alone, Fits, database
    <3> QED
      BY <1>3, <3>1, <3>2 DEF Check
  <2>3. /\ pc'[r] \in {"done", "begin", "check"}
        /\ pc'[r] = "done" => recorded = Versions
        /\ \A u \in Versions : u < at'[r] => u \in recorded
    <3>1. CASE at[r] \in recorded
      <4>1. NextFile(r) /\ recorded \subseteq Versions /\ at[r] \in Versions
        BY <1>3, <3>1 DEF Check, MigrateInv, MigrateTypeOK
      <4>2. /\ at[r] = N => recorded = Versions
            /\ \A u \in Versions : u < at[r] + 1 => u \in recorded
        BY <2>1, <3>1, <4>1, CoveredUpTo
      <4> QED
        BY <2>1, <4>1, <4>2, NextFileKeeps DEF MigrateInv
    <3>2. CASE at[r] \notin recorded
      BY <1>3, <2>1, <3>2 DEF Check, Goto, MigrateInv, MigrateTypeOK
    <3> QED
      BY <3>1, <3>2
  <2> QED
    BY <1>3, <2>2, <2>3, LocalStep DEF Check, Fits, RowIsNew, database
<1>4. ASSUME NEW r \in Runners, Begin(r)
      PROVE  MigrateInv'
  <2>1. /\ MigrateTypeOK' /\ Alone(r)
        /\ pc'[r] = "apply" /\ txn'[r] = "open" /\ at'[r] = at[r]
    BY <1>4 DEF Begin, Goto, Stage, MigrateInv, MigrateTypeOK, Alone, database
  <2>2. \A u \in Versions : u < at'[r] => u \in recorded
    BY <1>4, <2>1 DEF Begin, MigrateInv, EarlierRecorded, InLoop
  <2> QED
    BY <1>4, <2>1, <2>2, LocalStep DEF Begin, Fits, RowIsNew, database
<1>5. ASSUME NEW r \in Runners, Apply(r)
      PROVE  MigrateInv'
  <2>1. CASE Fatal(r)
    BY <1>5, <2>1, FatalKeeps DEF Apply, MigrateInv, MigrateTypeOK
  <2>2. CASE Goto(r, "record") /\ Stage(r, "applied")
    <3>1. /\ MigrateTypeOK' /\ Alone(r)
          /\ pc'[r] = "record" /\ txn'[r] = "applied" /\ at'[r] = at[r]
      BY <1>5, <2>2 DEF Apply, Goto, Stage, MigrateInv, MigrateTypeOK, Alone, database
    <3>2. \A u \in Versions : u < at'[r] => u \in recorded
      BY <1>5, <3>1 DEF Apply, MigrateInv, EarlierRecorded, InLoop
    <3> QED
      BY <1>5, <3>1, <3>2, LocalStep DEF Apply, Fits, RowIsNew, database
  <2> QED
    BY <1>5, <2>1, <2>2 DEF Apply
<1>6. ASSUME NEW r \in Runners, Record(r)
      PROVE  MigrateInv'
  <2>1. CASE at[r] \in recorded
    BY <1>6, <2>1, FatalKeeps DEF Record, MigrateInv, MigrateTypeOK
  <2>2. CASE at[r] \notin recorded
    <3>1. /\ MigrateTypeOK' /\ Alone(r)
          /\ pc'[r] = "commit" /\ txn'[r] = "recorded" /\ at'[r] = at[r]
      BY <1>6, <2>2 DEF Record, Goto, Stage, MigrateInv, MigrateTypeOK, Alone, database
    <3>2. \A u \in Versions : u < at'[r] => u \in recorded
      BY <1>6, <3>1 DEF Record, MigrateInv, EarlierRecorded, InLoop
    <3>3. RowIsNew(r)'
      BY <1>6, <2>2, <3>1 DEF Record, RowIsNew, RowIsOpen, Alone, database
    <3> QED
      BY <1>6, <3>1, <3>2, <3>3, LocalStep DEF Record, Fits, database
  <2> QED
    BY <2>1, <2>2
<1>7. ASSUME NEW r \in Runners, Fail(r)
      PROVE  MigrateInv'
  BY <1>7, FatalKeeps DEF Fail, MigrateInv, MigrateTypeOK
<1>8. ASSUME NEW r \in Runners, Abandon(r)
      PROVE  MigrateInv'
  <2>1. MigrateTypeOK' /\ Alone(r) /\ pc'[r] = "dead" /\ txn'[r] = "closed"
    BY <1>8 DEF Abandon, Stage, MigrateInv, MigrateTypeOK, Alone, database
  <2> QED
    BY <1>8, <2>1, LocalStep DEF Abandon, InLoop, Fits, RowIsNew, database
<1>9. CASE UNCHANGED migrateVars
  BY <1>9 DEF migrateVars, MigrateInv, MigrateTypeOK, TableTellsTruth, DoneMeansAll,
     Ordered, EarlierRecorded, InLoop, Fits, RowIsNew, RowIsOpen
<1> QED
  BY <1>1, <1>2, <1>3, <1>4, <1>5, <1>6, <1>7, <1>8, <1>9, <1>10, CommitKeeps
     DEF MigrateNext, Run

-----------------------------------------------------------------------------

\* The inductive invariant: rows, transactions and the loops of the runners.
THEOREM MigrateInvariant == MigrateSpec => []MigrateInv
<1>1. MigrateInv /\ [MigrateNext]_migrateVars => MigrateInv'
  BY MigrateStepInv
<1> QED
  BY <1>1, MigrateInitInv, PTL DEF MigrateSpec

\* cmd/migrate, the loop over the files: for any number of runners and faults
\* the variables keep their types.
THEOREM MigrateTypes == MigrateSpec => []MigrateTypeOK
BY MigrateInvariant, PTL DEF MigrateInv

\* cmd/migrate, the transaction per file: a row without its SQL, SQL without
\* its row, or SQL that took effect twice never comes to be.
THEOREM SchemaTableTruthful == MigrateSpec => []TableTellsTruth
BY MigrateInvariant, PTL DEF MigrateInv

\* cmd/migrate, the check and the continue: a runner that ends well leaves
\* nothing out, however the others fared.
THEOREM DoneIsComplete == MigrateSpec => []DoneMeansAll
BY MigrateInvariant, PTL DEF MigrateInv

\* cmd/migrate, the insert that waits at the unique key: never for a runner that
\* waits itself.
THEOREM LocksOpen == MigrateSpec => []WaitsCanEnd
<1>1. MigrateInv => WaitsCanEnd
  BY DEF MigrateInv, Fits, WaitsCanEnd
<1> QED
  BY <1>1, MigrateInvariant, PTL

-----------------------------------------------------------------------------
(* Who survives a race *)

\* r is running and what it works on is not recorded.
Leads(r) == pc[r] \notin Resting /\ at[r] \notin recorded

\* So it is beyond the creation of the table, where a race may still end it.
Ahead(r) == InLoop(r) /\ at[r] \notin recorded

\* Nobody looks at files, and none is recorded, before the table is there.
TableFirst ==
  /\ recorded # {} => table
  /\ \A r \in Runners : InLoop(r) => table

RaceInv ==
  /\ MigrateInv
  /\ RaceLeavesOne
  /\ TableFirst
  /\ faults = 0 /\ table => recorded = Versions \/ \E r \in Runners : Ahead(r)
  /\ (\A r \in Runners : pc[r] = "idle") => recorded = {} /\ ~table

LEMMA TableStaysFirst ==
  ASSUME MigrateTypeOK, TableFirst, NEW r \in Runners,
         Start(r) \/ Run(r) \/ Fail(r) \/ Abandon(r)
  PROVE  TableFirst'
<1>1. table => table'
  BY DEF Start, Run, LookForTable, CreateTable, Check, Begin, Apply, Record, Commit, Fail,
     Abandon, database
<1>2. recorded' # recorded => Commit(r)
  BY DEF Start, Run, LookForTable, CreateTable, Check, Begin, Apply, Record, Fail, Abandon,
     database
<1>3. \A q \in Runners \ {r} : pc'[q] = pc[q]
  BY NextFileKeeps DEF Start, Run, LookForTable, CreateTable, Check, Begin, Apply, Record,
     Commit, Fail, Abandon, Fatal, Goto, MigrateTypeOK
<1>4. ASSUME InLoop(r)' PROVE table'
  <2>1. CASE Start(r) \/ Fail(r) \/ Abandon(r)
    BY <1>4, <2>1 DEF Start, Fail, Fatal, Goto, Abandon, InLoop, MigrateTypeOK
  <2>2. CASE LookForTable(r) \/ CreateTable(r)
    BY <1>4, <2>2 DEF LookForTable, CreateTable, Goto, InLoop, MigrateTypeOK, database
  <2>3. CASE Check(r) \/ Begin(r) \/ Apply(r) \/ Record(r) \/ Commit(r)
    BY <1>1, <2>3 DEF Check, Begin, Apply, Record, Commit, InLoop, TableFirst
  <2> QED
    BY <2>1, <2>2, <2>3 DEF Run
<1>5. Commit(r) => table
  BY DEF Commit, InLoop, TableFirst
<1> QED
  BY <1>1, <1>2, <1>3, <1>4, <1>5 DEF TableFirst, InLoop

\* Nothing that happens to a leader short of a fault ends its lead, unless it
\* is another's commit, or another's creation of the table.
LEMMA LeaderStays ==
  ASSUME MigrateInv, NEW q \in Runners, Leads(q), NEW r \in Runners,
         Start(r) \/ Run(r) \/ Abandon(r), ~Commit(r), Ahead(q) \/ ~table
  PROVE  Leads(q)' /\ (Ahead(q) => Ahead(q)')
<1>1. recorded' = recorded /\ pc[q] \notin Resting /\ at[q] \notin recorded
  BY DEF Start, Run, LookForTable, CreateTable, Check, Begin, Apply, Record, Abandon,
     database, Leads
<1>2. MigrateTypeOK
  BY DEF MigrateInv
<1>3. CASE q = r
  <2>1. CASE Start(r) \/ Abandon(r)
    BY <1>1, <1>3, <2>1 DEF Start, Abandon, Resting
  <2>2. CASE LookForTable(r) \/ CreateTable(r)
    BY <1>1, <1>2, <1>3, <2>2 DEF LookForTable, CreateTable, Goto, Leads, Ahead, InLoop,
       Resting, MigrateTypeOK
  <2>3. CASE Check(r) \/ Begin(r) \/ Apply(r) \/ Record(r)
    BY <1>1, <1>2, <1>3, <2>3 DEF Check, Begin, Apply, Record, Goto, Leads, Ahead, InLoop,
       Resting, MigrateTypeOK
  <2> QED
    BY <2>1, <2>2, <2>3 DEF Run
<1>4. CASE q # r
  <2>1. pc'[q] = pc[q] /\ at'[q] = at[q]
    BY <1>2, <1>4, NextFileKeeps DEF Start, Run, LookForTable, CreateTable, Check, Begin,
       Apply, Record, Abandon, Fatal, Goto, MigrateTypeOK
  <2> QED
    BY <1>1, <2>1 DEF Leads, Ahead, InLoop
<1> QED
  BY <1>3, <1>4

\* Who creates the table has the first file before it.
LEMMA CreatorLeads ==
  ASSUME MigrateInv, recorded = {}, ~table, NEW r \in Runners, CreateTable(r)
  PROVE  Ahead(r)'
BY DEF CreateTable, Goto, Ahead, InLoop, MigrateInv, MigrateTypeOK

\* Who commits has the next file before it.
LEMMA CommitLeads ==
  ASSUME MigrateInv, NEW r \in Runners, Commit(r), NextFile(r)
  PROVE  recorded' = Versions \/ Ahead(r)'
<1> DEFINE v == at[r]
<1>1. v \in Versions /\ v \notin recorded /\ recorded' = recorded \cup {v}
  BY DEF MigrateInv, MigrateTypeOK, Commit, Fits, RowIsNew
<1>2. MigrateInv' /\ recorded' \subseteq Versions
  BY <1>1, CommitKeeps DEF MigrateInv, MigrateTypeOK
<1>3. CASE v = N
  <2>1. \A u \in Versions : u < v => u \in recorded
    BY DEF MigrateInv, Commit, EarlierRecorded, InLoop
  <2>2. \A u \in Versions : u < v => u \in recorded'
    BY <1>1, <2>1
  <2> QED
    BY <1>1, <1>2, <1>3, <2>2, CoveredUpTo
<1>4. CASE v # N
  <2>1. at'[r] = v + 1 /\ pc'[r] = "check" /\ v + 1 \in Versions
    BY <1>2, <1>4, NextFileKeeps DEF MigrateInv, MigrateTypeOK
  <2>2. v + 1 \notin recorded
    BY <1>1, <2>1 DEF MigrateInv, Ordered, Versions
  <2> QED
    BY <1>1, <2>1, <2>2 DEF Ahead, InLoop, Versions
<1> QED
  BY <1>3, <1>4

LEMMA RaceStep ==
  ASSUME RaceInv, [MigrateNext]_migrateVars
  PROVE  RaceInv'
<1>1. MigrateInv'
  BY MigrateStepInv DEF RaceInv
<1>2. CASE UNCHANGED migrateVars
  BY <1>1, <1>2 DEF migrateVars, RaceInv, RaceLeavesOne, TableFirst, Ahead, InLoop
<1>3. ASSUME NEW r \in Runners, Start(r) \/ Run(r) \/ Fail(r) \/ Abandon(r)
      PROVE  RaceInv'
  <2>1. MigrateTypeOK /\ MigrateInv
    BY DEF RaceInv, MigrateInv
  <2>2. pc'[r] # "idle"
    <3>1. CASE Start(r) \/ LookForTable(r) \/ Begin(r) \/ Abandon(r)
      BY <2>1, <3>1 DEF Start, LookForTable, Begin, Abandon, Goto, MigrateTypeOK
    <3>2. CASE Fatal(r)
      BY <2>1, <3>2 DEF Fatal, Goto, MigrateTypeOK
    <3>3. CASE Check(r) \/ Commit(r)
      BY <2>1, <3>3, NextFileKeeps DEF Check, Commit, Goto, MigrateTypeOK
    <3>4. CASE CreateTable(r) \/ Apply(r) \/ Record(r)
      BY <2>1, <3>2, <3>4 DEF CreateTable, Apply, Record, Goto, MigrateTypeOK
    <3> QED
      BY <1>3, <3>1, <3>2, <3>3, <3>4 DEF Run, Fail
  <2>3. TableFirst'
    BY <1>3, <2>1, TableStaysFirst DEF RaceInv
  <2>4. ASSUME faults' = 0
        PROVE  \/ recorded' = Versions
               \/ \E q \in Runners : Ahead(q)'
               \/ ~table' /\ \E q \in Runners : Leads(q)'
    <3>1. faults = 0 /\ ~Fail(r) /\ (Commit(r) => NextFile(r))
      BY <1>3, <2>4 DEF RaceInv, MigrateInv, MigrateTypeOK, Start, Run, LookForTable,
         CreateTable, Check, Begin, Apply, Record, Commit, Fail, Abandon
    <3>2. CASE Commit(r)
      BY <2>1, <3>1, <3>2, CommitLeads
    <3>3. ASSUME ~Commit(r) PROVE recorded' = recorded
      BY <1>3, <3>1, <3>3 DEF Start, Run, LookForTable, CreateTable, Check, Begin, Apply,
         Record, Abandon, database
    <3>4. CASE ~Commit(r) /\ table
      <4>1. recorded = Versions \/ \E q \in Runners : Ahead(q)
        BY <3>1, <3>4 DEF RaceInv
      <4>2. ASSUME NEW q \in Runners, Ahead(q) PROVE Ahead(q)'
        <5>1. Leads(q)
          BY <4>2 DEF Ahead, Leads, InLoop, Resting
        <5> QED
          BY <1>3, <2>1, <3>1, <3>4, <4>2, <5>1, LeaderStays
      <4> QED
        BY <3>3, <3>4, <4>1, <4>2
    <3>5. CASE ~Commit(r) /\ ~table
      <4>1. recorded = {}
        BY <3>5 DEF RaceInv, TableFirst
      <4>2. CASE CreateTable(r)
        BY <2>1, <3>5, <4>1, <4>2, CreatorLeads
      <4>3. CASE ~CreateTable(r)
        <5>1. table' = table
          BY <1>3, <3>1, <3>5, <4>3 DEF Start, Run, LookForTable, Check, Begin, Apply,
             Record, Abandon, database
        <5>2. CASE \A q \in Runners : pc[q] = "idle"
          <6>1. Start(r)
            BY <1>3, <3>1, <5>2 DEF Run, LookForTable, CreateTable, Check, Begin, Apply,
               Record, Commit, Abandon
          <6> QED
            BY <2>1, <3>3, <3>5, <4>1, <5>1, <6>1 DEF Start, Leads, Resting, MigrateTypeOK
        <5>3. CASE \E q \in Runners : pc[q] # "idle"
          <6>1. recorded = Versions \/ \E q \in Runners : Leads(q)
            BY <3>1, <5>3 DEF RaceInv, RaceLeavesOne, Leads
          <6> QED
            BY <1>3, <2>1, <3>1, <3>3, <3>5, <5>1, <6>1, LeaderStays
        <5> QED
          BY <5>2, <5>3
      <4> QED
        BY <4>2, <4>3
    <3> QED
      BY <3>2, <3>4, <3>5
  <2>5. \A q \in Runners : Ahead(q)' => Leads(q)'
    BY DEF Ahead, Leads, InLoop, Resting
  <2> QED
    BY <1>1, <2>2, <2>3, <2>4, <2>5 DEF RaceInv, RaceLeavesOne, Leads
<1> QED
  BY <1>2, <1>3 DEF MigrateNext

\* cmd/migrate, log.Fatalf at a conflict: runners that were all started at once
\* do not all end by it before the last file is in.
THEOREM RacesAreWon == MigrateSpec => []RaceLeavesOne
<1>1. MigrateInit => RaceInv
  BY MigrateInitInv DEF MigrateInit, RaceInv, RaceLeavesOne, TableFirst, InLoop
<1>2. RaceInv /\ [MigrateNext]_migrateVars => RaceInv'
  BY RaceStep
<1> QED
  BY <1>1, <1>2, PTL DEF MigrateSpec, RaceInv

-----------------------------------------------------------------------------
(* The history *)

\* A commit is the abstract step; nothing else touches the schema.
LEMMA CommitTakes ==
  ASSUME MigrateInv, NEW r \in Runners, Commit(r)
  PROVE  \E v \in 1 .. N : History!Take(v)
<1> DEFINE v == at[r]
<1>1. v \in Versions /\ txn[r] = "recorded" /\ v \notin recorded
  BY DEF MigrateInv, MigrateTypeOK, Commit, Fits, RowIsNew
<1>2. \A u \in Versions : u \in recorded <=> u < v
  BY <1>1 DEF MigrateInv, MigrateTypeOK, Commit, EarlierRecorded, InLoop, Ordered, Versions
<1>3. \A u \in Versions : applied[u] = IF u < v THEN 1 ELSE 0
  BY <1>2 DEF MigrateInv, TableTellsTruth
<1>4. applied' = [applied EXCEPT ![v] = 1]
  <2>1. applied[v] = 0 /\ applied' = [applied EXCEPT ![v] = applied[v] + 1]
    BY <1>1, <1>3 DEF Commit, Versions
  <2> QED
    BY <2>1
<1> QED
  BY <1>1, <1>3, <1>4 DEF History!Take, Versions

\* cmd/migrate as a whole: racing and dying runners give the schema the history
\* of one runner that applies every file once and in order.
THEOREM MigrateImplements == MigrateSpec => ImplementsHistory
<1>1. MigrateInit => History!HistoryInit
  BY DEF MigrateInit, History!HistoryInit, Versions
<1>2. ASSUME MigrateInv, [MigrateNext]_migrateVars
      PROVE  [\E v \in 1 .. N : History!Take(v)]_applied
  <2>1. ASSUME NEW r \in Runners, Start(r) \/ Run(r) \/ Fail(r) \/ Abandon(r), ~Commit(r)
        PROVE  UNCHANGED applied
    BY <2>1 DEF Start, Run, LookForTable, CreateTable, Check, Begin, Apply, Record, Fail,
       Abandon, database
  <2>2. CASE UNCHANGED migrateVars
    BY <2>2 DEF migrateVars
  <2> QED
    BY <1>2, <2>1, <2>2, CommitTakes DEF MigrateNext
<1> QED
  BY <1>1, <1>2, MigrateInvariant, PTL DEF MigrateSpec, ImplementsHistory, History!HistorySpec
=============================================================================
