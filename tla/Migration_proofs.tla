-------------------------- MODULE Migration_proofs --------------------------
(***************************************************************************)
(* Proofs about Migration: the type invariant, and that the first ingest  *)
(* after the event-table migration makes the events table the index of the *)
(* retained stored ledgers (IndexHealsAfterIngest), for every ledger range,*)
(* window and LCM contents, whatever the old version left in its store.   *)
(***************************************************************************)
EXTENDS Migration, EventIndex_proofs

USE U32Assumption, LedgerAssumption, MaxTxAssumption, RetentionAssumption,
    MigLedgerAssumption
USE DEF ContractOpt, Tx, Ledger, TxIndex, RowKey, firstLedger

(***************************************************************************)
(* The ledgers newEventTableMigration starts from when meta.latest is l,   *)
(* the rows the migration transaction holds once it has applied the range  *)
(* up to ledger n - 1, and the table it commits: the index of every stored *)
(* ledger from mfirst on, one ledger more than the window when the window  *)
(* does not reach back to firstLedger.                                     *)
(***************************************************************************)
MigFirst(l) == IF l > RetentionWindow THEN l - RetentionWindow ELSE firstLedger

MigRows(n) ==
  [k \in RowKey |->
     IF k[1] \in stored /\ mfirst <= k[1] /\ k[1] < n THEN RowCount(k) ELSE 0]

MigIndex ==
  \A k \in RowKey :
    events[k] = IF k[1] \in stored /\ k[1] >= mfirst THEN RowCount(k) ELSE 0

(***************************************************************************)
(* The inductive invariant.  Before the migration commits, nothing is      *)
(* ingested through the events table and no ledger trim is due once the    *)
(* old version has stopped; the running migration has applied exactly the  *)
(* stored ledgers of [mfirst, mnext).  After the commit the table is       *)
(* MigIndex until the first ingest, and the index of the window after it.  *)
(***************************************************************************)
MIInv ==
  /\ CoreInv
  /\ phase \in {"legacy", "pending", "running", "done"}
  /\ {mfirst, mlast, mnext} \subseteq Nat
  /\ mrows \in [RowKey -> Nat]
  /\ phase # "done" => ~wopen /\ events = NoRows /\ rpending = NoRows
  /\ phase \in {"pending", "running"} => ~trimDue
  /\ phase = "running" =>
       /\ mlast = latest
       /\ mfirst = MigFirst(latest)
       /\ mfirst <= mnext
       /\ mrows = MigRows(mnext)
  /\ phase = "done" => latest >= mlast /\ mfirst = MigFirst(mlast)
  /\ phase = "done" /\ latest = mlast => ~trimDue /\ MigIndex
  /\ phase = "done" /\ latest > mlast => IndexMatchesStore

\* The initial state satisfies the invariant.
LEMMA InitMIInv == MigInit => MIInv
<1> SUFFICES ASSUME MigInit PROVE MIInv
  OBVIOUS
<1>1. IInv
  BY InitIInv DEF MigInit
<1>2. mrows \in [RowKey -> Nat]
  BY DEF MigInit, NoRows
<1>. QED
  BY <1>1, <1>2 DEF MigInit, Init, MIInv, IInv, CoreInv

\* The old version's ingest keeps the invariant: it stores the next ledger
\* and sets meta.latest in one commit.
LEMMA LegacyIngestMIInv ==
  ASSUME MIInv, LegacyIngest
  PROVE  MIInv'
<1> DEFINE W == RetentionWindow
         NL == NextLedger
<1>0. TypeOK
  BY DEF MIInv, CoreInv
<1>1. NL \in Ledger /\ NL > latest /\ NL >= StartLedger /\ latest \in Nat
  BY <1>0, NextLedgerFacts DEF LegacyIngest, TypeOK
<1>2. /\ stored' = stored \cup {NL} /\ latest' = NL /\ trimDue' = TRUE
      /\ UNCHANGED <<chain, events, writerVars, readerVars, migVars>>
  BY DEF LegacyIngest
<1>3. TypeOK'
  <2>1. stored' \subseteq Ledger /\ latest' \in {0} \cup Ledger
    BY <1>0, <1>1, <1>2 DEF TypeOK
  <2>. QED
    BY <1>0, <1>2, <2>1, Zenon DEF TypeOK, writerVars, readerVars
<1>4. StoreBelowLatest'
  BY <1>1, <1>2 DEF MIInv, CoreInv, StoreBelowLatest, TypeOK
<1>5. RetainedLedgersStored'
  <2>1. \A l \in Ledger : l <= NL /\ l > NL - W => l \in stored \cup {NL}
    <3> SUFFICES ASSUME NEW l \in Ledger, l <= NL, l > NL - W, l # NL
                 PROVE  l \in stored
      OBVIOUS
    <3>1. latest # 0 /\ l <= latest /\ l > latest - W
      BY <1>1 DEF NextLedger
    <3>. QED
      BY <3>1 DEF MIInv, CoreInv, RetainedLedgersStored, Retained
  <2>. QED
    BY <2>1, <1>2, <1>4 DEF RetainedLedgersStored, Retained, StoreBelowLatest
<1>6. phase = "legacy" /\ ~wopen /\ rpending = NoRows
  BY DEF LegacyIngest, MIInv
<1>7. WriterInv' /\ PendingReal'
  BY <1>2, <1>6 DEF WriterInv, PendingReal, NoRows, writerVars, readerVars
<1>. QED
  BY <1>2, <1>3, <1>4, <1>5, <1>6, <1>7
  DEF MIInv, CoreInv, writerVars, readerVars, migVars

\* Outside the serving phase every core invariant but the store's holds
\* trivially: no ingest is open, no scan has rows and the table is empty.
LEMMA IdleCore ==
  ASSUME MIInv, phase # "done"
  PROVE  CoreInv /\ EventsReal
BY DEF MIInv, EventsReal, NoRows

\* The old version's post-commit ledger trim keeps the invariant.
LEMMA LegacyTrimMIInv ==
  ASSUME MIInv, LegacyTrim
  PROVE  MIInv'
<1>1. phase = "legacy" /\ TrimLedgers /\ UNCHANGED migVars
  BY DEF LegacyTrim
<1>2. CoreInv'
  BY <1>1, IdleCore, NextCoreInv DEF Next
<1>3. UNCHANGED <<wopen, events, rpending>>
  BY <1>1 DEF TrimLedgers, writerVars, readerVars
<1>. QED
  BY <1>1, <1>2, <1>3 DEF MIInv, migVars

\* The upgrade forgets a pending ledger trim and changes nothing else.
LEMMA UpgradeMIInv ==
  ASSUME MIInv, Upgrade
  PROVE  MIInv'
<1>1. /\ phase = "legacy" /\ phase' = "pending" /\ trimDue' = FALSE
      /\ UNCHANGED <<chain, stored, events, latest, writerVars, readerVars>>
      /\ UNCHANGED <<mfirst, mlast, mnext, mrows>>
  BY DEF Upgrade
<1>2. CoreInv'
  <2>1. TypeOK'
    BY <1>1, Zenon DEF MIInv, CoreInv, TypeOK, writerVars, readerVars
  <2>. QED
    BY <1>1, <2>1 DEF MIInv, CoreInv, StoreBelowLatest, WriterInv,
                      PendingReal, RetainedLedgersStored, Retained,
                      NextLedger, PartialRows, RowCount, writerVars,
                      readerVars
<1>. QED
  BY <1>1, <1>2 DEF MIInv, writerVars, readerVars

\* The steps of the migration that leave the ingestion state alone keep the
\* core invariants.
LEMMA MigSideCore ==
  ASSUME MIInv, UNCHANGED vars
  PROVE  CoreInv'
BY DEF MIInv, vars, CoreInv, TypeOK, StoreBelowLatest, WriterInv, PendingReal,
       RetainedLedgersStored, Retained, NextLedger, PartialRows, RowCount,
       writerVars, readerVars

\* The ledger the range starts from is a natural number.
LEMMA MigFirstNat ==
  ASSUME NEW l \in Nat
  PROVE  MigFirst(l) \in Nat
BY DEF MigFirst

\* newEventTableMigration computes the range from meta.latest and the
\* runner opens an empty migration transaction.
LEMMA MigrationStartMIInv ==
  ASSUME MIInv, MigrationStart
  PROVE  MIInv'
<1>1. /\ phase = "pending" /\ phase' = "running"
      /\ mfirst' = MigFirst(latest) /\ mlast' = latest /\ mnext' = mfirst'
      /\ mrows' = NoRows /\ UNCHANGED vars
  BY DEF MigrationStart, MigFirst
<1>2. latest \in Nat
  BY DEF MIInv, CoreInv, TypeOK
<1>3. mfirst' \in Nat
  BY <1>1, <1>2, MigFirstNat
<1>4. mrows' = MigRows(mnext)'
  BY <1>1, <1>3 DEF MigRows, NoRows
<1>5. CoreInv'
  BY <1>1, MigSideCore
<1>. QED
  BY <1>1, <1>2, <1>3, <1>4, <1>5 DEF MIInv, vars, readerVars, writerVars,
                                     NoRows

\* Apply on ledger mnext adds the rows of its LCM if the store holds it.
LEMMA MigrationApplyMIInv ==
  ASSUME MIInv, MigrationApply
  PROVE  MIInv'
<1>1. /\ phase = "running" /\ mnext <= mlast /\ mnext' = mnext + 1
      /\ mrows' = IF mnext \in stored THEN AddRows(mrows, LedgerRows(mnext))
                  ELSE mrows
      /\ UNCHANGED <<phase, mfirst, mlast>> /\ UNCHANGED vars
  BY DEF MigrationApply
<1>2. /\ mrows = MigRows(mnext) /\ mfirst <= mnext /\ mnext \in Nat
      /\ mfirst \in Nat /\ mrows \in [RowKey -> Nat] /\ TypeOK
  BY <1>1 DEF MIInv, CoreInv
<1>3. mrows' = MigRows(mnext + 1)
  <2> SUFFICES ASSUME NEW k \in RowKey PROVE mrows'[k] = MigRows(mnext + 1)[k]
    BY <1>1, <1>2 DEF MigRows, AddRows
  <2>1. RowCount(k) \in Nat /\ k[1] \in Nat
    BY <1>2, RowCountNat
  <2>2. LedgerRows(mnext)[k] = IF k[1] = mnext THEN RowCount(k) ELSE 0
    BY DEF LedgerRows, RowCount
  <2>3. CASE mnext \in stored
    <3>1. mrows'[k] = mrows[k] + LedgerRows(mnext)[k]
      BY <2>3, <1>1 DEF AddRows
    <3>2. mrows[k] = MigRows(mnext)[k]
      BY <1>2
    <3>3. CASE k[1] = mnext
      BY <3>1, <3>2, <3>3, <2>1, <2>2, <2>3, <1>2 DEF MigRows
    <3>4. CASE k[1] # mnext
      BY <3>1, <3>2, <3>4, <2>1, <2>2, <1>2 DEF MigRows
    <3>. QED
      BY <3>3, <3>4
  <2>4. CASE mnext \notin stored
    BY <2>4, <2>1, <1>1, <1>2 DEF MigRows
  <2>. QED
    BY <2>3, <2>4
<1>4. mrows' \in [RowKey -> Nat]
  BY <1>3, <1>2, RowCountNat DEF MigRows
<1>5. CoreInv'
  BY <1>1, MigSideCore
<1>6. (mrows = MigRows(mnext))'
  <2>1. stored' = stored /\ chain' = chain /\ mfirst' = mfirst
    BY <1>1 DEF vars
  <2>2. \A k \in RowKey : RowCount(k)' = RowCount(k)
    BY <2>1 DEF RowCount
  <2>. QED
    BY <1>1, <1>3, <2>1, <2>2 DEF MigRows
<1>. QED
  BY <1>1, <1>2, <1>4, <1>5, <1>6 DEF MIInv, vars, readerVars, writerVars

\* Apply fails: the migration transaction rolls back, startup is aborted.
LEMMA MigrationAbortMIInv ==
  ASSUME MIInv, MigrationAbort
  PROVE  MIInv'
<1>1. /\ phase = "running" /\ phase' = "pending" /\ mrows' = NoRows
      /\ UNCHANGED <<mfirst, mlast, mnext>> /\ UNCHANGED vars
  BY DEF MigrationAbort
<1>2. CoreInv'
  BY <1>1, MigSideCore
<1>. QED
  BY <1>1, <1>2 DEF MIInv, NoRows, vars, readerVars, writerVars

\* The migration commits the rows of the whole range at once.
LEMMA MigrationCommitMIInv ==
  ASSUME MIInv, MigrationCommit
  PROVE  MIInv'
<1>1. /\ phase = "running" /\ phase' = "done" /\ mnext > mlast
      /\ events' = AddRows(events, mrows)
      /\ UNCHANGED <<chain, stored, latest, trimDue, writerVars, readerVars>>
      /\ UNCHANGED <<mfirst, mlast, mnext, mrows>>
  BY DEF MigrationCommit
<1>2. /\ events = NoRows /\ mrows = MigRows(mnext) /\ mlast = latest
      /\ mfirst = MigFirst(latest) /\ ~trimDue /\ ~wopen /\ rpending = NoRows
      /\ mrows \in [RowKey -> Nat] /\ mnext \in Nat /\ CoreInv
  BY <1>1 DEF MIInv
<1>3. events' = mrows
  BY <1>1, <1>2 DEF AddRows, NoRows
<1>4. MigIndex'
  <2> SUFFICES ASSUME NEW k \in RowKey
               PROVE  mrows[k] = IF k[1] \in stored /\ k[1] >= mfirst
                                 THEN RowCount(k) ELSE 0
    BY <1>1, <1>3 DEF MigIndex, RowCount
  <2>1. k[1] \in stored => k[1] < mnext
    BY <1>1, <1>2 DEF CoreInv, StoreBelowLatest, TypeOK
  <2>. QED
    BY <2>1, <1>2 DEF MigRows
<1>5. CoreInv'
  <2>1. TypeOK'
    BY <1>1, <1>2, <1>3, Zenon DEF CoreInv, TypeOK, writerVars, readerVars
  <2>. QED
    BY <1>1, <1>2, <2>1 DEF CoreInv, StoreBelowLatest, WriterInv, PendingReal,
                            RetainedLedgersStored, Retained, NoRows,
                            writerVars, readerVars
<1>. QED
  BY <1>1, <1>2, <1>4, <1>5 DEF MIInv

\* A commit ingests the ledger after meta.latest.
LEMMA CommitAdvances ==
  ASSUME CoreInv, CommitIngest
  PROVE  /\ wseq \in Nat
         /\ wseq > latest
         /\ latest' = wseq
<1>1. wopen /\ wseq = NextLedger /\ latest' = wseq
  BY DEF CoreInv, WriterInv, CommitIngest
<1>. QED
  BY <1>1, NextLedgerFacts DEF CoreInv

\* After the migration the node serves as EventIndex does.  Until the first
\* ingest the table is MigIndex; that ingest's commit, whose trimEvents
\* drops the extra ledger, makes it the index of the window, and from then
\* on every step keeps it so.
LEMMA ServeMIInv ==
  ASSUME MIInv, Serve
  PROVE  MIInv'
<1> DEFINE W == RetentionWindow
<1>1. /\ phase = "done" /\ Next
      /\ phase' = "done" /\ UNCHANGED <<mfirst, mlast, mnext, mrows>>
  BY DEF Serve, migVars
<1>2. [Next]_vars
  BY <1>1
<1>3. /\ CoreInv /\ latest >= mlast /\ mfirst = MigFirst(mlast)
      /\ latest \in Nat /\ mlast \in Nat /\ mfirst \in Nat
  BY <1>1 DEF MIInv, CoreInv, TypeOK
<1>4. CASE latest > mlast
  <2>1. IInv
    BY <1>1, <1>4 DEF MIInv, IInv, CoreInv
  <2>2. IInv'
    BY <2>1, <1>2, NextIInv
  <2>3. latest' >= latest
    <3>1. CASE CommitIngest
      BY <3>1, <1>3, CommitAdvances
    <3>2. CASE ~CommitIngest
      BY <3>2, <1>2, <1>3, StepFrame
    <3>. QED
      BY <3>1, <3>2
  <2>4. latest' > mlast' /\ latest' >= mlast'
    <3>1. latest' \in Nat
      BY <2>2 DEF IInv, TypeOK
    <3>. QED
      BY <3>1, <2>3, <1>4, <1>1, <1>3
  <2>. QED
    BY <1>1, <1>3, <2>2, <2>4 DEF MIInv, IInv, CoreInv
<1>5. CASE latest = mlast
  <2>0. ~trimDue /\ MigIndex
    BY <1>1, <1>5 DEF MIInv
  <2>1. EventsReal
    BY <2>0 DEF MigIndex, EventsReal, RowCount
  <2>2. CoreInv'
    BY <1>3, <2>1, <1>2, NextCoreInv
  <2>3. CASE CommitIngest
    <3>1. wseq \in Nat /\ wseq > latest /\ latest' = wseq
      BY <2>3, <1>3, CommitAdvances
    <3>2. \A l \in stored : l > wseq - W => l >= mfirst
      <4> SUFFICES ASSUME NEW l \in stored, l > wseq - W PROVE l >= mfirst
        OBVIOUS
      <4>1. l \in Ledger
        BY <1>3 DEF CoreInv, TypeOK
      <4>2. CASE latest > W
        BY <4>2, <3>1, <4>1, <1>3, <1>5 DEF MigFirst
      <4>3. CASE ~(latest > W)
        BY <4>3, <4>1, <1>3, <1>5 DEF MigFirst
      <4>. QED
        BY <4>2, <4>3
    <3>3. IndexMatchesStore'
      BY <2>3, <1>3, <2>0, <3>2, CommitIndex DEF MigIndex
    <3>. QED
      BY <1>1, <1>3, <1>5, <2>2, <3>1, <3>3 DEF MIInv, CoreInv
  <2>4. CASE ~CommitIngest
    <3>1. /\ UNCHANGED <<chain, events, latest>>
          /\ trimDue' => trimDue
          /\ stored' = stored \/ TrimLedgers
      BY <2>4, <1>2, StepFrame
    <3>2. ~TrimLedgers
      BY <2>0 DEF TrimLedgers
    <3>3. stored' = stored /\ ~trimDue'
      BY <3>1, <3>2, <2>0
    <3>4. MigIndex'
      BY <3>1, <3>3, <2>0, <1>1 DEF MigIndex, RowCount
    <3>. QED
      BY <1>1, <1>3, <1>5, <2>2, <3>1, <3>3, <3>4 DEF MIInv, CoreInv
  <2>. QED
    BY <2>3, <2>4
<1>. QED
  BY <1>3, <1>4, <1>5

\* A step that changes nothing keeps the invariant.
LEMMA StutterMIInv ==
  ASSUME MIInv, UNCHANGED allVars
  PROVE  MIInv'
<1>1. UNCHANGED vars /\ UNCHANGED migVars
  BY DEF allVars
<1>2. CoreInv'
  BY <1>1, MigSideCore
<1>3. UNCHANGED <<chain, stored, events, latest, trimDue, wopen, rpending>>
  BY <1>1 DEF vars, writerVars, readerVars
<1>4. \A k \in RowKey : RowCount(k)' = RowCount(k)
  BY <1>3 DEF RowCount
<1>. QED
  BY <1>1, <1>2, <1>3, <1>4 DEF MIInv, migVars, MigRows, MigIndex,
                                IndexMatchesStore, Retained, MigFirst

\* Every step of the upgrade, the migration and the service keeps the
\* invariant.
LEMMA NextMIInv == MIInv /\ [MigNext]_allVars => MIInv'
<1> SUFFICES ASSUME MIInv, [MigNext]_allVars PROVE MIInv'
  OBVIOUS
<1>. QED
  BY LegacyIngestMIInv, LegacyTrimMIInv, UpgradeMIInv, MigrationStartMIInv,
     MigrationApplyMIInv, MigrationAbortMIInv, MigrationCommitMIInv,
     ServeMIInv, StutterMIInv DEF MigNext

\* The invariant holds in every behaviour of the upgrade.
THEOREM MIInvHolds == MigSpec => []MIInv
BY InitMIInv, NextMIInv, PTL DEF MigSpec

\* Whatever the old version left in its ledger store (a trim still due at
\* the upgrade) and however often the migration is aborted and retried, once
\* a ledger past the migrated range has committed the events table is
\* exactly the index of the retained stored ledgers: the commit's
\* trimEvents removes the one ledger the migration indexes past the window.
THEOREM IndexHealsAfterIngestHolds == MigSpec => []IndexHealsAfterIngest
<1>1. MIInv => IndexHealsAfterIngest
  BY DEF MIInv, IndexHealsAfterIngest
<1>. QED
  BY MIInvHolds, <1>1, PTL
\* The invariant bounds the migrated table's divergence to one ledger.
LEMMA MIInvExtraLedgerOnly == MIInv => MigrationExtraLedgerOnly
<1> DEFINE W == RetentionWindow
<1> SUFFICES ASSUME MIInv, phase = "done", NEW k \in RowKey,
                    events[k] # (IF k[1] \in stored /\ Retained(k[1])
                                 THEN RowCount(k) ELSE 0)
             PROVE  k[1] = latest - W
  BY DEF MigrationExtraLedgerOnly
<1>1. latest >= mlast /\ mfirst = MigFirst(mlast) /\ latest \in Nat
      /\ mlast \in Nat /\ k[1] \in Ledger
  BY DEF MIInv, CoreInv, TypeOK
<1>2. CASE latest > mlast
  BY <1>2 DEF MIInv, IndexMatchesStore
<1>3. CASE latest = mlast
  <2>1. events[k] = IF k[1] \in stored /\ k[1] >= mfirst THEN RowCount(k) ELSE 0
    BY <1>3 DEF MIInv, MigIndex
  <2>2. CASE latest > W
    BY <2>1, <2>2, <1>1, <1>3 DEF MigFirst, Retained
  <2>3. CASE ~(latest > W)
    BY <2>1, <2>3, <1>1, <1>3 DEF MigFirst, Retained
  <2>. QED
    BY <2>2, <2>3
<1>. QED
  BY <1>1, <1>2, <1>3

\* Right after the migration, and at every later point, the events table
\* differs from the index of the retained stored ledgers in the rows of
\* ledger latest - retentionWindow at most, for every window, ledger range
\* and state of the old version's store: the divergence TLC shows in the
\* migration_equivalence run is exactly that one ledger, never an older
\* one the old version failed to trim.
THEOREM MigrationExtraLedgerOnlyHolds == MigSpec => []MigrationExtraLedgerOnly
BY MIInvHolds, MIInvExtraLedgerOnly, PTL
=============================================================================
