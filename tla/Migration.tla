------------------------------ MODULE Migration ------------------------------
(***************************************************************************)
(* The event-table migration (db/event.go, eventTableMigration) composed   *)
(* with the ledger store and the ingestion of EventIndex.                   *)
(*                                                                         *)
(* A node first runs a version without the events table: it stores LCMs    *)
(* and trims the ledger store after each commit, and may stop between the  *)
(* two.  The new version starts with an empty events table and a pending   *)
(* migration: newEventTableMigration computes [first, latest] from         *)
(* meta.latest, the runner applies InsertEvents to each stored LCM of the  *)
(* range in ascending order inside one transaction, and commits.  A failed *)
(* migration rolls back and aborts startup; the next start retries it.     *)
(* Then ingestion and GetEvents run as in EventIndex.                      *)
(***************************************************************************)
EXTENDS EventIndex

VARIABLES
  phase,   \* "legacy", "pending", "running" or "done"
  mfirst,  \* eventTableMigration.firstLedger
  mlast,   \* eventTableMigration.lastLedger
  mnext,   \* the next ledger of the range the runner applies
  mrows    \* the rows the migration transaction has inserted

migVars == <<phase, mfirst, mlast, mnext, mrows>>
allVars == <<vars, migVars>>

\* The firstLedger constant of db/event.go.
firstLedger == 2

\* Ledger 1 is the genesis ledger, which no LCM describes: the first ledger
\* a node ingests is at least firstLedger, the lower end the migration
\* takes when the window reaches back past the start of the chain.
ASSUME MigLedgerAssumption == StartLedger >= firstLedger

\* Mutant of LedgerRows: the rows of failed transactions are written too.
LedgerRowsWithFailed(seq) ==
  [k \in RowKey |->
     IF k[1] = seq /\ k[2] <= Len(chain[seq])
     THEN Occ(chain[seq][k[2]].events, k[3]) ELSE 0]

\* The rows InsertEvents writes for the whole LCM of ledger seq: one per
\* diagnostic event of each successful transaction.
LedgerRows(seq) ==
  [k \in RowKey |->
     IF k[1] = seq /\ k[2] <= Len(chain[seq]) /\ chain[seq][k[2]].ok
     THEN Occ(chain[seq][k[2]].events, k[3]) ELSE 0]

\* The version without an events table ingests the next ledger: the LCM is
\* stored and meta.latest set in one commit; the ledger trim comes after.
LegacyIngest ==
  /\ phase = "legacy"
  /\ NextLedger <= MaxLedger
  /\ stored' = stored \cup {NextLedger}
  /\ latest' = NextLedger
  /\ trimDue' = TRUE
  /\ UNCHANGED <<chain, events, writerVars, readerVars, migVars>>

\* Its post-commit ledger trim.
LegacyTrim ==
  /\ phase = "legacy"
  /\ TrimLedgers
  /\ UNCHANGED migVars

\* The old version stops (at any point, a trim still due included) and the
\* new one is started.
Upgrade ==
  /\ phase = "legacy"
  /\ phase' = "pending"
  /\ trimDue' = FALSE
  /\ UNCHANGED <<chain, stored, events, latest, writerVars, readerVars>>
  /\ UNCHANGED <<mfirst, mlast, mnext, mrows>>

\* Mutant of MigrationStart: the range ignores the retention window and
\* starts at firstLedger, migrating every ledger the old store still holds.
MigrationStartWholeStore ==
  /\ phase = "pending"
  /\ mfirst' = firstLedger
  /\ mlast' = latest
  /\ mnext' = mfirst'
  /\ mrows' = NoRows
  /\ phase' = "running"
  /\ UNCHANGED vars

\* newEventTableMigration's factory with latestLedger = meta.latest, then
\* the runner opens the migration transaction.
MigrationStart ==
  /\ phase = "pending"
  /\ mfirst' = IF latest > RetentionWindow THEN latest - RetentionWindow
               ELSE firstLedger
  /\ mlast' = latest
  /\ mnext' = mfirst'
  /\ mrows' = NoRows
  /\ phase' = "running"
  /\ UNCHANGED vars

\* The runner reaches ledger mnext of the range: Apply calls InsertEvents on
\* its LCM if the store holds it.
MigrationApply ==
  /\ phase = "running"
  /\ mnext <= mlast
  /\ mrows' = IF mnext \in stored THEN AddRows(mrows, LedgerRows(mnext))
              ELSE mrows
  /\ mnext' = mnext + 1
  /\ UNCHANGED <<phase, mfirst, mlast>>
  /\ UNCHANGED vars

\* Apply fails or the process dies: the migration transaction rolls back
\* and startup is aborted; the next start runs the migration again.
MigrationAbort ==
  /\ phase = "running"
  /\ phase' = "pending"
  /\ mrows' = NoRows
  /\ UNCHANGED <<mfirst, mlast, mnext>>
  /\ UNCHANGED vars

\* The range is done: the rows and the migration marker commit together.
MigrationCommit ==
  /\ phase = "running"
  /\ mnext > mlast
  /\ events' = AddRows(events, mrows)
  /\ phase' = "done"
  /\ UNCHANGED <<chain, stored, latest, trimDue, writerVars, readerVars>>
  /\ UNCHANGED <<mfirst, mlast, mnext, mrows>>

\* After the migration the node ingests and serves as in EventIndex.
Serve ==
  /\ phase = "done"
  /\ Next
  /\ UNCHANGED migVars

MigInit ==
  /\ Init
  /\ phase = "legacy"
  /\ mfirst = 0
  /\ mlast = 0
  /\ mnext = 0
  /\ mrows = NoRows

MigNext ==
  \/ LegacyIngest
  \/ LegacyTrim
  \/ Upgrade
  \/ MigrationStart
  \/ MigrationApply
  \/ MigrationAbort
  \/ MigrationCommit
  \/ Serve

MigSpec == MigInit /\ [][MigNext]_allVars

-----------------------------------------------------------------------------
(* Properties.                                                             *)

\* Spec section 6, property 7 (migration equivalence): once the migration
\* has committed, the events table is the one a fresh ingest of the stored
\* ledgers would have produced, whatever the old version left in the store.
MigrationEquivalent == phase = "done" => IndexMatchesStore

\* The migrated table differs from the index of the retained stored ledgers
\* in the rows of one ledger at most: latest - retentionWindow, which
\* newEventTableMigration's range includes and trimEvents does not retain.
\* Whatever ledgers older than that the old version failed to trim, and
\* however often the migration was aborted and retried, none of them is
\* indexed.
MigrationExtraLedgerOnly ==
  phase = "done" =>
    \A k \in RowKey :
      events[k] # (IF k[1] \in stored /\ Retained(k[1]) THEN RowCount(k) ELSE 0)
        => k[1] = latest - RetentionWindow

\* Whatever the migration indexed, the first ingest after it restores the
\* index: once a ledger past the migrated range has committed, the events
\* table is exactly the index of the retained stored ledgers.
IndexHealsAfterIngest == phase = "done" /\ latest > mlast => IndexMatchesStore
=============================================================================
