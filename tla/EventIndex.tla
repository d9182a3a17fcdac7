----------------------------- MODULE EventIndex -----------------------------
(***************************************************************************)
(* The event index of soroban-rpc (db/event.go) together with the         *)
(* ingestion transaction that fills it and the GetEvents reader that scans *)
(* it.                                                                     *)
(*                                                                         *)
(* The ledger store keeps whole ledger-close-metas (LCMs); since upstream  *)
(* closes one LCM per sequence number, the store is the set `stored` of    *)
(* sequence numbers and an LCM is `chain[seq]`.  The events table holds    *)
(* one (ledger_sequence, application_order, contract_id) row per           *)
(* diagnostic event of a successful transaction; rows have no key, so the  *)
(* table is a multiset, a function from row to its number of copies.       *)
(* The event_type column is never queried and is left out.                 *)
(*                                                                         *)
(* One ingestion task writes: it opens a transaction, inserts the LCM,     *)
(* runs InsertEvents one transaction of the LCM at a time, then trims the  *)
(* events table and commits; the ledger store is trimmed after the commit. *)
(* A reader runs GetEvents concurrently: one SELECT joining events with    *)
(* ledgers, then a loop over the selected rows calling the visitor.        *)
(***************************************************************************)
EXTENDS Integers, Sequences, FiniteSets, Cursor

CONSTANTS
  Contracts,        \* contract ids
  NoContract,       \* the NULL contract_id of an event without a contract
  StartLedger,      \* the first ledger the node ingests
  MaxLedger,        \* the last ledger upstream closes in a behaviour
  MaxTx,            \* the most transactions one ledger holds
  RetentionWindow,  \* the number of most recent ledgers kept
  Blocks,           \* the contents an LCM may have: sequences of transactions
  QueryStarts,      \* the cursorRange.Start values GetEvents is called with
  QueryEnds,        \* ... the cursorRange.End values
  QueryFilters      \* ... the contractIDs filters

ContractOpt == Contracts \cup {NoContract}

\* A transaction of an LCM: its result (Successful()) and the contract ids of
\* its diagnostic events, in the order GetDiagnosticEvents returns them.
Tx == [ok : BOOLEAN, events : Seq(ContractOpt)]

Ledger == StartLedger..MaxLedger
TxIndex == 1..MaxTx

\* A row of the events table: (ledger_sequence, application_order, contract_id).
RowKey == Ledger \X TxIndex \X ContractOpt

ASSUME ContractsAssumption == NoContract \notin Contracts
ASSUME LedgerAssumption ==
  /\ StartLedger \in Nat \ {0}
  /\ MaxLedger \in Nat
  /\ StartLedger <= MaxLedger
  /\ MaxLedger + 1 < U32
ASSUME MaxTxAssumption == MaxTx \in Nat /\ MaxTx < U32
ASSUME RetentionAssumption == RetentionWindow \in Nat \ {0}
ASSUME QueryAssumption ==
  /\ QueryStarts \subseteq Cursor
  /\ QueryEnds \subseteq Cursor
  /\ QueryFilters \subseteq SUBSET Contracts
ASSUME BlocksAssumption ==
  /\ Blocks # {}
  /\ \A b \in Blocks :
       /\ b \in Seq(Tx)
       /\ Len(b) <= MaxTx
       /\ \A t \in 1..Len(b) : Len(b[t].events) < U32

VARIABLES
  chain,      \* upstream: the LCM closed at each ledger sequence
  stored,     \* ledger store: sequences of the LCMs it holds
  events,     \* events table: RowKey -> number of copies of the row
  latest,     \* meta: latest ingested ledger, 0 while none is
  wopen,      \* the ingestion transaction is open
  wseq,       \* ... for this ledger sequence
  widx,       \* ... and InsertEvents is at this transaction (tx.Index)
  wrows,      \* ... having written these uncommitted event rows
  trimDue,    \* the ledger-store trim after the last commit has not run
  rstate,     \* GetEvents: "idle", "scan", "done", "stopped" or "error"
  rstart,     \* ... cursorRange.Start
  rend,       \* ... cursorRange.End
  rfilter,    \* ... contractIDs (empty: no filter)
  rpending,   \* ... selected rows not yet scanned (RowKey -> copies)
  presented,  \* ... the (cursor, contract) of each visitor call, in order
  rexpect,    \* ... ghost: cursors of the committed events the range and
              \*     filter ask for, at the time of the SELECT
  rcancel     \* ... ghost: number of visitor calls made when the request's
              \*     context was cancelled, NoCancel while it is not

writerVars == <<wopen, wseq, widx, wrows>>
readerVars ==
  <<rstate, rstart, rend, rfilter, rpending, presented, rexpect, rcancel>>
vars == <<chain, stored, events, latest, trimDue, writerVars, readerVars>>

-----------------------------------------------------------------------------
(* Rows of the events table.                                               *)

NoRows == [k \in RowKey |-> 0]

NoCancel == -1

\* Number of events of contract c in a transaction's event list.
Occ(evs, c) == Cardinality({i \in 1..Len(evs) : evs[i] = c})

\* The rows InsertEvents writes for transaction idx of ledger seq: one
\* (ledger_sequence, application_order, contract_id) per diagnostic event.
TxRows(seq, idx, tx) ==
  [k \in RowKey |-> IF k[1] = seq /\ k[2] = idx THEN Occ(tx.events, k[3]) ELSE 0]

AddRows(a, b) == [k \in RowKey |-> a[k] + b[k]]

\* Mutant of trimEvents: the cutoff compared with <=, deleting the oldest
\* ledger of the window too.
trimEventsOffByOne(ev, latestLedgerSeq) ==
  LET next == (latestLedgerSeq + 1) % U32 IN
  IF next <= RetentionWindow THEN ev
  ELSE [k \in RowKey |-> IF k[1] <= next - RetentionWindow THEN 0 ELSE ev[k]]

\* Mutant of TrimLedgerStore: keeps only ledgers strictly past the cutoff.
TrimLedgerStoreStrict(s, latestSeq) ==
  LET next == (latestSeq + 1) % U32 IN
  IF next <= RetentionWindow THEN s
  ELSE {l \in s : l > next - RetentionWindow}

\* trimEvents(latestLedgerSeq, retentionWindow), uint32 arithmetic: nothing
\* when latestLedgerSeq + 1 <= retentionWindow, else delete every row whose
\* ledger_sequence < latestLedgerSeq + 1 - retentionWindow.
trimEvents(ev, latestLedgerSeq) ==
  LET next == (latestLedgerSeq + 1) % U32 IN
  IF next <= RetentionWindow THEN ev
  ELSE [k \in RowKey |-> IF k[1] < next - RetentionWindow THEN 0 ELSE ev[k]]

\* TrimBefore(latest + 1 - retentionWindow) on the ledger store.
TrimLedgerStore(s, latestSeq) ==
  LET next == (latestSeq + 1) % U32 IN
  IF next <= RetentionWindow THEN s
  ELSE {l \in s : l >= next - RetentionWindow}

-----------------------------------------------------------------------------
(* The ingestion task.                                                     *)

NextLedger == IF latest = 0 THEN StartLedger ELSE latest + 1

resetWriter == wopen' = FALSE /\ widx' = 1 /\ wrows' = NoRows /\ UNCHANGED wseq

\* Mutant of BeginIngest: numbers the transactions from 0 instead of using
\* the 1-based tx.Index that the rows' application_order takes.
BeginIngestZeroIndex ==
  /\ ~wopen
  /\ NextLedger <= MaxLedger
  /\ wopen' = TRUE
  /\ wseq' = NextLedger
  /\ widx' = 0
  /\ wrows' = NoRows
  /\ UNCHANGED <<chain, stored, events, latest, trimDue, readerVars>>

\* Open the write transaction for the next ledger, insert its LCM and its
\* transactions, and open InsertEvents's transaction reader.  With no
\* transactions (txCount == 0) InsertEvents returns at once, which is the
\* loop below ending before its first turn.
BeginIngest ==
  /\ ~wopen
  /\ NextLedger <= MaxLedger
  /\ wopen' = TRUE
  /\ wseq' = NextLedger
  /\ widx' = 1
  /\ wrows' = NoRows
  /\ UNCHANGED <<chain, stored, events, latest, trimDue, readerVars>>

\* One turn of InsertEvents's loop that writes nothing: the transaction
\* failed, or it emitted no diagnostic events.
InsertEventsSkip ==
  /\ wopen
  /\ widx <= Len(chain[wseq])
  /\ LET tx == chain[wseq][widx] IN ~tx.ok \/ Len(tx.events) = 0
  /\ widx' = widx + 1
  /\ UNCHANGED <<wopen, wseq, wrows>>
  /\ UNCHANGED <<chain, stored, events, latest, trimDue, readerVars>>

\* One turn of InsertEvents's loop that inserts the rows of one successful
\* transaction with events, in one INSERT through the statement cache.
InsertEventsExec ==
  /\ wopen
  /\ widx <= Len(chain[wseq])
  /\ LET tx == chain[wseq][widx] IN
       /\ tx.ok
       /\ Len(tx.events) > 0
       /\ wrows' = AddRows(wrows, TxRows(wseq, widx, tx))
  /\ widx' = widx + 1
  /\ UNCHANGED <<wopen, wseq>>
  /\ UNCHANGED <<chain, stored, events, latest, trimDue, readerVars>>

\* The reader hit EOF: trim the events table inside the transaction, set
\* meta.latest and commit; everything written becomes visible at once.
CommitIngest ==
  /\ wopen
  /\ widx > Len(chain[wseq])
  /\ stored' = stored \cup {wseq}
  /\ events' = trimEvents(AddRows(events, wrows), wseq)
  /\ latest' = wseq
  /\ trimDue' = TRUE
  /\ resetWriter
  /\ UNCHANGED <<chain, readerVars>>

\* Any step of the ingestion failed (a storage error, an INSERT or the
\* transaction reader returning an error): the transaction rolls back and
\* the ledger is ingested again later.
AbortIngest ==
  /\ wopen
  /\ resetWriter
  /\ UNCHANGED <<chain, stored, events, latest, trimDue, readerVars>>

\* After the commit, the ledger store is trimmed to the retention window.
TrimLedgers ==
  /\ trimDue
  /\ stored' = TrimLedgerStore(stored, latest)
  /\ trimDue' = FALSE
  /\ UNCHANGED <<chain, events, latest, writerVars, readerVars>>

\* The process dies: the open transaction rolls back, the pending ledger
\* trim is forgotten and a running scan is gone.
Crash ==
  /\ wopen \/ trimDue \/ rstate = "scan"
  /\ resetWriter
  /\ trimDue' = FALSE
  /\ rstate' = "idle"
  /\ rpending' = NoRows
  /\ presented' = <<>>
  /\ rcancel' = NoCancel
  /\ UNCHANGED <<chain, stored, events, latest, rstart, rend, rfilter, rexpect>>

-----------------------------------------------------------------------------
(* GetEvents.                                                              *)

\* Mutant of RowMatches: End.Ledger taken as inclusive.
RowMatchesEndInclusive(k, start, end, filter) ==
  /\ k[1] >= start[1]
  /\ k[2] >= start[2]
  /\ k[1] <= end[1]
  /\ filter # {} => k[3] \in filter

\* The WHERE clause of GetEvents's query on a row of the events table.
RowMatches(k, start, end, filter) ==
  /\ k[1] >= start[1]
  /\ k[2] >= start[2]
  /\ k[1] < end[1]
  /\ filter # {} => k[3] \in filter

\* A ledger whose events the retention window keeps.
Retained(l) == l > latest - RetentionWindow

\* Ghost: the cursors of the committed events in [start, end) whose contract
\* the filter asks for: the events a scan of this range should present.
ExpectedCursors(start, end, filter) ==
  { c \in stored \X TxIndex \X (0..(U32 - 1)) :
      /\ Retained(c[1])
      /\ c[2] <= Len(chain[c[1]])
      /\ chain[c[1]][c[2]].ok
      /\ c[3] < Len(chain[c[1]][c[2]].events)
      /\ filter # {} => chain[c[1]][c[2]].events[c[3] + 1] \in filter
      /\ InCursorRange(c, start, end) }

\* The SELECT: the matching rows joined with the ledgers they belong to,
\* read in one statement.
GetEventsSelect(start, end, filter) ==
  /\ rstate # "scan"
  /\ rpending' = [k \in RowKey |->
                    IF k[1] \in stored /\ RowMatches(k, start, end, filter)
                    THEN events[k] ELSE 0]
  /\ rstart' = start
  /\ rend' = end
  /\ rfilter' = filter
  /\ rstate' = "scan"
  /\ presented' = <<>>
  /\ rexpect' = ExpectedCursors(start, end, filter)
  /\ rcancel' = NoCancel
  /\ UNCHANGED <<chain, stored, events, latest, trimDue, writerVars>>

\* The SELECT fails: GetEvents returns the storage error.
GetEventsSelectFail(start, end, filter) ==
  /\ rstate # "scan"
  /\ rstate' = "error"
  /\ rpending' = NoRows
  /\ presented' = <<>>
  /\ rcancel' = NoCancel
  /\ UNCHANGED <<rstart, rend, rfilter, rexpect>>
  /\ UNCHANGED <<chain, stored, events, latest, trimDue, writerVars>>

\* The next row of the result: ORDER BY ledger_sequence only, so any row of
\* the lowest ledger among those left.
NextRow(k) ==
  /\ rpending[k] > 0
  /\ \A j \in RowKey : rpending[j] > 0 => k[1] <= j[1]

\* The visitor calls for the first n diagnostic events of the row's
\* transaction, decoded from its LCM: cursor (ledger, txIndex, eventIndex).
RowEvents(k, n) ==
  LET evs == chain[k[1]][k[2]].events IN
  [i \in 1..n |-> [cursor |-> <<k[1], k[2], i - 1>>, contract |-> evs[i]]]

\* Decode a row's transaction and call the visitor on each of its diagnostic
\* events; the visitor returns true on all of them.
ScanRow(k) ==
  /\ rstate = "scan"
  /\ NextRow(k)
  /\ presented' = presented \o RowEvents(k, Len(chain[k[1]][k[2]].events))
  /\ rpending' = [rpending EXCEPT ![k] = @ - 1]
  /\ UNCHANGED <<rstate, rstart, rend, rfilter, rexpect, rcancel>>
  /\ UNCHANGED <<chain, stored, events, latest, trimDue, writerVars>>

\* The visitor returns false on the n-th event of the row: GetEvents returns.
StopScan(k) ==
  /\ rstate = "scan"
  /\ NextRow(k)
  /\ \E n \in 1..Len(chain[k[1]][k[2]].events) :
       presented' = presented \o RowEvents(k, n)
  /\ rstate' = "stopped"
  /\ rpending' = NoRows
  /\ UNCHANGED <<rstart, rend, rfilter, rexpect, rcancel>>
  /\ UNCHANGED <<chain, stored, events, latest, trimDue, writerVars>>

\* Every row was scanned: GetEvents returns nil.
ScanDone ==
  /\ rstate = "scan"
  /\ \A k \in RowKey : rpending[k] = 0
  /\ rstate' = "done"
  /\ UNCHANGED <<rpending, presented, rstart, rend, rfilter, rexpect, rcancel>>
  /\ UNCHANGED <<chain, stored, events, latest, trimDue, writerVars>>

\* The request's context is cancelled (client gone, deadline passed) while
\* the row loop runs; the loop never looks at ctx, so nothing else changes.
Cancel ==
  /\ rstate = "scan"
  /\ rcancel = NoCancel
  /\ rcancel' = Len(presented)
  /\ UNCHANGED <<rstate, rstart, rend, rfilter, rpending, presented, rexpect>>
  /\ UNCHANGED <<chain, stored, events, latest, trimDue, writerVars>>

-----------------------------------------------------------------------------
(* The specification.                                                      *)

Init ==
  /\ chain \in [Ledger -> Blocks]
  /\ stored = {}
  /\ events = NoRows
  /\ latest = 0
  /\ wopen = FALSE
  /\ wseq = StartLedger
  /\ widx = 1
  /\ wrows = NoRows
  /\ trimDue = FALSE
  /\ rstate = "idle"
  /\ rstart = MinCursor
  /\ rend = MinCursor
  /\ rfilter = {}
  /\ rpending = NoRows
  /\ presented = <<>>
  /\ rexpect = {}
  /\ rcancel = NoCancel

Next ==
  \/ BeginIngest
  \/ InsertEventsSkip
  \/ InsertEventsExec
  \/ CommitIngest
  \/ AbortIngest
  \/ TrimLedgers
  \/ Crash
  \/ \E s \in QueryStarts, e \in QueryEnds, f \in QueryFilters :
       GetEventsSelect(s, e, f) \/ GetEventsSelectFail(s, e, f)
  \/ \E k \in RowKey : ScanRow(k)
  \/ \E k \in RowKey : StopScan(k)
  \/ ScanDone
  \/ Cancel

Spec == Init /\ [][Next]_vars

-----------------------------------------------------------------------------
(* Properties.                                                             *)

TypeOK ==
  /\ chain \in [Ledger -> Blocks]
  /\ stored \subseteq Ledger
  /\ events \in [RowKey -> Nat]
  /\ latest \in {0} \cup Ledger
  /\ wopen \in BOOLEAN
  /\ wseq \in Ledger
  /\ widx \in Nat \ {0}
  /\ wrows \in [RowKey -> Nat]
  /\ trimDue \in BOOLEAN
  /\ rstate \in {"idle", "scan", "done", "stopped", "error"}
  /\ rstart \in Cursor
  /\ rend \in Cursor
  /\ rfilter \in SUBSET Contracts
  /\ rpending \in [RowKey -> Nat]
  /\ presented \in Seq([cursor : Cursor, contract : ContractOpt])
  /\ rexpect \in SUBSET Cursor
  /\ rcancel \in {NoCancel} \cup Nat

\* The number of rows the events table should hold for key k, read off the
\* LCM: one per diagnostic event of contract k[3] of transaction k[2], if
\* that transaction succeeded.
RowCount(k) ==
  IF k[2] <= Len(chain[k[1]]) /\ chain[k[1]][k[2]].ok
  THEN Occ(chain[k[1]][k[2]].events, k[3]) ELSE 0

\* The committed events table is exactly the index of the stored ledgers of
\* the retention window: every event of a successful transaction once, no
\* row of a failed or rolled-back ingest, of a trimmed ledger, or twice.
\* Breaks if InsertEvents indexes failed transactions or mis-numbers them,
\* if an aborted ingest leaves rows behind, or if trimEvents's cutoff is off.
IndexMatchesStore ==
  \A k \in RowKey :
    events[k] = IF k[1] \in stored /\ Retained(k[1]) THEN RowCount(k) ELSE 0

\* The ledger store holds every ingested ledger of the retention window and
\* nothing past meta.latest, whatever the order of commits, aborts, trims
\* and crashes (the store may hold more than the window until a trim runs).
RetainedLedgersStored ==
  /\ \A l \in stored : l <= latest
  /\ \A l \in Ledger : l <= latest /\ Retained(l) => l \in stored

\* Every event GetEvents hands to the visitor belongs to a successful
\* transaction of a ledger in [Start.Ledger, End.Ledger), and, under a
\* contract filter, to a transaction with an event of a requested contract.
ScanSound ==
  \A i \in 1..Len(presented) :
    LET c == presented[i].cursor
        tx == chain[c[1]][c[2]]
    IN /\ rstart[1] <= c[1]
       /\ c[1] < rend[1]
       /\ tx.ok
       /\ rfilter # {} => \E j \in 1..Len(tx.events) : tx.events[j] \in rfilter

\* GetEvents's contract (spec 4.3, 8.4): no event outside [Start, End) is
\* presented.
ScanInRange ==
  \A i \in 1..Len(presented) : InCursorRange(presented[i].cursor, rstart, rend)

\* GetEvents's contract (spec 8.3): with a contract filter, every event
\* presented is of a requested contract.
ScanFilterSound ==
  rfilter # {} => \A i \in 1..Len(presented) : presented[i].contract \in rfilter

\* GetEvents's contract (spec 4.3, 8.2): the visitor sees strictly
\* increasing cursors.
ScanCursorsIncrease ==
  \A i \in 1..(Len(presented) - 1) :
    CursorLess(presented[i].cursor, presented[i + 1].cursor)

\* GetEvents's contract (spec 4.3): a scan the visitor did not stop presents
\* every committed event of the range and filter at the time of its SELECT.
ScanComplete ==
  rstate = "done" =>
    \A c \in rexpect : \E i \in 1..Len(presented) : presented[i].cursor = c

\* Spec section 5 (cancellation and timeouts): a GetEvents call whose
\* context is cancelled during the scan makes no further visitor call.
ScanHonoursCancel == rcancel # NoCancel => Len(presented) = rcancel

-----------------------------------------------------------------------------
(* The inductive invariant the proofs rest on (EventIndex_proofs).         *)

\* The rows InsertEvents has written for the transactions before idx.
PartialRows(seq, idx) ==
  [k \in RowKey |-> IF k[1] = seq /\ k[2] < idx THEN RowCount(k) ELSE 0]

\* The store holds nothing past meta.latest.
StoreBelowLatest == \A l \in stored : l <= latest

\* An open ingest is for the ledger after meta.latest and has written
\* exactly the rows of the transactions it has read.
WriterInv ==
  wopen =>
    /\ wseq = NextLedger
    /\ widx \in 1..(Len(chain[wseq]) + 1)
    /\ wrows = PartialRows(wseq, widx)

\* Every selected row that is still to scan names a transaction of its LCM.
PendingReal == \A k \in RowKey : rpending[k] > 0 => k[2] <= Len(chain[k[1]])

IInv ==
  /\ TypeOK
  /\ StoreBelowLatest
  /\ WriterInv
  /\ PendingReal
  /\ IndexMatchesStore
  /\ RetainedLedgersStored
=============================================================================
