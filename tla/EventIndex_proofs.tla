------------------------- MODULE EventIndex_proofs -------------------------
(***************************************************************************)
(* Proofs about EventIndex: the type invariant, and that the committed    *)
(* events table always is the index of the stored ledgers of the          *)
(* retention window (IndexMatchesStore), for every value of the constants. *)
(***************************************************************************)
EXTENDS EventIndex, FiniteSetTheorems, SequenceTheorems, TLAPS

USE U32Assumption, LedgerAssumption, MaxTxAssumption, RetentionAssumption
USE DEF Cursor, ContractOpt, Tx, Ledger, TxIndex, RowKey

-----------------------------------------------------------------------------
(* Lemmas on the constants and the row operators.                          *)

\* A transaction of an LCM upstream may close is a Tx whose position and
\* number of events fit a uint32.
LEMMA TxOfBlock ==
  ASSUME NEW b \in Blocks, NEW t \in 1..Len(b)
  PROVE  /\ b[t] \in Tx
         /\ b[t].events \in Seq(ContractOpt)
         /\ Len(b[t].events) < U32
         /\ Len(b[t].events) \in Nat
         /\ t \in TxIndex
<1>1. b \in Seq(Tx) /\ Len(b) <= MaxTx /\ Len(b[t].events) < U32
  BY BlocksAssumption, Zenon
<1>2. b[t] \in Tx
  BY <1>1, ElementOfSeq, Zenon
<1>3. Len(b[t].events) \in Nat
  BY <1>2, LenProperties, Zenon
<1>. QED
  BY <1>1, <1>2, <1>3

\* An LCM holds at most MaxTx transactions.
LEMMA BlockLen ==
  ASSUME NEW b \in Blocks
  PROVE  Len(b) \in 0..MaxTx
<1>1. b \in Seq(Tx) /\ Len(b) <= MaxTx
  BY BlocksAssumption, Zenon
<1>2. Len(b) \in Nat
  BY <1>1, LenProperties, Zenon
<1>. QED
  BY <1>1, <1>2

\* Occ counts a finite set, so it is a natural number.
LEMMA OccNat ==
  ASSUME NEW evs \in Seq(ContractOpt), NEW c
  PROVE  Occ(evs, c) \in Nat
<1>1. IsFiniteSet(1..Len(evs))
  BY FS_Interval, LenProperties
<1>2. IsFiniteSet({i \in 1..Len(evs) : evs[i] = c})
  BY <1>1, FS_Subset
<1>. QED
  BY <1>2, FS_CardinalityType DEF Occ

\* A transaction without events has no row of any contract.
LEMMA OccEmpty ==
  ASSUME NEW evs \in Seq(ContractOpt), Len(evs) = 0, NEW c
  PROVE  Occ(evs, c) = 0
<1>1. {i \in 1..Len(evs) : evs[i] = c} = {}
  OBVIOUS
<1>. QED
  BY <1>1, FS_EmptySet DEF Occ

\* The visitor calls of a row form a sequence of (cursor, contract) pairs.
LEMMA RowEventsType ==
  ASSUME TypeOK, NEW k \in RowKey, k[2] <= Len(chain[k[1]]),
         NEW n \in 0..Len(chain[k[1]][k[2]].events)
  PROVE  RowEvents(k, n) \in Seq([cursor : Cursor, contract : ContractOpt])
<1> DEFINE evs == chain[k[1]][k[2]].events
<1>0. chain[k[1]] \in Blocks /\ k[2] \in 1..Len(chain[k[1]])
  BY DEF TypeOK
<1>1. evs \in Seq(ContractOpt) /\ Len(evs) < U32 /\ k[2] \in 1..Len(chain[k[1]])
  BY <1>0, TxOfBlock
<1>2. \A i \in 1..n : [cursor |-> <<k[1], k[2], i - 1>>, contract |-> evs[i]]
                        \in [cursor : Cursor, contract : ContractOpt]
  <2> SUFFICES ASSUME NEW i \in 1..n
               PROVE  [cursor |-> <<k[1], k[2], i - 1>>, contract |-> evs[i]]
                        \in [cursor : Cursor, contract : ContractOpt]
    OBVIOUS
  <2>0. i \in 1..Len(evs)
    BY <1>1
  <2>1. evs[i] \in ContractOpt
    BY <1>1, <2>0, ElementOfSeq, Zenon
  <2>2. <<k[1], k[2], i - 1>> \in Cursor
    BY <1>1
  <2>. QED
    BY <2>1, <2>2
<1>3. n \in Nat
  OBVIOUS
<1>4. [i \in 1..n |-> [cursor |-> <<k[1], k[2], i - 1>>, contract |-> evs[i]]]
        \in [1..n -> [cursor : Cursor, contract : ContractOpt]]
  BY <1>2
<1>. QED
  BY <1>3, <1>4, SeqDef DEF RowEvents

\* A uint32 sum that does not reach 2^32 does not wrap.
LEMMA ModSmall ==
  ASSUME NEW x \in Nat, NEW m \in Nat \ {0}, x < m
  PROVE  x % m = x
  BY Z3

-----------------------------------------------------------------------------
(* Facts about meta.latest.                                                *)

\* The next ledger to ingest lies past meta.latest, and adding one to a
\* ledger sequence never wraps around in uint32 while MaxLedger + 1 < U32.
LEMMA NextLedgerFacts ==
  ASSUME TypeOK
  PROVE  /\ NextLedger \in Nat
         /\ NextLedger > latest
         /\ NextLedger >= StartLedger
         /\ NextLedger <= MaxLedger => NextLedger \in Ledger
         /\ (latest + 1) % U32 = latest + 1
<1>1. latest \in Nat /\ latest + 1 < U32
  BY DEF TypeOK
<1>2. (latest + 1) % U32 = latest + 1
  BY <1>1, ModSmall
<1>. QED
  BY <1>1, <1>2 DEF TypeOK, NextLedger

\* The number of rows an event-table key should have is a natural number.
LEMMA RowCountNat ==
  ASSUME TypeOK, NEW k \in RowKey
  PROVE  RowCount(k) \in Nat
<1>1. CASE k[2] <= Len(chain[k[1]])
  <2>1. chain[k[1]] \in Blocks /\ k[2] \in 1..Len(chain[k[1]])
    BY <1>1 DEF TypeOK
  <2>2. chain[k[1]][k[2]].events \in Seq(ContractOpt)
    BY <2>1, TxOfBlock
  <2>. QED
    BY <2>2, OccNat DEF RowCount
<1>2. CASE ~(k[2] <= Len(chain[k[1]]))
  BY <1>2 DEF RowCount
<1>. QED
  BY <1>1, <1>2

-----------------------------------------------------------------------------
(* The inductive invariant.                                                *)

\* IInv without IndexMatchesStore: what every step keeps as long as the
\* committed rows name transactions of their LCMs (EventsReal).  The
\* migration proofs use it in the phase where the table holds one ledger
\* more than the window.
CoreInv ==
  /\ TypeOK
  /\ StoreBelowLatest
  /\ WriterInv
  /\ PendingReal
  /\ RetainedLedgersStored

EventsReal == \A k \in RowKey : events[k] > 0 => k[2] <= Len(chain[k[1]])

\* The index invariant makes every committed row real.
LEMMA IndexReal == IndexMatchesStore => EventsReal
BY DEF IndexMatchesStore, EventsReal, RowCount

LEMMA InitIInv == Init => IInv
<1> SUFFICES ASSUME Init PROVE IInv
  OBVIOUS
<1>1. TypeOK
  <2>1. presented \in Seq([cursor : Cursor, contract : ContractOpt])
    BY EmptySeq DEF Init
  <2>2. rstart \in Cursor /\ rend \in Cursor
    BY DEF Init, MinCursor
  <2>3. events \in [RowKey -> Nat] /\ wrows \in [RowKey -> Nat]
        /\ rpending \in [RowKey -> Nat]
    BY DEF Init, NoRows
  <2>4. wseq \in Ledger /\ latest \in {0} \cup Ledger /\ widx \in Nat \ {0}
    BY DEF Init
  <2>. QED
    BY <2>1, <2>2, <2>3, <2>4, Zenon DEF Init, TypeOK
<1>2. StoreBelowLatest /\ WriterInv /\ PendingReal /\ RetainedLedgersStored
  BY DEF Init, StoreBelowLatest, WriterInv, PendingReal, NoRows,
         RetainedLedgersStored
<1>3. IndexMatchesStore
  BY DEF Init, IndexMatchesStore, NoRows
<1>. QED
  BY <1>1, <1>2, <1>3 DEF IInv

\* The steps that leave the ingestion state alone keep the core invariants.
LEMMA WriterSideUnchanged ==
  ASSUME CoreInv,
         UNCHANGED <<chain, stored, events, latest, writerVars>>
  PROVE  /\ StoreBelowLatest'
         /\ WriterInv'
         /\ RetainedLedgersStored'
  BY DEF CoreInv, StoreBelowLatest, WriterInv, RetainedLedgersStored,
         writerVars, NextLedger, PartialRows, RowCount, Retained

\* The steps that leave the tables, meta.latest and the scan's rows alone
\* keep the core invariants.
LEMMA IndexSideUnchanged ==
  ASSUME CoreInv,
         UNCHANGED <<chain, stored, events, latest, rpending>>
  PROVE  /\ StoreBelowLatest'
         /\ PendingReal'
         /\ RetainedLedgersStored'
  BY DEF CoreInv, StoreBelowLatest, PendingReal, RetainedLedgersStored,
         RowCount, Retained

\* The transaction InsertEvents reads next is a Tx of the LCM being ingested.
LEMMA CurrentTx ==
  ASSUME TypeOK, wopen, widx <= Len(chain[wseq])
  PROVE  /\ widx \in 1..Len(chain[wseq])
         /\ chain[wseq][widx] \in Tx
         /\ chain[wseq][widx].events \in Seq(ContractOpt)
<1>1. chain[wseq] \in Blocks /\ widx \in 1..Len(chain[wseq])
  BY DEF TypeOK
<1>. QED
  BY <1>1, TxOfBlock

\* Every step keeps the invariants other than IndexMatchesStore, given that
\* every committed row names a transaction of its LCM.
LEMMA NextCoreInv == CoreInv /\ EventsReal /\ [Next]_vars => CoreInv'
<1> SUFFICES ASSUME CoreInv, EventsReal, [Next]_vars PROVE CoreInv'
  OBVIOUS
<1>0. TypeOK
  BY DEF CoreInv
<1>1. CASE BeginIngest
  <2>1. wseq' \in Ledger /\ widx' \in Nat \ {0} /\ wrows' \in [RowKey -> Nat]
    BY <1>0, <1>1, NextLedgerFacts DEF BeginIngest, NoRows
  <2>2. TypeOK'
    BY <1>0, <1>1, <2>1, Zenon DEF BeginIngest, TypeOK, readerVars
  <2>3. WriterInv'
    <3>1. wseq' = NextLedger' /\ widx' \in 1..(Len(chain'[wseq']) + 1)
      BY <1>1, <2>2, BlockLen DEF BeginIngest, NextLedger, TypeOK
    <3>2. (wrows = PartialRows(wseq, widx))'
      BY <1>1 DEF BeginIngest, NoRows, PartialRows
    <3>. QED
      BY <3>1, <3>2 DEF WriterInv
  <2>4. StoreBelowLatest' /\ PendingReal' /\ RetainedLedgersStored'
    BY <1>1 DEF BeginIngest, CoreInv, StoreBelowLatest, PendingReal,
                RetainedLedgersStored, RowCount, Retained,
                readerVars
  <2>. QED
    BY <2>2, <2>3, <2>4 DEF CoreInv
<1>2. CASE InsertEventsSkip
  <2> DEFINE tx == chain[wseq][widx]
  <2>1. widx \in 1..Len(chain[wseq]) /\ tx.events \in Seq(ContractOpt)
    BY <1>0, <1>2, CurrentTx DEF InsertEventsSkip
  <2>2. TypeOK'
    <3>1. widx' \in Nat \ {0}
      BY <1>2, <2>1 DEF InsertEventsSkip
    <3>. QED
      BY <1>0, <1>2, <3>1, Zenon DEF InsertEventsSkip, TypeOK, readerVars
  <2>3. WriterInv'
    <3>1. \A k \in RowKey : k[1] = wseq /\ k[2] = widx => RowCount(k) = 0
      <4> SUFFICES ASSUME NEW k \in RowKey, k[1] = wseq, k[2] = widx
                   PROVE  RowCount(k) = 0
        OBVIOUS
      <4>1. CASE ~tx.ok
        BY <4>1 DEF RowCount
      <4>2. CASE Len(tx.events) = 0
        BY <4>2, <2>1, OccEmpty DEF RowCount
      <4>. QED
        BY <4>1, <4>2, <1>2 DEF InsertEventsSkip
    <3>2. wrows = PartialRows(wseq, widx + 1)
      BY <3>1, <1>2 DEF CoreInv, WriterInv, PartialRows, InsertEventsSkip
    <3>. QED
      BY <1>2, <2>1, <3>2 DEF CoreInv, WriterInv, InsertEventsSkip, NextLedger,
                              PartialRows, RowCount
  <2>4. StoreBelowLatest' /\ PendingReal' /\ RetainedLedgersStored'
    BY <1>2, IndexSideUnchanged DEF InsertEventsSkip, readerVars
  <2>. QED
    BY <2>2, <2>3, <2>4 DEF CoreInv
<1>3. CASE InsertEventsExec
  <2> DEFINE tx == chain[wseq][widx]
  <2>1. widx \in 1..Len(chain[wseq]) /\ tx.events \in Seq(ContractOpt)
    BY <1>0, <1>3, CurrentTx DEF InsertEventsExec
  <2>2. TxRows(wseq, widx, tx) \in [RowKey -> Nat]
    BY <2>1, OccNat DEF TxRows
  <2>0. /\ tx.ok
        /\ wrows' = AddRows(wrows, TxRows(wseq, widx, tx))
        /\ widx' = widx + 1
    BY <1>3 DEF InsertEventsExec
  <2>3. TypeOK'
    <3>1. widx' \in Nat \ {0} /\ wrows' \in [RowKey -> Nat]
      <4>1. wrows \in [RowKey -> Nat]
        BY <1>0 DEF TypeOK
      <4>. QED
        BY <4>1, <2>0, <2>1, <2>2 DEF AddRows
    <3>. QED
      BY <1>0, <1>3, <3>1, Zenon DEF InsertEventsExec, TypeOK, readerVars
  <2>4. WriterInv'
    <3>0. wrows = PartialRows(wseq, widx)
      BY <1>3 DEF CoreInv, WriterInv, InsertEventsExec
    <3>1. AddRows(wrows, TxRows(wseq, widx, tx)) = PartialRows(wseq, widx + 1)
      <4> SUFFICES ASSUME NEW k \in RowKey
                   PROVE  wrows[k] + TxRows(wseq, widx, tx)[k]
                            = PartialRows(wseq, widx + 1)[k]
        BY DEF AddRows, PartialRows
      <4>1. CASE k[1] = wseq /\ k[2] = widx
        <5>1. RowCount(k) = Occ(tx.events, k[3])
          BY <4>1, <2>0, <2>1 DEF RowCount
        <5>2. Occ(tx.events, k[3]) \in Nat
          BY <2>1, OccNat
        <5>. QED
          BY <4>1, <5>1, <5>2, <3>0 DEF PartialRows, TxRows
      <4>2. CASE ~(k[1] = wseq /\ k[2] = widx)
        <5>1. wrows[k] \in Nat
          BY <1>0 DEF TypeOK
        <5>. QED
          BY <4>2, <5>1, <3>0, <2>1 DEF PartialRows, TxRows
      <4>. QED
        BY <4>1, <4>2
    <3>. QED
      BY <1>3, <2>1, <3>1 DEF CoreInv, WriterInv, InsertEventsExec, NextLedger,
                              PartialRows, RowCount
  <2>5. StoreBelowLatest' /\ PendingReal' /\ RetainedLedgersStored'
    BY <1>3, IndexSideUnchanged DEF InsertEventsExec, readerVars
  <2>. QED
    BY <2>3, <2>4, <2>5 DEF CoreInv
<1>4. CASE CommitIngest
  <2> DEFINE W == RetentionWindow
  <2>0. /\ widx = Len(chain[wseq]) + 1
        /\ wrows = PartialRows(wseq, widx)
        /\ wseq \in Ledger
        /\ wseq > latest
        /\ wseq \notin stored
        /\ (wseq + 1) % U32 = wseq + 1
    <3>1. wseq = NextLedger /\ widx \in 1..(Len(chain[wseq]) + 1)
          /\ wrows = PartialRows(wseq, widx)
      BY <1>4 DEF CoreInv, WriterInv, CommitIngest
    <3>2. wseq \in Ledger /\ widx > Len(chain[wseq])
      BY <1>0, <1>4 DEF TypeOK, CommitIngest
    <3>3. wseq > latest
      BY <1>0, <3>1, NextLedgerFacts
    <3>4. wseq \notin stored
      BY <3>3, <1>0 DEF CoreInv, StoreBelowLatest, TypeOK
    <3>5. (wseq + 1) % U32 = wseq + 1
      BY <3>2, ModSmall
    <3>. QED
      BY <3>1, <3>2, <3>3, <3>4, <3>5
  <2>1. /\ stored' = stored \cup {wseq}
        /\ events' = trimEvents(AddRows(events, wrows), wseq)
        /\ latest' = wseq
        /\ UNCHANGED <<chain, rpending>>
        /\ wopen' = FALSE /\ widx' = 1 /\ wrows' = NoRows /\ trimDue' = TRUE
    BY <1>4 DEF CommitIngest, resetWriter, readerVars
  <2>2. events \in [RowKey -> Nat] /\ wrows \in [RowKey -> Nat]
    BY <1>0 DEF TypeOK
  <2>4. TypeOK'
    <3>1. events' \in [RowKey -> Nat]
      BY <2>1, <2>2 DEF trimEvents, AddRows
    <3>2. stored' \subseteq Ledger /\ latest' \in {0} \cup Ledger
      BY <1>0, <2>0, <2>1 DEF TypeOK
    <3>3. wrows' \in [RowKey -> Nat] /\ widx' \in Nat \ {0}
      BY <2>1 DEF NoRows
    <3>. QED
      BY <1>0, <1>4, <2>1, <3>1, <3>2, <3>3, Zenon
      DEF TypeOK, CommitIngest, resetWriter, readerVars
  <2>6. StoreBelowLatest' /\ RetainedLedgersStored'
    <3>1. StoreBelowLatest'
      BY <2>0, <2>1, <1>0 DEF CoreInv, StoreBelowLatest, TypeOK
    <3>2. \A l \in Ledger : l <= wseq /\ l > wseq - W => l \in stored \cup {wseq}
      <4> SUFFICES ASSUME NEW l \in Ledger, l <= wseq, l > wseq - W, l # wseq
                   PROVE  l \in stored
        OBVIOUS
      <4>1. latest # 0 /\ l <= latest /\ l > latest - W
        BY <2>0, <1>0, <1>4 DEF CoreInv, WriterInv, NextLedger, TypeOK,
                                CommitIngest
      <4>. QED
        BY <4>1 DEF CoreInv, RetainedLedgersStored, Retained
    <3>. QED
      BY <3>1, <3>2, <2>1 DEF RetainedLedgersStored, Retained, StoreBelowLatest
  <2>7. WriterInv' /\ PendingReal'
    BY <2>1 DEF WriterInv, CoreInv, PendingReal
  <2>. QED
    BY <2>4, <2>6, <2>7 DEF CoreInv
<1>5. CASE AbortIngest
  <2>1. TypeOK'
    <3>1. wrows' \in [RowKey -> Nat] /\ widx' \in Nat \ {0}
      BY <1>5 DEF AbortIngest, resetWriter, NoRows
    <3>. QED
      BY <1>0, <1>5, <3>1, Zenon DEF AbortIngest, resetWriter, TypeOK,
                                     readerVars
  <2>2. WriterInv'
    BY <1>5 DEF AbortIngest, resetWriter, WriterInv
  <2>3. StoreBelowLatest' /\ PendingReal' /\ RetainedLedgersStored'
    BY <1>5, IndexSideUnchanged DEF AbortIngest, readerVars
  <2>. QED
    BY <2>1, <2>2, <2>3 DEF CoreInv
<1>6. CASE TrimLedgers
  <2> DEFINE W == RetentionWindow
  <2>0. latest \in Nat /\ (latest + 1) % U32 = latest + 1
    BY <1>0, NextLedgerFacts DEF TypeOK
  <2>1. stored' = IF latest + 1 <= W THEN stored
                  ELSE {l \in stored : l >= latest + 1 - W}
    <3>1. stored' = TrimLedgerStore(stored, latest)
      BY <1>6 DEF TrimLedgers
    <3>. QED
      BY <3>1, <2>0 DEF TrimLedgerStore
  <2>2. stored' \subseteq stored
    BY <2>1
  <2>3. \A l \in Ledger : l > latest - W => (l \in stored' <=> l \in stored)
    BY <2>0, <2>1
  <2>4. UNCHANGED <<chain, events, latest, writerVars, readerVars>>
    BY <1>6 DEF TrimLedgers
  <2>5. TypeOK'
    BY <1>0, <1>6, <2>2, <2>4, Zenon DEF TrimLedgers, TypeOK, writerVars,
                                         readerVars
  <2>6. StoreBelowLatest' /\ RetainedLedgersStored'
    BY <2>2, <2>3, <2>4 DEF CoreInv, StoreBelowLatest, RetainedLedgersStored,
                            Retained
  <2>8. WriterInv' /\ PendingReal'
    BY <2>4 DEF CoreInv, WriterInv, PendingReal, NextLedger, PartialRows,
                RowCount, writerVars, readerVars
  <2>. QED
    BY <2>5, <2>6, <2>8 DEF CoreInv
<1>7. CASE Crash
  <2>1. TypeOK'
    <3>1. presented' \in Seq([cursor : Cursor, contract : ContractOpt])
      BY <1>7, EmptySeq DEF Crash
    <3>2. wrows' \in [RowKey -> Nat] /\ rpending' \in [RowKey -> Nat]
          /\ widx' \in Nat \ {0}
      BY <1>7 DEF Crash, resetWriter, NoRows
    <3>. QED
      BY <1>0, <1>7, <3>1, <3>2, Zenon DEF Crash, resetWriter, TypeOK
  <2>2. WriterInv' /\ PendingReal'
    BY <1>7 DEF Crash, resetWriter, WriterInv, PendingReal, NoRows
  <2>3. StoreBelowLatest' /\ RetainedLedgersStored'
    BY <1>7 DEF Crash, CoreInv, StoreBelowLatest,
                RetainedLedgersStored, RowCount, Retained
  <2>. QED
    BY <2>1, <2>2, <2>3 DEF CoreInv
<1>8. ASSUME NEW s \in QueryStarts, NEW e \in QueryEnds,
             NEW f \in QueryFilters, GetEventsSelect(s, e, f)
      PROVE  CoreInv'
  <2>0. UNCHANGED <<chain, stored, events, latest, trimDue, writerVars>>
    BY <1>8 DEF GetEventsSelect
  <2>1. rpending' \in [RowKey -> Nat]
    BY <1>0, <1>8 DEF GetEventsSelect, TypeOK
  <2>2. rexpect' \in SUBSET Cursor
    <3>1. rexpect' \subseteq stored \X TxIndex \X (0..(U32 - 1))
      BY <1>8 DEF GetEventsSelect, ExpectedCursors
    <3>2. stored \subseteq 0..(U32 - 1) /\ TxIndex \subseteq 0..(U32 - 1)
      BY <1>0 DEF TypeOK
    <3>. QED
      BY <3>1, <3>2
  <2>3. rstart' \in Cursor /\ rend' \in Cursor /\ rfilter' \in SUBSET Contracts
    BY <1>8, QueryAssumption DEF GetEventsSelect
  <2>4. presented' \in Seq([cursor : Cursor, contract : ContractOpt])
    BY <1>8, EmptySeq DEF GetEventsSelect
  <2>5. TypeOK'
    BY <1>0, <1>8, <2>0, <2>1, <2>2, <2>3, <2>4, Zenon
    DEF GetEventsSelect, TypeOK, writerVars
  <2>6. PendingReal'
    <3> SUFFICES ASSUME NEW k \in RowKey, rpending'[k] > 0
                 PROVE  k[2] <= Len(chain[k[1]])
      BY <2>0 DEF PendingReal
    <3>1. events[k] > 0
      BY <1>8 DEF GetEventsSelect
    <3>. QED
      BY <3>1 DEF EventsReal
  <2>7. StoreBelowLatest' /\ WriterInv' /\ RetainedLedgersStored'
    BY <2>0, WriterSideUnchanged
  <2>. QED
    BY <2>5, <2>6, <2>7 DEF CoreInv
<1>9. ASSUME NEW s \in QueryStarts, NEW e \in QueryEnds,
             NEW f \in QueryFilters, GetEventsSelectFail(s, e, f)
      PROVE  CoreInv'
  <2>0. UNCHANGED <<chain, stored, events, latest, trimDue, writerVars>>
    BY <1>9 DEF GetEventsSelectFail
  <2>1. presented' \in Seq([cursor : Cursor, contract : ContractOpt])
    BY <1>9, EmptySeq DEF GetEventsSelectFail
  <2>2. TypeOK'
    BY <1>0, <1>9, <2>0, <2>1, Zenon
    DEF GetEventsSelectFail, TypeOK, writerVars, NoRows
  <2>3. PendingReal'
    BY <1>9 DEF GetEventsSelectFail, PendingReal, NoRows
  <2>4. StoreBelowLatest' /\ WriterInv' /\ RetainedLedgersStored'
    BY <2>0, WriterSideUnchanged
  <2>. QED
    BY <2>2, <2>3, <2>4 DEF CoreInv
<1>10. ASSUME NEW k \in RowKey, ScanRow(k) PROVE CoreInv'
  <2>0. UNCHANGED <<chain, stored, events, latest, trimDue, writerVars>>
    BY <1>10 DEF ScanRow
  <2>1. rpending[k] > 0 /\ k[2] <= Len(chain[k[1]])
    BY <1>10 DEF ScanRow, NextRow, CoreInv, PendingReal
  <2>9. /\ rpending \in [RowKey -> Nat]
        /\ rpending' = [rpending EXCEPT ![k] = @ - 1]
    BY <1>0, <1>10 DEF ScanRow, TypeOK
  <2>2. rpending' \in [RowKey -> Nat]
    BY <2>1, <2>9
  <2>3. presented' \in Seq([cursor : Cursor, contract : ContractOpt])
    <3>0. chain[k[1]] \in Blocks /\ k[2] \in 1..Len(chain[k[1]])
      BY <1>0, <2>1 DEF TypeOK
    <3>1. Len(chain[k[1]][k[2]].events) \in Nat
      BY <3>0, TxOfBlock
    <3>2. RowEvents(k, Len(chain[k[1]][k[2]].events))
            \in Seq([cursor : Cursor, contract : ContractOpt])
      <4>1. Len(chain[k[1]][k[2]].events) \in 0..Len(chain[k[1]][k[2]].events)
        BY <3>1
      <4>. QED
        BY <1>0, <2>1, <4>1, RowEventsType, Zenon
    <3>. QED
      BY <1>0, <1>10, <3>2, ConcatProperties DEF ScanRow, TypeOK
  <2>4. TypeOK'
    BY <1>0, <1>10, <2>0, <2>2, <2>3, Zenon DEF ScanRow, TypeOK, writerVars
  <2>5. PendingReal'
    <3> SUFFICES ASSUME NEW j \in RowKey, rpending'[j] > 0
                 PROVE  j[2] <= Len(chain'[j[1]])
      BY DEF PendingReal
    <3>1. rpending[j] > 0
      BY <2>9
    <3>. QED
      BY <3>1, <2>0 DEF CoreInv, PendingReal
  <2>6. StoreBelowLatest' /\ WriterInv' /\ RetainedLedgersStored'
    BY <2>0, WriterSideUnchanged
  <2>. QED
    BY <2>4, <2>5, <2>6 DEF CoreInv
<1>11. ASSUME NEW k \in RowKey, StopScan(k) PROVE CoreInv'
  <2>0. UNCHANGED <<chain, stored, events, latest, trimDue, writerVars>>
    BY <1>11 DEF StopScan
  <2>1. k[2] <= Len(chain[k[1]])
    BY <1>11 DEF StopScan, NextRow, CoreInv, PendingReal
  <2>2. PICK n \in 1..Len(chain[k[1]][k[2]].events) :
          presented' = presented \o RowEvents(k, n)
    BY <1>11 DEF StopScan
  <2>3. presented' \in Seq([cursor : Cursor, contract : ContractOpt])
    <3>1. RowEvents(k, n) \in Seq([cursor : Cursor, contract : ContractOpt])
      <4>1. n \in 0..Len(chain[k[1]][k[2]].events)
        <5>0. chain[k[1]] \in Blocks /\ k[2] \in 1..Len(chain[k[1]])
          BY <1>0, <2>1 DEF TypeOK
        <5>1. Len(chain[k[1]][k[2]].events) \in Nat
          BY <5>0, TxOfBlock
        <5>. QED
          BY <5>1
      <4>. QED
        BY <1>0, <2>1, <4>1, RowEventsType, Zenon
    <3>. QED
      BY <1>0, <2>2, <3>1, ConcatProperties DEF TypeOK
  <2>4. rpending' \in [RowKey -> Nat]
    BY <1>11 DEF StopScan, NoRows
  <2>5. TypeOK'
    BY <1>0, <1>11, <2>0, <2>3, <2>4, Zenon DEF StopScan, TypeOK, writerVars
  <2>6. PendingReal'
    BY <1>11 DEF StopScan, PendingReal, NoRows
  <2>7. StoreBelowLatest' /\ WriterInv' /\ RetainedLedgersStored'
    BY <2>0, WriterSideUnchanged
  <2>. QED
    BY <2>5, <2>6, <2>7 DEF CoreInv
<1>12. CASE ScanDone
  <2>1. TypeOK'
    BY <1>0, <1>12, Zenon DEF ScanDone, TypeOK, writerVars
  <2>2. UNCHANGED <<chain, stored, events, latest, writerVars, rpending>>
    BY <1>12 DEF ScanDone
  <2>3. WriterInv' /\ PendingReal'
    BY <2>2 DEF CoreInv, WriterInv, PendingReal, NextLedger, PartialRows,
                RowCount, writerVars
  <2>4. StoreBelowLatest' /\ RetainedLedgersStored'
    BY <2>2, IndexSideUnchanged
  <2>. QED
    BY <2>1, <2>3, <2>4 DEF CoreInv
<1>13. CASE UNCHANGED vars
  BY <1>13 DEF vars, writerVars, readerVars, CoreInv, TypeOK, StoreBelowLatest,
               WriterInv, PendingReal,
               RetainedLedgersStored, NextLedger, PartialRows, RowCount,
               Retained
<1>14. CASE Cancel
  <2>1. presented \in Seq([cursor : Cursor, contract : ContractOpt])
    BY <1>0 DEF TypeOK
  <2>2. rcancel' \in {NoCancel} \cup Nat
    BY <1>14, <2>1, LenProperties DEF Cancel
  <2>3. TypeOK'
    BY <1>0, <1>14, <2>2, Zenon DEF Cancel, TypeOK, writerVars
  <2>4. UNCHANGED <<chain, stored, events, latest, writerVars, rpending>>
    BY <1>14 DEF Cancel
  <2>5. WriterInv' /\ PendingReal'
    BY <2>4 DEF CoreInv, WriterInv, PendingReal, NextLedger, PartialRows,
                RowCount, writerVars
  <2>6. StoreBelowLatest' /\ RetainedLedgersStored'
    BY <2>4, IndexSideUnchanged
  <2>. QED
    BY <2>3, <2>5, <2>6 DEF CoreInv
<1>. QED
  BY <1>1, <1>2, <1>3, <1>4, <1>5, <1>6, <1>7, <1>8, <1>9, <1>10, <1>11,
     <1>12, <1>13, <1>14 DEF Next

\* A commit on a table that indexes the stored ledgers from lo on, where
\* every stored ledger the commit's window keeps is at least lo, leaves the
\* table the index of the retention window.
LEMMA CommitIndex ==
  ASSUME CoreInv, CommitIngest, NEW lo \in Int,
         \A k \in RowKey :
           events[k] = IF k[1] \in stored /\ k[1] >= lo THEN RowCount(k) ELSE 0,
         \A l \in stored : l > wseq - RetentionWindow => l >= lo
  PROVE  IndexMatchesStore'
<1> DEFINE W == RetentionWindow
<1>0. TypeOK
  BY DEF CoreInv
<1>1. /\ widx = Len(chain[wseq]) + 1
      /\ wrows = PartialRows(wseq, widx)
      /\ wseq \in Ledger
      /\ wseq > latest
      /\ wseq \notin stored
      /\ (wseq + 1) % U32 = wseq + 1
  <2>1. wseq = NextLedger /\ widx \in 1..(Len(chain[wseq]) + 1)
        /\ wrows = PartialRows(wseq, widx)
    BY DEF CoreInv, WriterInv, CommitIngest
  <2>2. wseq \in Ledger /\ widx > Len(chain[wseq])
    BY <1>0 DEF TypeOK, CommitIngest
  <2>3. wseq > latest
    BY <1>0, <2>1, NextLedgerFacts
  <2>4. wseq \notin stored
    BY <2>3, <1>0 DEF CoreInv, StoreBelowLatest, TypeOK
  <2>5. (wseq + 1) % U32 = wseq + 1
    BY <2>2, ModSmall
  <2>6. Len(chain[wseq]) \in Nat
    BY <2>2, <1>0, BlockLen DEF TypeOK
  <2>. QED
    BY <2>1, <2>2, <2>3, <2>4, <2>5, <2>6
<1>2. /\ stored' = stored \cup {wseq}
      /\ events' = trimEvents(AddRows(events, wrows), wseq)
      /\ latest' = wseq
      /\ chain' = chain
  BY DEF CommitIngest
<1>3. events \in [RowKey -> Nat] /\ wrows \in [RowKey -> Nat]
  BY <1>0 DEF TypeOK
<1>4. \A k \in RowKey :
        events'[k] = IF wseq + 1 > W /\ k[1] < wseq + 1 - W
                     THEN 0 ELSE events[k] + wrows[k]
  BY <1>1, <1>2 DEF trimEvents, AddRows
<1> SUFFICES ASSUME NEW k \in RowKey
             PROVE  events'[k] = IF k[1] \in stored' /\ k[1] > latest' - W
                                 THEN RowCount(k) ELSE 0
  BY <1>2 DEF IndexMatchesStore, Retained, RowCount
<1>5. events[k] = IF k[1] \in stored /\ k[1] >= lo THEN RowCount(k) ELSE 0
  OBVIOUS
<1>6. events'[k] = IF wseq + 1 > W /\ k[1] < wseq + 1 - W
                   THEN 0 ELSE events[k] + wrows[k]
  BY <1>4
<1>7. CASE k[1] = wseq
  <2>1. events[k] = 0
    BY <1>5, <1>7, <1>1
  <2>2. wrows[k] = RowCount(k)
    BY <1>7, <1>1 DEF PartialRows, RowCount
  <2>3. RowCount(k) \in Nat
    BY <1>0, RowCountNat
  <2>4. events'[k] = events[k] + wrows[k]
    BY <1>6, <1>7
  <2>5. k[1] \in stored' /\ k[1] > latest' - W
    BY <1>7, <1>1, <1>2
  <2>. QED
    BY <2>1, <2>2, <2>3, <2>4, <2>5
<1>8. CASE k[1] # wseq
  <2>1. wrows[k] = 0
    BY <1>8, <1>1 DEF PartialRows
  <2>2. events[k] \in Nat
    BY <1>3
  <2>3. k[1] \in stored' <=> k[1] \in stored
    BY <1>8, <1>2
  <2>0. k[1] \in Nat /\ wseq \in Nat /\ W \in Nat
    BY <1>1
  <2>4. CASE wseq + 1 > W /\ k[1] < wseq + 1 - W
    <3>1. events'[k] = 0
      BY <2>4, <1>6
    <3>2. ~(k[1] > latest' - W)
      BY <2>4, <2>0, <1>2
    <3>. QED
      BY <3>1, <3>2
  <2>5. CASE ~(wseq + 1 > W /\ k[1] < wseq + 1 - W)
    <3>1. events'[k] = events[k]
      BY <2>5, <1>6, <2>1, <2>2
    <3>2. k[1] > wseq - W
      BY <2>5, <2>0
    <3>3. k[1] \in stored => k[1] >= lo
      BY <3>2
    <3>4. k[1] > latest' - W
      BY <3>2, <1>2
    <3>. QED
      BY <3>1, <3>3, <3>4, <2>3, <1>5
  <2>. QED
    BY <2>4, <2>5
<1>. QED
  BY <1>7, <1>8

\* Every step keeps IndexMatchesStore.
LEMMA NextIndex == IInv /\ [Next]_vars => IndexMatchesStore'
<1> SUFFICES ASSUME IInv, [Next]_vars PROVE IndexMatchesStore'
  OBVIOUS
<1> DEFINE W == RetentionWindow
<1>0. TypeOK /\ latest \in Nat
  BY DEF IInv, TypeOK
<1>1. CASE CommitIngest
  <2>1. wseq > latest /\ wseq \in Nat
    BY <1>0, <1>1, NextLedgerFacts DEF IInv, WriterInv, CommitIngest, TypeOK
  <2>2. \A l \in stored : l > wseq - W => l >= latest - W + 1
    BY <2>1, <1>0 DEF TypeOK
  <2>3. \A k \in RowKey :
          events[k] = IF k[1] \in stored /\ k[1] >= latest - W + 1
                      THEN RowCount(k) ELSE 0
    BY <1>0 DEF IInv, IndexMatchesStore, Retained, TypeOK
  <2>4. CoreInv
    BY DEF IInv, CoreInv
  <2>. QED
    BY <1>1, <2>2, <2>3, <2>4, <1>0, CommitIndex
<1>2. CASE TrimLedgers
  <2>0. latest \in Nat /\ (latest + 1) % U32 = latest + 1
    BY <1>0, NextLedgerFacts
  <2>1. stored' = IF latest + 1 <= W THEN stored
                  ELSE {l \in stored : l >= latest + 1 - W}
    <3>1. stored' = TrimLedgerStore(stored, latest)
      BY <1>2 DEF TrimLedgers
    <3>. QED
      BY <3>1, <2>0 DEF TrimLedgerStore
  <2>2. \A l \in Ledger : l > latest - W => (l \in stored' <=> l \in stored)
    BY <2>0, <2>1
  <2>3. UNCHANGED <<chain, events, latest>>
    BY <1>2 DEF TrimLedgers
  <2>. QED
    BY <2>2, <2>3 DEF IInv, IndexMatchesStore, Retained, RowCount
<1>3. CASE UNCHANGED <<chain, stored, events, latest>>
  BY <1>3 DEF IInv, IndexMatchesStore, Retained, RowCount
<1>4. CASE BeginIngest \/ InsertEventsSkip \/ InsertEventsExec \/ AbortIngest
          \/ Crash \/ ScanDone \/ Cancel
  BY <1>4, <1>3 DEF BeginIngest, InsertEventsSkip, InsertEventsExec,
                    AbortIngest, Crash, ScanDone, Cancel
<1>5. CASE \E s \in QueryStarts, e \in QueryEnds, f \in QueryFilters :
             GetEventsSelect(s, e, f) \/ GetEventsSelectFail(s, e, f)
  BY <1>5, <1>3 DEF GetEventsSelect, GetEventsSelectFail
<1>6. CASE \E k \in RowKey : ScanRow(k) \/ StopScan(k)
  BY <1>6, <1>3 DEF ScanRow, StopScan
<1>7. CASE UNCHANGED vars
  BY <1>7, <1>3 DEF vars
<1>. QED
  BY <1>1, <1>2, <1>4, <1>5, <1>6, <1>7 DEF Next

\* Only a commit changes the events table or meta.latest, no step but a
\* commit sets the pending ledger trim, and only that trim shrinks the store.
LEMMA StepFrame ==
  ASSUME [Next]_vars, ~CommitIngest
  PROVE  /\ UNCHANGED <<chain, events, latest>>
         /\ trimDue' => trimDue
         /\ stored' = stored \/ TrimLedgers
<1>1. CASE BeginIngest \/ InsertEventsSkip \/ InsertEventsExec \/ AbortIngest
  BY <1>1 DEF BeginIngest, InsertEventsSkip, InsertEventsExec, AbortIngest
<1>2. CASE TrimLedgers
  BY <1>2 DEF TrimLedgers
<1>3. CASE Crash \/ ScanDone \/ Cancel
  BY <1>3 DEF Crash, ScanDone, Cancel
<1>4. CASE \E s \in QueryStarts, e \in QueryEnds, f \in QueryFilters :
             GetEventsSelect(s, e, f) \/ GetEventsSelectFail(s, e, f)
  BY <1>4 DEF GetEventsSelect, GetEventsSelectFail
<1>5. CASE \E k \in RowKey : ScanRow(k) \/ StopScan(k)
  BY <1>5 DEF ScanRow, StopScan
<1>6. CASE UNCHANGED vars
  BY <1>6 DEF vars
<1>. QED
  BY <1>1, <1>2, <1>3, <1>4, <1>5, <1>6 DEF Next

\* Every step keeps the inductive invariant.
LEMMA NextIInv == IInv /\ [Next]_vars => IInv'
<1> SUFFICES ASSUME IInv, [Next]_vars PROVE IInv'
  OBVIOUS
<1>1. CoreInv /\ EventsReal
  BY IndexReal DEF IInv, CoreInv
<1>2. CoreInv'
  BY <1>1, NextCoreInv
<1>3. IndexMatchesStore'
  BY NextIndex
<1>. QED
  BY <1>2, <1>3 DEF IInv, CoreInv

-----------------------------------------------------------------------------
(* The theorems.                                                           *)

\* IInv holds in every reachable state of the ingestion task and GetEvents.
THEOREM IInvHolds == Spec => []IInv
<1>1. Init => IInv
  BY InitIInv
<1>2. IInv /\ [Next]_vars => IInv'
  BY NextIInv
<1>. QED
  BY <1>1, <1>2, PTL DEF Spec

\* Type correctness: every variable of the ingestion task and of GetEvents
\* keeps its type whatever the interleaving of ingests, aborts, trims,
\* crashes and scans.
THEOREM TypeCorrect == Spec => []TypeOK
<1>1. IInv => TypeOK
  BY DEF IInv
<1>. QED
  BY IInvHolds, <1>1, PTL

\* The committed events table is always exactly the index of the stored
\* ledgers of the retention window: InsertEvents's rows, the atomic commit
\* and trimEvents's uint32 cutoff together never lose, duplicate or keep a
\* stale row, for every ledger range, window and LCM contents.
THEOREM IndexMatchesStoreHolds == Spec => []IndexMatchesStore
<1>1. IInv => IndexMatchesStore
  BY DEF IInv
<1>. QED
  BY IInvHolds, <1>1, PTL

\* The ledger store holds every ingested ledger of the retention window and
\* none past meta.latest, whatever the order of commits, aborts, post-commit
\* trims and crashes.
THEOREM RetainedLedgersStoredHolds == Spec => []RetainedLedgersStored
<1>1. IInv => RetainedLedgersStored
  BY DEF IInv
<1>. QED
  BY IInvHolds, <1>1, PTL
=============================================================================
