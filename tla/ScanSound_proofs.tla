-------------------------- MODULE ScanSound_proofs --------------------------
(***************************************************************************)
(* Proof that GetEvents only presents events of successful transactions of *)
(* the requested ledgers and, under a filter, of transactions of a         *)
(* requested contract (ScanSound), for every value of the constants.       *)
(***************************************************************************)
EXTENDS EventIndex_proofs, FiniteSetTheorems

(***************************************************************************)
(* ScanSound is not inductive: a ScanRow step presents the events of the   *)
(* row it takes, so the rows still to scan must already be sound.  A       *)
(* selected row is sound because the SELECT read it from the committed    *)
(* table, which IndexMatchesStore ties to the LCMs: a row exists only for  *)
(* an event of a successful transaction.  After the SELECT the pending     *)
(* rows only shrink and the LCMs never change.                            *)
(***************************************************************************)
RowSound(k) ==
  LET tx == chain[k[1]][k[2]] IN
  /\ k[2] <= Len(chain[k[1]])
  /\ tx.ok
  /\ rstart[1] <= k[1] /\ k[1] < rend[1]
  /\ rfilter # {} => \E j \in 1..Len(tx.events) : tx.events[j] \in rfilter

PendingSound == \A k \in RowKey : rpending[k] > 0 => RowSound(k)

ScanInv == PendingSound /\ ScanSound

USE U32Assumption, LedgerAssumption, MaxTxAssumption, RetentionAssumption
USE DEF ContractOpt, Tx, Ledger, TxIndex, RowKey

-----------------------------------------------------------------------------
(* Lemmas.                                                                 *)

\* A contract with a row in a transaction has an event in its list.
LEMMA OccPos ==
  ASSUME NEW evs \in Seq(ContractOpt), NEW c, Occ(evs, c) > 0
  PROVE  \E j \in 1..Len(evs) : evs[j] = c
<1> DEFINE S == {i \in 1..Len(evs) : evs[i] = c}
<1>1. Cardinality(S) > 0
  BY DEF Occ
<1>2. S # {}
  <2> SUFFICES ASSUME S = {} PROVE FALSE
    OBVIOUS
  <2>1. Cardinality(S) = 0
    BY FS_EmptySet
  <2>. QED
    BY <1>1, <2>1
<1>. QED
  BY <1>2

\* A row of the committed table belongs to a successful transaction that
\* has an event of the row's contract.
LEMMA CommittedRowSound ==
  ASSUME IInv, NEW k \in RowKey, events[k] > 0
  PROVE  /\ k[2] <= Len(chain[k[1]])
         /\ chain[k[1]][k[2]].ok
         /\ \E j \in 1..Len(chain[k[1]][k[2]].events) :
              chain[k[1]][k[2]].events[j] = k[3]
<1>1. RowCount(k) > 0
  BY DEF IInv, IndexMatchesStore
<1>2. k[2] <= Len(chain[k[1]]) /\ chain[k[1]][k[2]].ok
      /\ Occ(chain[k[1]][k[2]].events, k[3]) > 0
  BY <1>1 DEF RowCount
<1>3. chain[k[1]][k[2]].events \in Seq(ContractOpt)
  <2>1. chain[k[1]] \in Blocks /\ k[2] \in 1..Len(chain[k[1]])
    BY <1>2 DEF IInv, TypeOK
  <2>. QED
    BY <2>1, TxOfBlock
<1>. QED
  BY <1>2, <1>3, OccPos

\* The visitor calls of a row: what the scan appends to presented, and
\* that every one of them carries the row's ledger and transaction.
LEMMA AppendRowEvents ==
  ASSUME TypeOK, NEW k \in RowKey, k[2] <= Len(chain[k[1]]),
         NEW n \in 0..Len(chain[k[1]][k[2]].events)
  PROVE  LET p == presented \o RowEvents(k, n) IN
         /\ Len(p) = Len(presented) + n
         /\ \A i \in 1..Len(p) :
              \/ i \in 1..Len(presented) /\ p[i] = presented[i]
              \/ p[i].cursor[1] = k[1] /\ p[i].cursor[2] = k[2]
<1>1. RowEvents(k, n) \in Seq([cursor : Cursor, contract : ContractOpt])
  BY RowEventsType
<1>2. presented \in Seq([cursor : Cursor, contract : ContractOpt])
  BY DEF TypeOK
<1>3. n \in Nat /\ Len(RowEvents(k, n)) = n
  BY DEF RowEvents
<1>4. \A i \in 1..n : RowEvents(k, n)[i].cursor = <<k[1], k[2], i - 1>>
  BY DEF RowEvents
<1> DEFINE R == RowEvents(k, n)
           P == presented \o R
<1>5. Len(presented) \in Nat
  BY <1>2, LenProperties
<1>6. /\ Len(P) = Len(presented) + n
      /\ \A i \in 1..Len(presented) + n :
           P[i] = IF i <= Len(presented) THEN presented[i]
                  ELSE R[i - Len(presented)]
  <2>1. /\ Len(P) = Len(presented) + Len(R)
        /\ \A i \in 1..Len(presented) + Len(R) :
             P[i] = IF i <= Len(presented) THEN presented[i]
                    ELSE R[i - Len(presented)]
    <3> DEFINE RecT == [cursor : Cursor, contract : ContractOpt]
    <3>1. \A s1, s2 \in Seq(RecT) :
            /\ Len(s1 \o s2) = Len(s1) + Len(s2)
            /\ \A i \in 1..Len(s1) + Len(s2) :
                 (s1 \o s2)[i] = IF i <= Len(s1) THEN s1[i] ELSE s2[i - Len(s1)]
      BY ConcatProperties
    <3>. QED
      BY <1>1, <1>2, <3>1, Zenon
  <2>. QED
    BY <2>1, <1>3, Zenon
<1>7. ASSUME NEW i \in 1..Len(P), ~(i \in 1..Len(presented))
      PROVE  P[i].cursor[1] = k[1] /\ P[i].cursor[2] = k[2]
  <2>1. i - Len(presented) \in 1..n /\ P[i] = R[i - Len(presented)]
    BY <1>3, <1>5, <1>6, <1>7
  <2>. QED
    BY <2>1, <1>4
<1>. QED
  BY <1>5, <1>6, <1>7

\* A scan that has been reset (no pending rows, nothing presented) is sound.
LEMMA ResetScan ==
  ASSUME rpending' = NoRows, presented' = <<>>
  PROVE  ScanInv'
BY DEF ScanInv, PendingSound, ScanSound, NoRows

\* Steps that leave the scan and the LCMs alone keep the scan invariant.
LEMMA ScanSideUnchanged ==
  ASSUME ScanInv,
         UNCHANGED <<chain, rstart, rend, rfilter, rpending, presented>>
  PROVE  ScanInv'
BY DEF ScanInv, PendingSound, RowSound, ScanSound

-----------------------------------------------------------------------------
(* The invariant.                                                          *)

LEMMA InitScanInv == Init => ScanInv
BY ResetScan DEF Init, ScanInv, PendingSound, ScanSound, NoRows

\* The SELECT keeps only rows of the committed table that match the range
\* and the filter; nothing is presented yet.
LEMMA SelectScanInv ==
  ASSUME IInv, NEW s \in QueryStarts, NEW e \in QueryEnds,
         NEW f \in QueryFilters, GetEventsSelect(s, e, f)
  PROVE  ScanInv'
<1>1. PendingSound'
  <2> SUFFICES ASSUME NEW k \in RowKey, rpending'[k] > 0 PROVE RowSound(k)'
    BY DEF PendingSound
  <2>1. k[1] \in stored /\ RowMatches(k, s, e, f) /\ events[k] > 0
    BY DEF GetEventsSelect
  <2>2. /\ k[2] <= Len(chain[k[1]])
        /\ chain[k[1]][k[2]].ok
        /\ \E j \in 1..Len(chain[k[1]][k[2]].events) :
             chain[k[1]][k[2]].events[j] = k[3]
    BY <2>1, CommittedRowSound
  <2>3. rstart' = s /\ rend' = e /\ rfilter' = f /\ chain' = chain
    BY DEF GetEventsSelect
  <2>4. f # {} => k[3] \in f
    BY <2>1 DEF RowMatches
  <2>5. s[1] <= k[1] /\ k[1] < e[1]
    BY <2>1 DEF RowMatches
  <2>. QED
    BY <2>2, <2>3, <2>4, <2>5 DEF RowSound
<1>2. ScanSound'
  BY DEF GetEventsSelect, ScanSound
<1>. QED
  BY <1>1, <1>2 DEF ScanInv

\* A ScanRow or StopScan step on row k appends the events of k, which is
\* sound since it was pending, and leaves only rows that were pending.
LEMMA RowStepScanInv ==
  ASSUME IInv, ScanInv, NEW k \in RowKey, rstate = "scan", NextRow(k),
         NEW n \in 0..Len(chain[k[1]][k[2]].events),
         presented' = presented \o RowEvents(k, n),
         \A j \in RowKey : rpending'[j] > 0 => rpending[j] > 0,
         UNCHANGED <<chain, rstart, rend, rfilter>>
  PROVE  ScanInv'
<1>1. RowSound(k)
  BY DEF NextRow, ScanInv, PendingSound
<1>2. TypeOK /\ k[2] <= Len(chain[k[1]])
  BY <1>1 DEF IInv, RowSound
<1>3. PendingSound'
  BY DEF ScanInv, PendingSound, RowSound
<1>4. ScanSound'
  <2> SUFFICES ASSUME NEW i \in 1..Len(presented')
               PROVE  LET c == presented'[i].cursor
                          tx == chain'[c[1]][c[2]]
                      IN /\ rstart'[1] <= c[1]
                         /\ c[1] < rend'[1]
                         /\ tx.ok
                         /\ rfilter' # {} =>
                              \E j \in 1..Len(tx.events) : tx.events[j] \in rfilter'
    BY DEF ScanSound
  <2>1. \/ i \in 1..Len(presented) /\ presented'[i] = presented[i]
        \/ presented'[i].cursor[1] = k[1] /\ presented'[i].cursor[2] = k[2]
    BY <1>2, AppendRowEvents
  <2>2. CASE i \in 1..Len(presented) /\ presented'[i] = presented[i]
    BY <2>2 DEF ScanInv, ScanSound
  <2>3. CASE presented'[i].cursor[1] = k[1] /\ presented'[i].cursor[2] = k[2]
    BY <2>3, <1>1 DEF RowSound
  <2>. QED
    BY <2>1, <2>2, <2>3
<1>. QED
  BY <1>3, <1>4 DEF ScanInv

\* Every step keeps the scan invariant, given the index invariant.
LEMMA NextScanInv == IInv /\ ScanInv /\ [Next]_vars => ScanInv'
<1> SUFFICES ASSUME IInv, ScanInv, [Next]_vars PROVE ScanInv'
  OBVIOUS
<1>1. CASE BeginIngest \/ InsertEventsSkip \/ InsertEventsExec \/ AbortIngest
  BY <1>1, ScanSideUnchanged
     DEF BeginIngest, InsertEventsSkip, InsertEventsExec, AbortIngest,
         readerVars
<1>2. CASE CommitIngest \/ TrimLedgers \/ ScanDone \/ Cancel
  BY <1>2, ScanSideUnchanged
     DEF CommitIngest, TrimLedgers, ScanDone, Cancel, readerVars
<1>3. CASE Crash
  BY <1>3, ResetScan DEF Crash
<1>4. ASSUME NEW s \in QueryStarts, NEW e \in QueryEnds,
             NEW f \in QueryFilters, GetEventsSelect(s, e, f)
      PROVE  ScanInv'
  BY <1>4, SelectScanInv
<1>5. ASSUME NEW s \in QueryStarts, NEW e \in QueryEnds,
             NEW f \in QueryFilters, GetEventsSelectFail(s, e, f)
      PROVE  ScanInv'
  BY <1>5, ResetScan DEF GetEventsSelectFail
<1>6. ASSUME NEW k \in RowKey, ScanRow(k) PROVE ScanInv'
  <2>1. k[2] <= Len(chain[k[1]]) /\ TypeOK
    BY <1>6 DEF ScanRow, NextRow, ScanInv, PendingSound, RowSound, IInv
  <2>2. Len(chain[k[1]][k[2]].events) \in Nat
    <3>1. chain[k[1]] \in Blocks /\ k[2] \in 1..Len(chain[k[1]])
      BY <2>1 DEF TypeOK
    <3>. QED
      BY <3>1, TxOfBlock
  <2>3. \A j \in RowKey : rpending'[j] > 0 => rpending[j] > 0
    BY <1>6, <2>1 DEF ScanRow, TypeOK
  <2>4. Len(chain[k[1]][k[2]].events) \in 0..Len(chain[k[1]][k[2]].events)
    BY <2>2
  <2>5. /\ rstate = "scan" /\ NextRow(k)
        /\ presented' = presented \o RowEvents(k, Len(chain[k[1]][k[2]].events))
        /\ UNCHANGED <<chain, rstart, rend, rfilter>>
    BY <1>6 DEF ScanRow
  <2>. QED
    BY <2>3, <2>4, <2>5, RowStepScanInv
<1>7. ASSUME NEW k \in RowKey, StopScan(k) PROVE ScanInv'
  <2>1. PICK n \in 1..Len(chain[k[1]][k[2]].events) :
          presented' = presented \o RowEvents(k, n)
    BY <1>7 DEF StopScan
  <2>2. \A j \in RowKey : rpending'[j] > 0 => rpending[j] > 0
    BY <1>7 DEF StopScan, NoRows
  <2>3. /\ rstate = "scan" /\ NextRow(k)
        /\ UNCHANGED <<chain, rstart, rend, rfilter>>
    BY <1>7 DEF StopScan
  <2>4. n \in 0..Len(chain[k[1]][k[2]].events)
    BY <2>1
  <2>. QED
    BY <2>1, <2>2, <2>3, <2>4, RowStepScanInv
<1>8. CASE UNCHANGED vars
  BY <1>8, ScanSideUnchanged DEF vars, readerVars
<1>. QED
  BY <1>1, <1>2, <1>3, <1>4, <1>5, <1>6, <1>7, <1>8 DEF Next

\* GetEvents only hands the visitor events of successful transactions of
\* ledgers in [Start.Ledger, End.Ledger) and, under a contract filter, of
\* transactions with an event of a requested contract: in every behaviour,
\* for every ledger range, window, LCM contents and query.
THEOREM ScanSoundHolds == Spec => []ScanSound
<1>1. Spec => []IInv
  BY IInvHolds
<1>2. Spec => []ScanInv
  BY <1>1, InitScanInv, NextScanInv, PTL DEF Spec
<1>. QED
  BY <1>2, PTL DEF ScanInv
=============================================================================
