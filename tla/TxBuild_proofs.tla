--------------------------- MODULE TxBuild_proofs ---------------------------
(***************************************************************************)
(* Proofs about TxBuild: a transaction built with CreateTransactionParams   *)
(* is rejected with txBadSeq only while an earlier transaction of its      *)
(* account is not applied (BadSeqOnlyAfterGap), for every number of        *)
(* transactions and every starting sequence number.                        *)
(***************************************************************************)
EXTENDS TxBuild, SequenceTheorems, TLAPS

USE TxBuildAssumption

TxRec == [seq : Nat, op : Ops, status : Status]

(***************************************************************************)
(* The invariant the action property rests on.  A RejectBadSeq step must  *)
(* know that when every transaction before the i-th is applied, the i-th   *)
(* carries the number next on the network.  That needs the account object *)
(* to be Len(txs) past Seq0 (IncrementSequenceNum bumps it on each build), *)
(* the i-th transaction to carry Seq0 + i, and the applied transactions to *)
(* be exactly the first chainSeq - Seq0.                                   *)
(***************************************************************************)
AppliedUpTo ==
  \A i \in 1..Len(txs) : txs[i].status = "applied" <=> i <= chainSeq - Seq0

IInv ==
  /\ TxTypeOK
  /\ accountSeq = Seq0 + Len(txs)
  /\ ConsecutiveSeqs
  /\ Seq0 <= chainSeq /\ chainSeq <= accountSeq
  /\ AppliedUpTo

\* The initial state satisfies the invariant.
LEMMA InitIInv == Init => IInv
BY EmptySeq DEF Init, IInv, TxTypeOK, ConsecutiveSeqs, AppliedUpTo

\* The status update of one transaction keeps the sequence of records typed.
LEMMA SetStatusType ==
  ASSUME NEW t \in Seq(TxRec), NEW i \in 1..Len(t), NEW s \in Status
  PROVE  /\ [t EXCEPT ![i].status = s] \in Seq(TxRec)
         /\ Len([t EXCEPT ![i].status = s]) = Len(t)
         /\ \A k \in 1..Len(t) : [t EXCEPT ![i].status = s][k] =
               IF k = i THEN [t[i] EXCEPT !.status = s] ELSE t[k]
<1>1. t[i] \in TxRec
  BY ElementOfSeq
<1>2. [t[i] EXCEPT !.status = s] \in TxRec
  BY <1>1 DEF TxRec
<1>. QED
  BY <1>2, ExceptSeq

\* Every step keeps the invariant.
LEMMA NextIInv == IInv /\ [Next]_vars => IInv'
<1> SUFFICES ASSUME IInv, [Next]_vars PROVE IInv'
  OBVIOUS
<1>. txs \in Seq(TxRec) /\ accountSeq \in Nat /\ chainSeq \in Nat
  BY DEF IInv, TxTypeOK, TxRec
<1>1. CASE \E op \in Ops : Build(op)
  <2>1. PICK op \in Ops : Build(op)
    BY <1>1
  <2>. DEFINE r == [seq |-> accountSeq + 1, op |-> op, status |-> "built"]
  <2>2. /\ Len(txs) < MaxTxs
        /\ accountSeq' = accountSeq + 1
        /\ txs' = Append(txs, r)
        /\ chainSeq' = chainSeq
    BY <2>1 DEF Build, TxParams, TxSeq
  <2>3. r \in TxRec
    BY DEF TxRec, Status
  <2>4. /\ txs' \in Seq(TxRec)
        /\ Len(txs') = Len(txs) + 1
        /\ \A k \in 1..Len(txs) : txs'[k] = txs[k]
        /\ txs'[Len(txs) + 1] = r
    BY <2>2, <2>3, AppendProperties
  <2>5. TxTypeOK'
    BY <2>2, <2>4 DEF TxTypeOK, TxRec
  <2>6. ConsecutiveSeqs'
    BY <2>2, <2>4 DEF IInv, ConsecutiveSeqs
  <2>7. AppliedUpTo'
    BY <2>2, <2>4 DEF IInv, AppliedUpTo
  <2>. QED
    BY <2>2, <2>4, <2>5, <2>6, <2>7 DEF IInv
<1>2. CASE \E i \in 1..Len(txs) : Submit(i) \/ Lose(i) \/ RejectBadSeq(i)
  <2>1. PICK i \in 1..Len(txs) : Submit(i) \/ Lose(i) \/ RejectBadSeq(i)
    BY <1>2
  <2>2. PICK s \in Status :
          /\ txs' = [txs EXCEPT ![i].status = s]
          /\ s # "applied" /\ txs[i].status # "applied"
          /\ UNCHANGED <<accountSeq, chainSeq>>
    BY <2>1 DEF Submit, Lose, RejectBadSeq, SetStatus, Status
  <2>3. /\ txs' \in Seq(TxRec)
        /\ Len(txs') = Len(txs)
        /\ \A k \in 1..Len(txs) : txs'[k] =
              IF k = i THEN [txs[i] EXCEPT !.status = s] ELSE txs[k]
    BY <2>2, SetStatusType
  <2>4. txs[i] \in TxRec
    BY ElementOfSeq
  <2>. QED
    BY <2>2, <2>3, <2>4 DEF IInv, TxTypeOK, TxRec, ConsecutiveSeqs, AppliedUpTo
<1>3. CASE \E i \in 1..Len(txs) : Apply(i)
  <2>1. PICK i \in 1..Len(txs) : Apply(i)
    BY <1>3
  <2>2. /\ txs[i].status = "pending"
        /\ txs[i].seq = chainSeq + 1
        /\ chainSeq' = chainSeq + 1
        /\ txs' = [txs EXCEPT ![i].status = "applied"]
        /\ accountSeq' = accountSeq
    BY <2>1 DEF Apply, SetStatus
  <2>3. /\ txs' \in Seq(TxRec)
        /\ Len(txs') = Len(txs)
        /\ \A k \in 1..Len(txs) : txs'[k] =
              IF k = i THEN [txs[i] EXCEPT !.status = "applied"] ELSE txs[k]
    <3>1. "applied" \in Status
      BY DEF Status
    <3>2. \A ss \in Status :
            /\ [txs EXCEPT ![i].status = ss] \in Seq(TxRec)
            /\ Len([txs EXCEPT ![i].status = ss]) = Len(txs)
            /\ \A k \in 1..Len(txs) : [txs EXCEPT ![i].status = ss][k] =
                  IF k = i THEN [txs[i] EXCEPT !.status = ss] ELSE txs[k]
      BY SetStatusType
    <3>. QED
      BY <2>2, <3>1, <3>2
  <2>4. txs[i] \in TxRec
    BY ElementOfSeq
  <2>5. i = chainSeq - Seq0 + 1
    BY <2>2 DEF IInv, ConsecutiveSeqs
  <2>6. chainSeq' <= accountSeq'
    BY <2>2, <2>5 DEF IInv
  <2>7. AppliedUpTo'
    BY <2>2, <2>3, <2>4, <2>5 DEF IInv, AppliedUpTo, TxRec
  <2>. QED
    BY <2>2, <2>3, <2>4, <2>6, <2>7 DEF IInv, TxTypeOK, TxRec, ConsecutiveSeqs
<1>4. CASE UNCHANGED vars
  BY <1>4 DEF vars, IInv, TxTypeOK, ConsecutiveSeqs, AppliedUpTo
<1>. QED
  BY <1>1, <1>2, <1>3, <1>4 DEF Next

\* A rejection under IInv: if every transaction before the i-th is
\* applied, the i-th is next on the network, so it is not rejected.
LEMMA RejectAfterGap ==
  ASSUME IInv, NEW i \in 1..Len(txs), RejectBadSeq(i)
  PROVE  \E j \in 1..(i - 1) : txs[j].status # "applied"
<1> SUFFICES ASSUME \A j \in 1..(i - 1) : txs[j].status = "applied"
             PROVE  FALSE
  OBVIOUS
<1>1. Len(txs) \in Nat /\ chainSeq \in Nat
  BY LenProperties DEF IInv, TxTypeOK
<1>2. txs[i].status = "pending" /\ txs[i].seq # chainSeq + 1
  BY DEF RejectBadSeq
<1>3. i > chainSeq - Seq0
  <2>1. txs[i].status # "applied"
    BY <1>2
  <2>. QED
    BY <2>1, <1>1 DEF IInv, AppliedUpTo
<1>4. i - 1 <= chainSeq - Seq0
  <2>1. CASE i = 1
    BY <2>1, <1>1 DEF IInv
  <2>2. CASE i > 1
    <3>1. txs[i - 1].status = "applied"
      BY <2>2, <1>1
    <3>. QED
      BY <3>1, <2>2, <1>1 DEF IInv, AppliedUpTo
  <2>. QED
    BY <2>1, <2>2, <1>1
<1>5. i = chainSeq - Seq0 + 1
  BY <1>1, <1>3, <1>4
<1>6. txs[i].seq = chainSeq + 1
  BY <1>1, <1>5 DEF IInv, ConsecutiveSeqs
<1>. QED
  BY <1>2, <1>6

\* Every step sets a transaction's status to badSeq only after a gap.
LEMMA StepBadSeq ==
  ASSUME IInv, [Next]_vars
  PROVE  [\A i \in 1..Len(txs) :
            txs[i].status # "badSeq" /\ txs'[i].status = "badSeq" =>
              \E j \in 1..(i - 1) : txs[j].status # "applied"]_vars
<1>. txs \in Seq(TxRec)
  BY DEF IInv, TxTypeOK, TxRec
<1>1. CASE UNCHANGED vars
  BY <1>1
<1>2. CASE \E op \in Ops : Build(op)
  <2>1. PICK op \in Ops : Build(op)
    BY <1>2
  <2>2. \A k \in 1..Len(txs) : txs'[k] = txs[k]
    BY <2>1, AppendProperties DEF Build
  <2>. QED
    BY <2>2
<1>3. ASSUME NEW k \in 1..Len(txs),
             Submit(k) \/ Lose(k) \/ Apply(k) \/ RejectBadSeq(k)
      PROVE  \A i \in 1..Len(txs) :
               txs[i].status # "badSeq" /\ txs'[i].status = "badSeq" =>
                 \E j \in 1..(i - 1) : txs[j].status # "applied"
  <2> SUFFICES ASSUME NEW i \in 1..Len(txs), txs[i].status # "badSeq",
                      txs'[i].status = "badSeq"
               PROVE  \E j \in 1..(i - 1) : txs[j].status # "applied"
    OBVIOUS
  <2>1. PICK s \in Status : txs' = [txs EXCEPT ![k].status = s]
    BY <1>3 DEF Submit, Lose, Apply, RejectBadSeq, SetStatus, Status
  <2>2. \A m \in 1..Len(txs) : txs'[m] =
           IF m = k THEN [txs[k] EXCEPT !.status = s] ELSE txs[m]
    BY <2>1, SetStatusType
  <2>3. txs[k] \in TxRec
    BY ElementOfSeq
  <2>4. i = k
    BY <2>2
  <2>5. s = "badSeq"
    BY <2>2, <2>3, <2>4 DEF TxRec
  <2>6. RejectBadSeq(i)
    <3>1. ~Submit(k) /\ ~Lose(k) /\ ~Apply(k)
      BY <2>1, <2>5, <2>3 DEF Submit, Lose, Apply, SetStatus, TxRec
    <3>. QED
      BY <3>1, <2>4, <1>3
  <2>. QED
    BY <2>6, RejectAfterGap
<1>. QED
  BY <1>1, <1>2, <1>3 DEF Next

\* IncrementSequenceNum lets a test submit its transactions one after the
\* other: in every behaviour, whatever the number of transactions and the
\* account's starting sequence number, a transaction is rejected with
\* txBadSeq only while an earlier one of its account is lost, rejected or
\* pending.
THEOREM BadSeqOnlyAfterGapHolds == Spec => BadSeqOnlyAfterGap
<1>1. Spec => []IInv
  BY InitIInv, NextIInv, PTL DEF Spec
<1>2. IInv /\ [Next]_vars =>
        [\A i \in 1..Len(txs) :
           txs[i].status # "badSeq" /\ txs'[i].status = "badSeq" =>
             \E j \in 1..(i - 1) : txs[j].status # "applied"]_vars
  BY StepBadSeq
<1>. QED
  BY <1>1, <1>2, PTL DEF Spec, BadSeqOnlyAfterGap
=============================================================================
