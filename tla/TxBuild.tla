------------------------------- MODULE TxBuild -------------------------------
(***************************************************************************)
(* Transactions built by the integration tests with CreateTransactionParams *)
(* (infrastructure/util.go, lines 30-40) from one client-side account, and  *)
(* what the network does with them.                                        *)
(*                                                                         *)
(* The params set IncrementSequenceNum: with it, txnbuild.NewTransaction    *)
(* bumps the sequence number of the local account object and gives the     *)
(* transaction that number; without it the transaction takes the account's *)
(* number as it is.  The params also set infinite time bounds, so the      *)
(* network never expires a pending transaction.  What txnbuild and the     *)
(* network do is not code of this repository: Build, Apply and             *)
(* RejectBadSeq model the library and the network's sequence-number rule   *)
(* (apply a transaction only when its number is one past the account's on- *)
(* chain number, reject it with txBadSeq otherwise) as the tests rely on   *)
(* them.  A submission may be lost on its way.                             *)
(***************************************************************************)
EXTENDS Naturals, Sequences

CONSTANTS
  Ops,      \* the operations a test submits (model values)
  MaxTxs,   \* how many transactions one test builds
  Seq0      \* the account's sequence number when the test loads it

ASSUME TxBuildAssumption == MaxTxs \in Nat /\ Seq0 \in Nat

VARIABLES
  accountSeq,  \* Sequence of the test's txnbuild account object
  chainSeq,    \* the account's sequence number on the network
  txs          \* the built transactions, in build order

vars == <<accountSeq, chainSeq, txs>>

Status == {"built", "pending", "applied", "badSeq", "lost"}

\* txnbuild.MinBaseFee, in stroops.
MinBaseFee == 100

\* txnbuild.NewInfiniteTimeout(): MinTime 0 and MaxTime 0, no upper bound.
InfiniteTimeout == [minTime |-> 0, maxTime |-> 0]

\* Mutant of TxParams: IncrementSequenceNum left at its zero value.
TxParamsNoIncrement(account, op) ==
  [sourceAccount |-> account, incrementSequenceNum |-> FALSE,
   operations |-> <<op>>, baseFee |-> MinBaseFee,
   timeBounds |-> InfiniteTimeout]

\* CreateTransactionParams(account, op).
TxParams(account, op) ==
  [sourceAccount |-> account, incrementSequenceNum |-> TRUE,
   operations |-> <<op>>, baseFee |-> MinBaseFee,
   timeBounds |-> InfiniteTimeout]

\* The sequence number txnbuild.NewTransaction gives the transaction.
TxSeq(p) == IF p.incrementSequenceNum THEN p.sourceAccount + 1
                                      ELSE p.sourceAccount

Init ==
  /\ accountSeq = Seq0
  /\ chainSeq = Seq0
  /\ txs = <<>>

\* A test's txnbuild.NewTransaction(CreateTransactionParams(account, op)):
\* the account object's sequence becomes the transaction's, which the
\* params' IncrementSequenceNum makes one past the old one.
Build(op) ==
  /\ Len(txs) < MaxTxs
  /\ LET p == TxParams(accountSeq, op) IN
     /\ accountSeq' = TxSeq(p)
     /\ txs' = Append(txs, [seq |-> TxSeq(p), op |-> op, status |-> "built"])
     /\ UNCHANGED chainSeq

SetStatus(i, s) == txs' = [txs EXCEPT ![i].status = s]

\* The test sends a built transaction (sendTransaction).
Submit(i) ==
  /\ txs[i].status = "built"
  /\ SetStatus(i, "pending")
  /\ UNCHANGED <<accountSeq, chainSeq>>

\* The submission never reaches the network.
Lose(i) ==
  /\ txs[i].status \in {"built", "pending"}
  /\ SetStatus(i, "lost")
  /\ UNCHANGED <<accountSeq, chainSeq>>

\* The network applies a pending transaction whose sequence number is next.
Apply(i) ==
  /\ txs[i].status = "pending"
  /\ txs[i].seq = chainSeq + 1
  /\ chainSeq' = txs[i].seq
  /\ SetStatus(i, "applied")
  /\ UNCHANGED accountSeq

\* Any other pending transaction fails with txBadSeq.
RejectBadSeq(i) ==
  /\ txs[i].status = "pending"
  /\ txs[i].seq # chainSeq + 1
  /\ SetStatus(i, "badSeq")
  /\ UNCHANGED <<accountSeq, chainSeq>>

Next ==
  \/ \E op \in Ops : Build(op)
  \/ \E i \in 1..Len(txs) :
       Submit(i) \/ Lose(i) \/ Apply(i) \/ RejectBadSeq(i)

Spec == Init /\ [][Next]_vars

-----------------------------------------------------------------------------
\* Type invariant.
TxTypeOK ==
  /\ accountSeq \in Nat
  /\ chainSeq \in Nat
  /\ txs \in Seq([seq : Nat, op : Ops, status : Status])

\* The i-th transaction a test builds has sequence number Seq0 + i,
\* whatever was submitted, lost or rejected in between
\* (IncrementSequenceNum in CreateTransactionParams).
ConsecutiveSeqs ==
  \A i \in 1..Len(txs) : txs[i].seq = Seq0 + i

\* IncrementSequenceNum in CreateTransactionParams (util.go:33) is what
\* lets a test submit the transactions it builds from one account one after
\* the other: a transaction is rejected with txBadSeq only when an earlier
\* transaction of the account has not been applied (it was lost, rejected
\* or is still pending).  Breaks if the params leave the sequence number
\* as it is, or if the account object does not keep the bumped number.
BadSeqOnlyAfterGap ==
  [][\A i \in 1..Len(txs) :
       txs[i].status # "badSeq" /\ txs'[i].status = "badSeq" =>
         \E j \in 1..(i - 1) : txs[j].status # "applied"]_vars
=============================================================================
