--------------------------- MODULE FreePort_proofs ---------------------------
(***************************************************************************)
(* Proofs about FreePort, for every set of calls and every range of        *)
(* ephemeral ports: every step of getFreeTCPPort is a step of             *)
(* FreePortContract or leaves the contract's state unchanged (the safety   *)
(* part of the refinement).                                                *)
(***************************************************************************)
EXTENDS FreePort, TLAPS

USE PortsAssumption

(***************************************************************************)
(* The inductive invariant: the type, that a listener is held only by a   *)
(* call about to return (the deferred Close), and that such a call holds a *)
(* listener on a port of the range.  The last conjunct is what makes       *)
(* Return a Get step of the contract.                                      *)
(***************************************************************************)
NoLeakedListener == \A c \in Calls : lis[c] # 0 => pc[c] = "ret"

IInv ==
  /\ TypeOK
  /\ NoLeakedListener
  /\ \A c \in Calls : pc[c] = "ret" => lis[c] \in Ports

\* The initial state satisfies the invariant.
LEMMA InitIInv == Init => IInv
BY DEF Init, IInv, TypeOK, NoLeakedListener

\* A port of the range survives the conversion to uint16.
LEMMA Uint16Port ==
  ASSUME NEW q \in Ports
  PROVE  uint16(q) = q
<1>1. MaxPort \in Nat
  BY DEF MaxPort
<1>2. q \in Nat /\ q < MaxPort + 1
  BY <1>1
<1>. QED
  BY <1>1, <1>2 DEF uint16

\* Every step keeps the invariant.
LEMMA NextIInv == IInv /\ [Next]_vars => IInv'
<1> SUFFICES ASSUME IInv, [Next]_vars PROVE IInv'
  OBVIOUS
<1>1. CASE UNCHANGED vars
  BY <1>1 DEF vars, IInv, TypeOK, NoLeakedListener
<1>2. ASSUME NEW c \in Calls, Resolve(c) \/ ResolveFail(c) \/ ListenFail(c)
      PROVE  IInv'
  BY <1>2 DEF Resolve, ResolveFail, ListenFail, IInv, TypeOK, NoLeakedListener
<1>3. ASSUME NEW c \in Calls, Listen(c) PROVE IInv'
  <2>1. PICK q \in Ports \ Bound : lis' = [lis EXCEPT ![c] = q]
    BY <1>3 DEF Listen
  <2>. QED
    BY <1>3, <2>1 DEF Listen, IInv, TypeOK, NoLeakedListener
<1>4. ASSUME NEW c \in Calls, Return(c) PROVE IInv'
  <2>1. uint16(lis[c]) = lis[c]
    BY <1>4, Uint16Port DEF Return, IInv
  <2>. QED
    BY <1>4, <2>1 DEF Return, IInv, TypeOK, NoLeakedListener
<1>. QED
  BY <1>1, <1>2, <1>3, <1>4 DEF Next, Step

-----------------------------------------------------------------------------
(* The refinement of the contract, its safety part: the initial state maps *)
(* to the contract's and every step to a contract step or a stutter.  That *)
(* each call eventually ends (the contract's fairness) needs ENABLED and   *)
(* stays with TLC (ContractSpec in the free_port run).                    *)

\* Each step of a call, seen through the refinement mapping.
LEMMA StepRefines ==
  ASSUME IInv, [Next]_vars
  PROVE  [Contract!Next]_Contract!vars
<1>1. CASE UNCHANGED vars
  BY <1>1 DEF vars, Contract!vars
<1>2. ASSUME NEW c \in Calls, Resolve(c) \/ Listen(c)
      PROVE  UNCHANGED Contract!vars
  BY <1>2 DEF Resolve, Listen, Contract!vars, IInv, TypeOK
<1>3. ASSUME NEW c \in Calls, ResolveFail(c) \/ ListenFail(c)
      PROVE  Contract!Fail(c)
  BY <1>3 DEF ResolveFail, ListenFail, Contract!Fail, IInv, TypeOK
<1>4. ASSUME NEW c \in Calls, Return(c)
      PROVE  Contract!Get(c)
  <2>1. lis[c] \in Ports /\ uint16(lis[c]) = lis[c]
    BY <1>4, Uint16Port DEF Return, IInv
  <2>. QED
    BY <1>4, <2>1 DEF Return, Contract!Get, IInv, TypeOK
<1>. QED
  BY <1>1, <1>2, <1>3, <1>4 DEF Next, Step, Contract!Next

\* Every behaviour of getFreeTCPPort's calls is, step by step, a behaviour
\* of the contract: a call's only visible steps return a port of the range
\* or fail the test.
THEOREM ImplementsContractSafety ==
  Spec => Contract!Init /\ [][Contract!Next]_Contract!vars
<1>1. Init => Contract!Init
  BY DEF Init, Contract!Init
<1>2. IInv /\ [Next]_vars => [Contract!Next]_Contract!vars
  BY StepRefines
<1>3. Spec => []IInv
  BY InitIInv, NextIInv, PTL DEF Spec
<1>. QED
  BY <1>1, <1>2, <1>3, PTL DEF Spec
=============================================================================
