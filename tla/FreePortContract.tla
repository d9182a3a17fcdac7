-------------------------- MODULE FreePortContract --------------------------
(***************************************************************************)
(* What a call of getFreeTCPPort promises its test, seen from outside:     *)
(* the call either returns a TCP port of the ephemeral range or fails the  *)
(* test, in one step, and every call eventually does one of the two.      *)
(***************************************************************************)
EXTENDS Naturals

CONSTANTS
  Calls,   \* the calls of getFreeTCPPort made by the tests of a run
  Ports    \* the ephemeral ports the kernel may hand out

VARIABLES
  pc,      \* "start", "done" (returned a port) or "failed" (t.FailNow)
  port     \* the port a call returned, 0 before it returns

vars == <<pc, port>>

Init ==
  /\ pc = [c \in Calls |-> "start"]
  /\ port = [c \in Calls |-> 0]

\* The call returns a port.
Get(c) ==
  /\ pc[c] = "start"
  /\ \E q \in Ports : port' = [port EXCEPT ![c] = q]
  /\ pc' = [pc EXCEPT ![c] = "done"]

\* The call fails the test.
Fail(c) ==
  /\ pc[c] = "start"
  /\ pc' = [pc EXCEPT ![c] = "failed"]
  /\ UNCHANGED port

Next == \E c \in Calls : Get(c) \/ Fail(c)

Spec == Init /\ [][Next]_vars /\ \A c \in Calls : WF_vars(Get(c) \/ Fail(c))
=============================================================================
