------------------------------ MODULE FreePort ------------------------------
(***************************************************************************)
(* getFreeTCPPort of the integration-test infrastructure (util.go): resolve *)
(* localhost:0, listen on it so that the kernel picks a free ephemeral     *)
(* port, read the port off the listener, close the listener (deferred) and *)
(* return the port.  Calls of several tests run concurrently; the kernel's *)
(* table of bound ports is shared by all of them.  require.NoError fails   *)
(* the test (t.FailNow) on an error, ending the call.                      *)
(***************************************************************************)
EXTENDS Naturals, FiniteSets

CONSTANTS
  Calls,   \* the calls of getFreeTCPPort made by the tests of a run
  Ports    \* the ephemeral ports the kernel may hand out

\* The largest TCP port number.
MaxPort == 65535

ASSUME PortsAssumption == Ports # {} /\ Ports \subseteq 1..MaxPort

VARIABLES
  pc,      \* "resolve", "listen", "ret" (listening), "done" or "failed"
  lis,     \* the port of the call's listener, 0 when it has none
  port     \* the port the call returned, 0 before it returns

vars == <<pc, lis, port>>

\* The ports bound by a listener: the kernel hands none of them out.
Bound == {lis[c] : c \in Calls} \ {0}

\* Conversion of the listener's int port to the uint16 result.
uint16(x) == x % (MaxPort + 1)

Init ==
  /\ pc = [c \in Calls |-> "resolve"]
  /\ lis = [c \in Calls |-> 0]
  /\ port = [c \in Calls |-> 0]

\* net.ResolveTCPAddr("tcp", "localhost:0") succeeds.
Resolve(c) ==
  /\ pc[c] = "resolve"
  /\ pc' = [pc EXCEPT ![c] = "listen"]
  /\ UNCHANGED <<lis, port>>

\* ... or fails, and require.NoError fails the test.
ResolveFail(c) ==
  /\ pc[c] = "resolve"
  /\ pc' = [pc EXCEPT ![c] = "failed"]
  /\ UNCHANGED <<lis, port>>

\* net.ListenTCP on port 0: the kernel binds a port no listener holds.
Listen(c) ==
  /\ pc[c] = "listen"
  /\ \E q \in Ports \ Bound : lis' = [lis EXCEPT ![c] = q]
  /\ pc' = [pc EXCEPT ![c] = "ret"]
  /\ UNCHANGED port

\* ... or ListenTCP fails (every ephemeral port bound, no file descriptor
\* left, ...) and require.NoError fails the test.
ListenFail(c) ==
  /\ pc[c] = "listen"
  /\ pc' = [pc EXCEPT ![c] = "failed"]
  /\ UNCHANGED <<lis, port>>

\* Mutant of Return: the port of the resolved address (localhost:0) is
\* returned instead of the listener's.
ReturnResolvedPort(c) ==
  /\ pc[c] = "ret"
  /\ port' = [port EXCEPT ![c] = uint16(0)]
  /\ lis' = [lis EXCEPT ![c] = 0]
  /\ pc' = [pc EXCEPT ![c] = "done"]

\* The return statement: the listener's port converted to uint16, then the
\* deferred l.Close() releases the port.
Return(c) ==
  /\ pc[c] = "ret"
  /\ port' = [port EXCEPT ![c] = uint16(lis[c])]
  /\ lis' = [lis EXCEPT ![c] = 0]
  /\ pc' = [pc EXCEPT ![c] = "done"]

\* One step of call c on its goroutine.
Step(c) ==
  \/ Resolve(c) \/ ResolveFail(c)
  \/ Listen(c) \/ ListenFail(c)
  \/ Return(c)

Next == \E c \in Calls : Step(c)

\* Each call runs on a goroutine of its test, which the scheduler keeps
\* running: no call stops for ever between two of its steps.
Fairness == \A c \in Calls : WF_vars(Step(c))

Spec == Init /\ [][Next]_vars /\ Fairness

-----------------------------------------------------------------------------
(* Properties.                                                             *)

TypeOK ==
  /\ pc \in [Calls -> {"resolve", "listen", "ret", "done", "failed"}]
  /\ lis \in [Calls -> Ports \cup {0}]
  /\ port \in [Calls -> Ports \cup {0}]

\* The three steps of a call implement the contract of FreePortContract:
\* each call returns a port of the ephemeral range or fails, and eventually
\* does one of the two.
Contract ==
  INSTANCE FreePortContract
    WITH pc <- [c \in Calls |-> IF pc[c] \in {"resolve", "listen", "ret"}
                                THEN "start" ELSE pc[c]]

ContractSpec == Contract!Spec

\* What the callers of getFreeTCPPort rely on when they give the ports to
\* different servers of a test: two calls never return the same port.
DistinctPorts ==
  \A c1, c2 \in Calls :
    c1 # c2 /\ pc[c1] = "done" /\ pc[c2] = "done" => port[c1] # port[c2]
=============================================================================
