------------------------------- MODULE Cursor -------------------------------
(***************************************************************************)
(* The cursor of an event: its position (ledger, tx, event) in the ledger  *)
(* stream, ordered lexicographically.  Each field is a uint32 of the       *)
(* program, so U32 = 2^32 there; a model may take a smaller U32.           *)
(***************************************************************************)
EXTENDS Integers

CONSTANT U32

ASSUME U32Assumption == U32 \in Nat \ {0}

\* The three fields (ledger, tx, event) of a cursor, each a uint32.
Cursor == (0..(U32 - 1)) \X (0..(U32 - 1)) \X (0..(U32 - 1))

MinCursor == <<0, 0, 0>>
MaxCursor == <<U32 - 1, U32 - 1, U32 - 1>>

\* Cmp: -1, 0 or 1 by comparing ledger, then tx, then event.
CursorCmp(a, b) ==
  CASE a[1] < b[1] -> -1
    [] a[1] > b[1] -> 1
    [] a[2] < b[2] -> -1
    [] a[2] > b[2] -> 1
    [] a[3] < b[3] -> -1
    [] a[3] > b[3] -> 1
    [] OTHER -> 0

CursorLess(a, b) == CursorCmp(a, b) = -1

\* c lies in the half-open CursorRange [start, end).
InCursorRange(c, start, end) == ~CursorLess(c, start) /\ CursorLess(c, end)
=============================================================================
