--------------------------- MODULE MC_EventIndex ---------------------------
(* EventIndex on a small instance: three ledgers, two contracts, ledgers   *)
(* of at most two transactions, a window of two ledgers.                   *)
EXTENDS EventIndex

CONSTANTS c1, c2, NoC

MCContracts == {c1, c2}

\* A transaction with result ok and events of the given contracts.
T(ok, evs) == [ok |-> ok, events |-> evs]

\* LCM contents: empty; one successful transaction with two events of two
\* contracts; a failed transaction then a successful one with one event.
MCBlocks ==
  { <<>>,
    << T(TRUE, <<c1, c2>>) >>,
    << T(FALSE, <<c1>>), T(TRUE, <<NoC>>) >> }

MCQueryStarts == {<<2, 1, 0>>, <<3, 2, 1>>}
MCQueryEnds == {<<5, 0, 0>>, <<4, 1, 0>>}
MCQueryFilters == {{}, {c1}}
=============================================================================
