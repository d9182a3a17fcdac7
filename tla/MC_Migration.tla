---------------------------- MODULE MC_Migration ----------------------------
(* The migration on the instance of MC_EventIndex with one more ledger, so  *)
(* that a ledger is ingested after the migrated range.                     *)
EXTENDS Migration

CONSTANTS c1, c2, NoC

MCContracts == {c1, c2}

T(ok, evs) == [ok |-> ok, events |-> evs]

MCBlocks ==
  { <<>>,
    << T(TRUE, <<c1, c2>>) >>,
    << T(FALSE, <<c1>>), T(TRUE, <<NoC>>) >> }

MCQueryStarts == {<<2, 1, 0>>}
MCQueryEnds == {<<6, 0, 0>>}
MCQueryFilters == {{}}
=============================================================================
