--------------------------- MODULE MCClosestLotScan ---------------------------
(***************************************************************************)
(* Every table of up to three lots at three places, one of them equally    *)
(* far from the other two, each lot there or deleted.                      *)
(***************************************************************************)
EXTENDS ClosestLotScan, SequencesExt

CONSTANTS c1, haifa

MCPlaces == {<<0, 0>>, <<3, 4>>, <<6, 0>>}

MCLots ==
  [city : {1}, place : MCPlaces, hourly : {FALSE}, price : {4}, max : {0},
   live : BOOLEAN]

MCTables ==
  {[schema |-> TRUE, cities |-> <<>>, lots |-> lots, log |-> <<>>] :
     lots \in BoundedSeq(MCLots, 3)}
=============================================================================
