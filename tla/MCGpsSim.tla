------------------------------- MODULE MCGpsSim -------------------------------
(***************************************************************************)
(* Short drives and parkings, on a clock of 32 seconds that is about to    *)
(* start again at 0.                                                       *)
(***************************************************************************)
EXTENDS GpsSim
=============================================================================
