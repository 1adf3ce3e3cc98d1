------------------------------ MODULE MCBilling ------------------------------
(***************************************************************************)
(* Sessions on a clock of 32 seconds, with hours of three, in an hourly    *)
(* lot with a maximum, one without, and a daily lot; and in lots with a    *)
(* price or a maximum below 0, which the updater takes as they are.        *)
(***************************************************************************)
EXTENDS Billing

CONSTANTS c1, haifa

MCPlaces == {<<0, 0>>}

Row(isHourly, perHour, atMost) ==
  [city |-> 1, place |-> <<0, 0>>, hourly |-> isHourly, price |-> perHour,
   max |-> atMost, live |-> TRUE]

MCLotRows == {Row(TRUE, 2, 7), Row(TRUE, 2, 0), Row(FALSE, 4, 0),
              Row(TRUE, -1, 7), Row(TRUE, 2, -3)}
=============================================================================
