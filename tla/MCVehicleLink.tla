---------------------------- MODULE MCVehicleLink ----------------------------
(***************************************************************************)
(* A parking with an IDLE in it, which the I2C process drops, and another  *)
(* one whose START it drops as well, because half of its license number is *)
(* missing.  Of the two STOPs one has a coordinate that is NaN and gets    *)
(* through; a START at the eastern edge of the board's area does not.  The *)
(* board's clock may be ahead of the daemon's.                             *)
(***************************************************************************)
EXTENDS VehicleLink

Msg(type, license, lat, lon) ==
  [msg_type |-> type, license_id |-> license, utc_sec |-> MIN_UTC + 60,
   latitude |-> lat, longitude |-> lon]

MCEvents ==
  << Msg(MSGT_START, 12345678, Float(320), Float(348)),
     Msg(MSGT_IDLE, 12345678, Float(320), Float(348)),
     Msg(MSGT_STOP, 12345678, Float(320), Float(348)),
     Msg(MSGT_START, 5678, Float(320), Float(348)),
     Msg(MSGT_START, 12345678, Float(320), Float(359)),
     Msg(MSGT_STOP, 12345678, NaN, Float(348)) >>

MCClockLag == {-1, 5}
=============================================================================
