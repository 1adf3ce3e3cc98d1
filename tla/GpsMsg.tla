-------------------------------- MODULE GpsMsg --------------------------------
(***************************************************************************)
(* The message of a vehicle as the daemon sees it (BBG/Inc/gps_msg.h) and  *)
(* the check it must pass (memcpy_validate in BBG/Src/i2c_process.c).      *)
(*                                                                         *)
(* Coordinates come as floats and are compared with doubles.  The unit is  *)
(* a tenth of 2^-18 degrees: between 32 and 64 degrees the floats are the  *)
(* multiples of ten, and a double is exact as far as any of them can tell. *)
(* The board keeps its position between Float(342) and Float(359) degrees  *)
(* (gps_sim.h:18), of which the second is beyond LON_MAX.                  *)
(***************************************************************************)
EXTENDS Integers

CONSTANT NaN    (* a float that is no number: no comparison with it is true *)

ASSUME GpsMsgAssumption == NaN \notin Int

MSGT_IDLE  == 0
MSGT_START == 1
MSGT_STOP  == 2
MAX_MSGT   == MSGT_STOP

MIN_LICENSE == 1000000
MIN_UTC     == 1751371200

TenthDegree == 262144

\* A literal in tenths of degrees: a double, or with the suffix f a float.
Double(tenths) == tenths * TenthDegree
Float(tenths)  == 10 * ((Double(tenths) + 5) \div 10)

LAT_MIN == Double(295)
LAT_MAX == Double(333)
LON_MIN == Double(342)
LON_MAX == Double(359)

GpsMessage == [msg_type : Nat, license_id : Nat, utc_sec : Nat,
               latitude : Int \cup {NaN}, longitude : Int \cup {NaN}]

LessThan(x, bound) == x # NaN /\ x < bound
GreaterThan(x, bound) == x # NaN /\ x > bound

\* What the comparisons of the check say; of NaN they say nothing.
OutOfArea(m) ==
  \/ LessThan(m.latitude, LAT_MIN)  \/ GreaterThan(m.latitude, LAT_MAX)
  \/ LessThan(m.longitude, LON_MIN) \/ GreaterThan(m.longitude, LON_MAX)

\* Mutant: the longitude is not looked at.
memcpy_validate_latitudeOnly(m, now) ==
  /\ m.msg_type <= MAX_MSGT
  /\ m.license_id >= MIN_LICENSE
  /\ ~LessThan(m.latitude, LAT_MIN) /\ ~GreaterThan(m.latitude, LAT_MAX)
  /\ m.utc_sec >= MIN_UTC /\ m.utc_sec <= now

memcpy_validate(m, now) ==
  /\ m.msg_type <= MAX_MSGT
  /\ m.license_id >= MIN_LICENSE
  /\ ~OutOfArea(m)
  /\ m.utc_sec >= MIN_UTC /\ m.utc_sec <= now

\* run_i2c_process writes START and STOP to the pipe, no other message.
Forwarded(m, now) ==
  memcpy_validate(m, now) /\ m.msg_type \in {MSGT_START, MSGT_STOP}
=============================================================================
