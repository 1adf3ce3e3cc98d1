------------------------------- MODULE Billing -------------------------------
(***************************************************************************)
(* The arithmetic of startParking, endParking and calculatePrice           *)
(* (server/Src/db.cpp) on machine integers.  Timestamps arrive as          *)
(* uint32_t, are bound and read back as int, and are subtracted and        *)
(* rounded up as int; the model has integers of 2 * Half values, and Half  *)
(* is 2^31 in the code.  ParksysDB does the same on unbounded integers.    *)
(*                                                                         *)
(* The Makefile builds without optimisation, so that a signed overflow     *)
(* wraps.                                                                  *)
(***************************************************************************)
EXTENDS ParkingData

CONSTANTS
  Half,      (* half the number of values of an int                        *)
  LotRows    (* lots a session may be in                                   *)

ASSUME BillingAssumption ==
  /\ Half \in Nat
  /\ SecPerHour < Half
  /\ LotRows \subseteq Lot

UInt == 0 .. 2 * Half - 1
SInt == -Half .. Half - 1

\* Mutant: the value keeps its 64 bits.
AsInt_wide(u) == u

\* An unsigned value read as int, and the sum of two ints.
AsInt(u) == IF u < Half THEN u ELSE u - 2 * Half
Wrapped(n) == IF n < -Half THEN n + 2 * Half
              ELSE IF n >= Half THEN n - 2 * Half ELSE n

\* C++ division rounds towards zero.
Quotient(n, d) == IF n < 0 THEN -((-n) \div d) ELSE n \div d

VARIABLES
  lot,                       (* the row of Lot the session is in           *)
  start_time, end_time,      (* columns of its row of Log                  *)
  duration_sec, total_price,
  phase,                     (* "none", "open" or "closed"                 *)
  started, stopped           (* the timestamps the requests carried        *)

vars == <<lot, start_time, end_time, duration_sec, total_price, phase,
          started, stopped>>

Init ==
  /\ lot \in LotRows
  /\ start_time = 0 /\ end_time = 0 /\ duration_sec = 0 /\ total_price = 0
  /\ phase = "none"
  /\ started = 0 /\ stopped = 0

startParking(timestamp) ==
  /\ phase = "none"
  /\ start_time' = AsInt(timestamp)
  /\ started' = timestamp
  /\ phase' = "open"
  /\ UNCHANGED <<lot, end_time, duration_sec, total_price, stopped>>

\* Mutant: hours are rounded down.
hours_down(duration) == Quotient(IF duration > 0 THEN duration ELSE 0, SecPerHour)

\* Mutant: the maximum with 0 is not taken.
hours_noMax(duration) ==
  Quotient(Wrapped(duration + (SecPerHour - 1)), SecPerHour)

\* duration_hours: (std::max(duration_sec, 0) + 3599) / 3600
hours(duration) ==
  Quotient(Wrapped((IF duration > 0 THEN duration ELSE 0) + (SecPerHour - 1)),
           SecPerHour)

price(duration) ==
  IF lot.hourly THEN Lesser(hours(duration) * lot.price, lot.max)
                ELSE lot.price

\* Mutant: the difference of the two columns saturates instead of wrapping.
elapsed_saturates(from, to) ==
  LET d == AsInt(to) - from
  IN  IF d < -Half THEN -Half ELSE IF d >= Half THEN Half - 1 ELSE d

\* int duration = int(end_time) - start_time
elapsed(from, to) == Wrapped(AsInt(to) - from)

endParking(timestamp) ==
  /\ phase = "open"
  /\ end_time' = AsInt(timestamp)
  /\ duration_sec' = elapsed(start_time, timestamp)
  /\ total_price' = price(elapsed(start_time, timestamp))
  /\ stopped' = timestamp
  /\ phase' = "closed"
  /\ UNCHANGED <<lot, start_time, started>>

\* endParking finds no open session any more; the next one is another row.
NextSession ==
  /\ phase = "closed"
  /\ lot' \in LotRows
  /\ start_time' = 0 /\ end_time' = 0 /\ duration_sec' = 0 /\ total_price' = 0
  /\ phase' = "none"
  /\ started' = 0 /\ stopped' = 0

Next ==
  \/ \E t \in UInt : startParking(t) \/ endParking(t)
  \/ NextSession

Spec == Init /\ [][Next]_vars

-----------------------------------------------------------------------------
TypeOK ==
  /\ lot \in LotRows
  /\ start_time \in SInt /\ end_time \in SInt /\ duration_sec \in SInt
  /\ total_price \in Int
  /\ phase \in {"none", "open", "closed"}
  /\ started \in UInt /\ stopped \in UInt

\* Seconds from the START to the STOP on a clock of 2 * Half seconds, which
\* starts again at 0.
ClockTime == IF stopped < started THEN stopped - started + 2 * Half
                                  ELSE stopped - started

\* The duration stored is the time that passed, for every session shorter
\* than half the clock: also for one that begins before the timestamps leave
\* the int range (in 2038) or start again at 0 (in 2106) and ends after it.
DurationIsElapsed ==
  phase = "closed" /\ ClockTime < Half => duration_sec = ClockTime

\* Of a STOP before its START the duration is negative, and an hourly lot
\* charges nothing for it (if it has no maximum below 0).
BackwardsIsFree ==
  phase = "closed" /\ ClockTime >= Half =>
    duration_sec < 0 /\ (lot.hourly /\ lot.max >= 0 => total_price = 0)

\* The price is that of the unbounded model, until adding 3599 overflows.
BilledByFee ==
  phase = "closed" /\ duration_sec + SecPerHour <= Half =>
    total_price = Fee(lot, duration_sec)

(* What the documents say and the code does not do (see README.md)         *)

\* server/README.md:106, "max_daily = optional max for hourly mode": a lot
\* without one charges for every hour.
MaxIsOptional ==
  phase = "closed" /\ lot.hourly /\ lot.max = 0 /\ ClockTime < Half - SecPerHour =>
    total_price = BilledHours(ClockTime) * lot.price
=============================================================================
