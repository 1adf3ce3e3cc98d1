---------------------------- MODULE Billing_proof ----------------------------
(***************************************************************************)
(* Billing on ints of any width agrees with billing on integers, for       *)
(* sessions shorter than half the clock.                                   *)
(***************************************************************************)
EXTENDS Billing, ParkingData_proof

LEMMA Widths == Half \in Nat /\ Half > 0 /\ SecPerHour \in Nat /\ SecPerHour > 0
                /\ SecPerHour < Half
  BY BillingAssumption, ParkingDataAssumption

(* Reading back and subtracting the two timestamps wraps twice, and the    *)
(* two errors cancel out.                                                  *)
LEMMA ElapsedIsExact ==
  ASSUME NEW s \in UInt, NEW e \in UInt
  PROVE  LET d == elapsed(AsInt(s), e)
             c == IF e < s THEN e - s + 2 * Half ELSE e - s
         IN  /\ AsInt(s) \in SInt /\ AsInt(e) \in SInt /\ d \in SInt
             /\ d = IF c < Half THEN c ELSE c - 2 * Half
  BY Widths DEF elapsed, AsInt, Wrapped, UInt, SInt

(* Without overflow, the hours are BilledHours.                            *)
LEMMA HoursAreBilledHours ==
  ASSUME NEW d \in SInt, d + SecPerHour <= Half
  PROVE  hours(d) = BilledHours(d)
<1> DEFINE c == IF d > 0 THEN d ELSE 0
           n == c + (SecPerHour - 1)
<1>1. d \in Int /\ c \in Nat /\ n \in Nat /\ n < Half
  BY Widths DEF SInt
<1>2. Wrapped(n) = n
  BY <1>1, Widths DEF Wrapped
<1>3. Quotient(n, SecPerHour) = n \div SecPerHour
  BY <1>1 DEF Quotient
<1>4. n = c + SecPerHour - 1
  BY <1>1, Widths
<1>5. hours(d) = Quotient(Wrapped(n), SecPerHour)
  BY DEF hours
<1>6. BilledHours(d) = (c + SecPerHour - 1) \div SecPerHour
  BY DEF BilledHours
<1> QED
  BY <1>2, <1>3, <1>4, <1>5, <1>6

(* Every price is an integer, whatever the additions overflow to.          *)
LEMMA PriceType ==
  ASSUME NEW d \in SInt, lot \in Lot
  PROVE  price(d) \in Int
<1> DEFINE n == Wrapped((IF d > 0 THEN d ELSE 0) + (SecPerHour - 1))
<1>1. n \in Int
  BY Widths DEF SInt, Wrapped
<1>2. \A m \in Int : m \div SecPerHour \in Int
  BY Widths
<1>3. hours(d) \in Int
  <2>1. -n \in Int
    BY <1>1
  <2>2. n \div SecPerHour \in Int /\ (-n) \div SecPerHour \in Int
    BY <1>1, <1>2, <2>1
  <2>3. hours(d) = Quotient(n, SecPerHour)
    BY DEF hours
  <2> HIDE DEF n
  <2> QED
    BY <2>2, <2>3 DEF Quotient
<1>4. lot.price \in Int /\ lot.max \in Int
  BY DEF Lot
<1>5. hours(d) * lot.price \in Int
  BY <1>3, <1>4
<1> QED
  BY <1>4, <1>5 DEF price, Lesser

\* What the columns hold: the requests' timestamps as ints, and what
\* endParking computes from them.
Recorded ==
  /\ TypeOK
  /\ phase \in {"open", "closed"} => start_time = AsInt(started)
  /\ phase = "closed" =>
       /\ duration_sec = elapsed(AsInt(started), stopped)
       /\ total_price = price(duration_sec)

LEMMA RecordedInit ==
  ASSUME Init
  PROVE  Recorded
  BY Widths DEF Init, Recorded, TypeOK, SInt, UInt

LEMMA RecordedStep ==
  ASSUME Recorded, [Next]_vars
  PROVE  Recorded'
<1> USE DEF Recorded
<1>1. ASSUME NEW t \in UInt, startParking(t) PROVE Recorded'
  <2>1. AsInt(t) \in SInt
    BY ElapsedIsExact
  <2> QED
    BY <1>1, <2>1 DEF startParking, TypeOK
<1>2. ASSUME NEW t \in UInt, endParking(t) PROVE Recorded'
  <2>1. started \in UInt /\ lot \in Lot /\ start_time = AsInt(started)
    BY <1>2, BillingAssumption DEF endParking, TypeOK
  <2>2. AsInt(t) \in SInt /\ elapsed(start_time, t) \in SInt
    BY <2>1, ElapsedIsExact
  <2>3. price(elapsed(start_time, t)) \in Int
    BY <2>1, <2>2, PriceType
  <2>4. TypeOK'
    BY <1>2, <2>2, <2>3 DEF endParking, TypeOK
  <2>5. price(duration_sec)' = price(elapsed(start_time, t))
    BY <1>2 DEF endParking, price, hours
  <2> QED
    BY <1>2, <2>1, <2>4, <2>5 DEF endParking
<1>3. CASE NextSession
  BY <1>3, Widths DEF NextSession, TypeOK, SInt, UInt
<1>4. CASE UNCHANGED vars
  BY <1>4 DEF vars, TypeOK, price, hours
<1> QED
  BY <1>1, <1>2, <1>3, <1>4 DEF Next

LEMMA AlwaysRecorded == Spec => []Recorded
  BY RecordedInit, RecordedStep, PTL DEF Spec

(* For ints of any width: the duration recorded is the time that passed.   *)
THEOREM DurationAlwaysElapsed == Spec => []DurationIsElapsed
<1>1. Recorded => DurationIsElapsed
  BY ElapsedIsExact DEF Recorded, DurationIsElapsed, ClockTime, TypeOK
<1> QED
  BY <1>1, AlwaysRecorded, PTL

(* For ints of any width, any hour and any lot: the price charged is the   *)
(* one of the unbounded model, unless rounding up overflows.               *)
THEOREM AlwaysBilledByFee == Spec => []BilledByFee
<1>1. Recorded => BilledByFee
  <2> SUFFICES ASSUME Recorded, phase = "closed", duration_sec + SecPerHour <= Half
               PROVE  total_price = Fee(lot, duration_sec)
    BY DEF BilledByFee
  <2>1. duration_sec \in SInt /\ total_price = price(duration_sec)
    BY DEF Recorded, TypeOK
  <2>2. hours(duration_sec) = BilledHours(duration_sec)
    BY <2>1, HoursAreBilledHours
  <2> QED
    BY <2>1, <2>2 DEF price, Fee
<1> QED
  BY <1>1, AlwaysRecorded, PTL

(* Columns bound through sqlite3_bind_int stay ints, and the price, whose   *)
(* hours may have overflowed, is a number.                                 *)
THEOREM ColumnsKeepTheirWidth == Spec => []TypeOK
<1>1. Recorded => TypeOK
  BY DEF Recorded
<1> QED
  BY <1>1, AlwaysRecorded, PTL

(* calculatePrice takes the maximum with 0 before it rounds up: whatever   *)
(* the width of an int, a STOP before its START has a negative duration    *)
(* and costs nothing in an hourly lot, unless its maximum is below 0.      *)
THEOREM BackwardsAlwaysFree == Spec => []BackwardsIsFree
<1>1. Recorded => BackwardsIsFree
  <2> SUFFICES ASSUME Recorded, phase = "closed", ClockTime >= Half
               PROVE  /\ duration_sec < 0
                      /\ lot.hourly /\ lot.max >= 0 => total_price = 0
    BY DEF BackwardsIsFree
  <2>1. /\ started \in UInt /\ stopped \in UInt /\ lot \in Lot
        /\ duration_sec = elapsed(AsInt(started), stopped)
        /\ total_price = price(duration_sec)
    BY BillingAssumption DEF Recorded, TypeOK
  <2>2. duration_sec \in Int /\ duration_sec < 0
    BY <2>1, ElapsedIsExact, Widths DEF ClockTime, SInt, UInt
  <2>3. hours(duration_sec) = 0
    <3>1. (IF duration_sec > 0 THEN duration_sec ELSE 0) = 0
      BY <2>2
    <3>2. Wrapped(0 + (SecPerHour - 1)) = SecPerHour - 1
      BY Widths DEF Wrapped
    <3>3. (SecPerHour - 1) \div SecPerHour = 0
      BY Widths
    <3>4. Quotient(SecPerHour - 1, SecPerHour) = 0
      BY <3>3, Widths DEF Quotient
    <3> QED
      BY <3>1, <3>2, <3>4 DEF hours
  <2>4. lot.price \in Int /\ lot.max \in Int
    BY <2>1 DEF Lot
  <2>5. lot.max >= 0 => Lesser(0 * lot.price, lot.max) = 0
    BY <2>4 DEF Lesser
  <2> QED
    BY <2>1, <2>2, <2>3, <2>5 DEF price
<1> QED
  BY <1>1, AlwaysRecorded, PTL
=============================================================================
