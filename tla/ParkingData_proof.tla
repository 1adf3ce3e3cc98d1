-------------------------- MODULE ParkingData_proof --------------------------
(***************************************************************************)
(* What the operations of ParkingData do to the three tables.              *)
(***************************************************************************)
EXTENDS ParkingData, TLAPS

(* A table whose rows are changed in place is still a table.               *)
LEMMA RowsChanged ==
  ASSUME NEW S, NEW s \in Seq(S), NEW f,
         f = [i \in DOMAIN s |-> f[i]],
         \A i \in DOMAIN s : f[i] \in S
  PROVE  f \in Seq(S)
<1>1. Len(s) \in Nat /\ DOMAIN s = 1 .. Len(s)
  OBVIOUS
<1>2. f \in [1 .. Len(s) -> S]
  BY <1>1
<1> QED
  BY <1>1, <1>2

(* A row of a table has the table's type.                                  *)
LEMMA RowType ==
  ASSUME NEW S, NEW s \in Seq(S), NEW i \in DOMAIN s
  PROVE  i \in Nat /\ i > 0 /\ s[i] \in S
  OBVIOUS

(* An id beyond the last row is new, the others keep their rows.           *)
LEMMA AppendRows ==
  ASSUME NEW S, NEW s \in Seq(S), NEW e \in S
  PROVE  /\ Append(s, e) \in Seq(S)
         /\ Len(s) + 1 \in DOMAIN Append(s, e)
         /\ Len(s) + 1 \in Nat
         /\ Append(s, e)[Len(s) + 1] = e
         /\ \A i \in DOMAIN s : i \in DOMAIN Append(s, e) /\ Append(s, e)[i] = s[i]
  OBVIOUS

LEMMA ImageParts ==
  ASSUME NEW db \in Image
  PROVE  /\ db.schema \in BOOLEAN
         /\ db.cities \in Seq(City)
         /\ db.lots \in Seq(Lot)
         /\ db.log \in Seq(Session)
  BY DEF Image

LEMMA EmptyImageType == EmptyImage \in Image
  BY DEF EmptyImage, Image

LEMMA SchemaType ==
  ASSUME NEW db \in Image
  PROVE  /\ [db EXCEPT !.schema = TRUE] \in Image
         /\ [db EXCEPT !.schema = TRUE].log = db.log
         /\ [db EXCEPT !.schema = TRUE].lots = db.lots
  BY DEF Image

LEMMA InsertLogType ==
  ASSUME NEW db \in Image, NEW s \in Session
  PROVE  /\ insertLog(db, s) \in Image
         /\ insertLog(db, s).log = Append(db.log, s)
         /\ insertLog(db, s).lots = db.lots
<1>1. Append(db.log, s) \in Seq(Session)
  BY ImageParts, AppendRows
<1> QED
  BY <1>1 DEF insertLog, Image

LEMMA UpdateLogIs ==
  ASSUME NEW db \in Image, NEW id, NEW end, NEW total
  PROVE  updateLog(db, id, end, total).log
           = [i \in DOMAIN db.log |->
                IF i = id THEN ClosedSession(db.log[i], end, total) ELSE db.log[i]]
  BY DEF updateLog, Image

LEMMA UpdateLogType ==
  ASSUME NEW db \in Image, NEW id, NEW end \in Nat, NEW total \in Int
  PROVE  /\ updateLog(db, id, end, total) \in Image
         /\ updateLog(db, id, end, total).lots = db.lots
         /\ DOMAIN updateLog(db, id, end, total).log = DOMAIN db.log
         /\ \A i \in DOMAIN db.log :
              updateLog(db, id, end, total).log[i] =
                IF i = id THEN ClosedSession(db.log[i], end, total) ELSE db.log[i]
<1> DEFINE new == [i \in DOMAIN db.log |->
                     IF i = id THEN ClosedSession(db.log[i], end, total)
                               ELSE db.log[i]]
<1>1. ASSUME NEW i \in DOMAIN db.log PROVE new[i] \in Session
  <2>1. db.log[i] \in Session
    BY ImageParts, RowType
  <2> QED
    BY <2>1 DEF ClosedSession, Session
<1>2. new \in Seq(Session)
  <2> HIDE DEF new
  <2>1. new = [i \in DOMAIN db.log |-> new[i]]
    BY DEF new
  <2> QED
    BY <1>1, <2>1, ImageParts, RowsChanged
<1>3. updateLog(db, id, end, total) = [db EXCEPT !.log = new]
  BY DEF updateLog
<1> QED
  BY <1>2, <1>3 DEF Image

(* What the updater's statements leave: an image with the same sessions,   *)
(* and no lot id taken back.                                               *)
SameSessions(new, old) ==
  /\ new \in Image
  /\ new.log = old.log
  /\ DOMAIN old.lots \subseteq DOMAIN new.lots

LEMMA CitiesChanged ==
  ASSUME NEW db \in Image, NEW c \in Seq(City)
  PROVE  SameSessions([db EXCEPT !.cities = c], db)
  BY DEF SameSessions, Image

LEMMA LotsChanged ==
  ASSUME NEW db \in Image, NEW l \in Seq(Lot), DOMAIN db.lots \subseteq DOMAIN l
  PROVE  SameSessions([db EXCEPT !.lots = l], db)
  BY DEF SameSessions, Image

(* A statement that rewrites each lot into a lot.                          *)
LEMMA LotsRewritten ==
  ASSUME NEW db \in Image, NEW f, f = [i \in DOMAIN db.lots |-> f[i]],
         \A i \in DOMAIN db.lots : f[i] \in Lot
  PROVE  SameSessions([db EXCEPT !.lots = f], db)
<1>1. f \in Seq(Lot)
  BY ImageParts, RowsChanged
<1>2. DOMAIN f = DOMAIN db.lots
  OBVIOUS
<1> QED
  BY <1>1, <1>2, LotsChanged

LEMMA LotRow ==
  ASSUME NEW db \in Image, NEW i \in DOMAIN db.lots
  PROVE  db.lots[i] \in Lot
  BY ImageParts, RowType

LEMMA CityRow ==
  ASSUME NEW db \in Image, NEW i \in DOMAIN db.cities
  PROVE  db.cities[i] \in City
  BY ImageParts, RowType

LEMMA insertCityType ==
  ASSUME NEW db \in Image, NEW name \in CityNames
  PROVE  SameSessions(insertCity(db, name), db)
<1>1. Append(db.cities, [name |-> name, live |-> TRUE]) \in Seq(City)
  BY ImageParts, AppendRows DEF City
<1> QED
  BY <1>1, CitiesChanged DEF insertCity

LEMMA deleteCityType ==
  ASSUME NEW db \in Image, NEW city
  PROVE  SameSessions(deleteCity(db, city), db)
<1> DEFINE f == [i \in DOMAIN db.cities |->
                   IF i = city THEN Deleted(db.cities[i]) ELSE db.cities[i]]
<1>1. ASSUME NEW i \in DOMAIN db.cities PROVE f[i] \in City
  BY CityRow DEF City, Deleted
<1>2. f \in Seq(City)
  <2> HIDE DEF f
  <2>1. f = [i \in DOMAIN db.cities |-> f[i]]
    BY DEF f
  <2> QED
    BY <1>1, <2>1, ImageParts, RowsChanged
<1>3. deleteCity(db, city) = [db EXCEPT !.cities = f]
  BY DEF deleteCity
<1> QED
  BY <1>2, <1>3, CitiesChanged

LEMMA deleteLotsOfType ==
  ASSUME NEW db \in Image, NEW city
  PROVE  SameSessions(deleteLotsOf(db, city), db)
<1> DEFINE f == [i \in DOMAIN db.lots |->
                   IF db.lots[i].city = city THEN Deleted(db.lots[i]) ELSE db.lots[i]]
<1>1. ASSUME NEW i \in DOMAIN db.lots PROVE f[i] \in Lot
  BY LotRow DEF Lot, Deleted, Repriced
<1>2. f = [i \in DOMAIN db.lots |-> f[i]]
  OBVIOUS
<1>3. deleteLotsOf(db, city) = [db EXCEPT !.lots = f]
  BY DEF deleteLotsOf
<1> HIDE DEF f
<1> QED
  BY <1>1, <1>2, <1>3, LotsRewritten

LEMMA insertLotType ==
  ASSUME NEW db \in Image, NEW city \in Nat, NEW place \in Places,
         NEW hourly \in BOOLEAN, NEW price \in Int, NEW max \in Int
  PROVE  SameSessions(insertLot(db, city, place, hourly, price, max), db)
<1> DEFINE l == [city |-> city, place |-> place, hourly |-> hourly,
                 price |-> price, max |-> max, live |-> TRUE]
<1>1. l \in Lot
  BY DEF Lot
<1>2. insertLot(db, city, place, hourly, price, max)
        = [db EXCEPT !.lots = Append(db.lots, l)]
  BY DEF insertLot
<1> HIDE DEF l
<1>3. Append(db.lots, l) \in Seq(Lot) /\ DOMAIN db.lots \subseteq DOMAIN Append(db.lots, l)
  BY <1>1, ImageParts, AppendRows
<1> QED
  BY <1>2, <1>3, LotsChanged

LEMMA deleteLotType ==
  ASSUME NEW db \in Image, NEW lot
  PROVE  SameSessions(deleteLot(db, lot), db)
<1> DEFINE f == [i \in DOMAIN db.lots |->
                   IF i = lot THEN Deleted(db.lots[i]) ELSE db.lots[i]]
<1>1. ASSUME NEW i \in DOMAIN db.lots PROVE f[i] \in Lot
  BY LotRow DEF Lot, Deleted, Repriced
<1>2. f = [i \in DOMAIN db.lots |-> f[i]]
  OBVIOUS
<1>3. deleteLot(db, lot) = [db EXCEPT !.lots = f]
  BY DEF deleteLot
<1> HIDE DEF f
<1> QED
  BY <1>1, <1>2, <1>3, LotsRewritten

LEMMA updateLotPriceType ==
  ASSUME NEW db \in Image, NEW lot, NEW price \in Int, NEW max \in Int
  PROVE  SameSessions(updateLotPrice(db, lot, price, max), db)
<1> DEFINE f == [i \in DOMAIN db.lots |->
                   IF i = lot /\ db.lots[i].live
                     THEN Repriced(db.lots[i], price, max)
                     ELSE db.lots[i]]
<1>1. ASSUME NEW i \in DOMAIN db.lots PROVE f[i] \in Lot
  BY LotRow DEF Lot, Deleted, Repriced
<1>2. f = [i \in DOMAIN db.lots |-> f[i]]
  OBVIOUS
<1>3. updateLotPrice(db, lot, price, max) = [db EXCEPT !.lots = f]
  BY DEF updateLotPrice
<1> HIDE DEF f
<1> QED
  BY <1>1, <1>2, <1>3, LotsRewritten

LEMMA setLotTypeType ==
  ASSUME NEW db \in Image, NEW lot, NEW hourly \in BOOLEAN
  PROVE  SameSessions(setLotType(db, lot, hourly), db)
<1> DEFINE f == [i \in DOMAIN db.lots |->
                   IF i = lot /\ db.lots[i].live
                     THEN [db.lots[i] EXCEPT !.hourly = hourly]
                     ELSE db.lots[i]]
<1>1. ASSUME NEW i \in DOMAIN db.lots PROVE f[i] \in Lot
  BY LotRow DEF Lot, Deleted, Repriced
<1>2. f = [i \in DOMAIN db.lots |-> f[i]]
  OBVIOUS
<1>3. setLotType(db, lot, hourly) = [db EXCEPT !.lots = f]
  BY DEF setLotType
<1> HIDE DEF f
<1> QED
  BY <1>1, <1>2, <1>3, LotsRewritten

-----------------------------------------------------------------------------
(* Billing                                                                 *)

(* The number of hours billed is the least number that covers the time.    *)
LEMMA BilledHoursCover ==
  ASSUME NEW d \in Int
  PROVE  /\ BilledHours(d) \in Nat
         /\ d <= BilledHours(d) * SecPerHour
         /\ d > 0 => (BilledHours(d) - 1) * SecPerHour < d
<1> DEFINE c == IF d > 0 THEN d ELSE 0
<1>1. c \in Nat /\ d <= c
  OBVIOUS
<1>2. SecPerHour \in Nat /\ SecPerHour > 0
  BY ParkingDataAssumption
<1>3. BilledHours(d) = (c + SecPerHour - 1) \div SecPerHour
  BY DEF BilledHours
<1>4. \A n \in Nat : \A k \in Nat : k > 0 =>
        /\ n \div k \in Nat
        /\ (n \div k) * k <= n
        /\ n < (n \div k) * k + k
  OBVIOUS
<1> QED
  BY <1>1, <1>2, <1>3, <1>4

(* What a session costs, for any prices, which may be negative: never more  *)
(* than its lot's maximum or other than its fixed price, and less than     *)
(* nothing just where the lot has a negative price, or maximum, itself.    *)
THEOREM FeeBounds ==
  ASSUME NEW lot \in Lot, NEW d \in Int
  PROVE  /\ Fee(lot, d) \in Int
         /\ lot.hourly => Fee(lot, d) <= lot.max
         /\ ~lot.hourly => Fee(lot, d) = lot.price
         /\ Fee(lot, d) < 0 <=>
              IF lot.hourly THEN lot.max < 0 \/ (d > 0 /\ lot.price < 0)
                            ELSE lot.price < 0
<1> DEFINE h == BilledHours(d)
<1>1. lot.hourly \in BOOLEAN /\ lot.price \in Int /\ lot.max \in Int
  BY DEF Lot
<1>2. h \in Nat /\ (h > 0 <=> d > 0)
  <2>1. h \in Nat /\ d <= h * SecPerHour /\ SecPerHour \in Nat \ {0}
    BY BilledHoursCover, ParkingDataAssumption
  <2>2. CASE d > 0
    <3>1. h # 0
      BY <2>1, <2>2
    <3> QED
      BY <2>1, <2>2, <3>1
  <2>3. CASE ~(d > 0)
    <3>1. \A k \in Nat \ {0} : (0 + k - 1) \div k = 0
      OBVIOUS
    <3>2. h = 0
      BY <2>1, <2>3, <3>1 DEF BilledHours
    <3> QED
      BY <2>3, <3>2
  <2> QED
    BY <2>2, <2>3
<1> HIDE DEF h
<1>3. h * lot.price \in Int /\ (h * lot.price < 0 <=> h > 0 /\ lot.price < 0)
  <2>1. CASE lot.price < 0
    <3>1. \A n \in Nat, k \in Int : k < 0 => (n * k < 0 <=> n > 0)
      OBVIOUS
    <3> QED
      BY <1>1, <1>2, <2>1, <3>1
  <2>2. CASE lot.price >= 0
    <3>1. \A n \in Nat, k \in Int : k >= 0 => n * k >= 0
      OBVIOUS
    <3>2. h * lot.price >= 0 /\ h * lot.price \in Int
      BY <1>1, <1>2, <2>2, <3>1
    <3> QED
      BY <1>1, <2>2, <3>2
  <2> QED
    BY <1>1, <2>1, <2>2
<1>4. Fee(lot, d) = IF lot.hourly THEN Lesser(h * lot.price, lot.max) ELSE lot.price
  BY DEF Fee, h
<1> DEFINE p == h * lot.price
<1>5. p \in Int /\ (p < 0 <=> d > 0 /\ lot.price < 0)
  BY <1>2, <1>3
<1>6. Fee(lot, d) = IF lot.hourly THEN Lesser(p, lot.max) ELSE lot.price
  BY <1>4
<1> HIDE DEF p
<1> QED
  BY <1>1, <1>5, <1>6 DEF Lesser

LEMMA calculatePriceType ==
  ASSUME NEW db \in Image, NEW d \in Int, NEW lot
  PROVE  calculatePrice(db, d, lot) \in Int
  BY FeeBounds, LotRow DEF calculatePrice, LiveLots
=============================================================================
