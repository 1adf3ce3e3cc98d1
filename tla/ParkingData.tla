----------------------------- MODULE ParkingData -----------------------------
(***************************************************************************)
(* The tables of the parking database and the pure operations of class     *)
(* Database (server/Src/db.cpp) on them.                                   *)
(*                                                                         *)
(* Every table has an AUTOINCREMENT key, so ids are handed out 1, 2, 3 ... *)
(* and never again: a table is a sequence and a row's id its index.  A     *)
(* DELETE clears the row's "live" flag.  No statement deletes from Log.    *)
(* A Log row whose end_time IS NULL has "open" TRUE, and end and total 0.  *)
(***************************************************************************)
EXTENDS Integers, Sequences

CONSTANTS
  Customers,    (* license ids                                             *)
  CityNames,    (* names of cities                                         *)
  Places,       (* <<latitude, longitude>> pairs, on an integer grid       *)
  Nowhere,      (* a position one of whose coordinates is not a number     *)
  SecPerHour    (* length of a billing hour; 3600 in the code              *)

ASSUME ParkingDataAssumption ==
  /\ Places \subseteq Int \X Int
  /\ Nowhere \notin Places
  /\ SecPerHour \in Nat \ {0}

City    == [name : CityNames, live : BOOLEAN]
\* Nobody checks the sign of a price.
Lot     == [city : Nat, place : Places, hourly : BOOLEAN, price : Int,
            max : Int, live : BOOLEAN]
Session == [cust : Customers, lot : Nat, start : Nat, open : BOOLEAN,
            end : Nat, total : Int]

\* One database file: does the schema exist, and the three tables.
Image == [schema : BOOLEAN, cities : Seq(City), lots : Seq(Lot),
          log : Seq(Session)]

\* A file SQLite has just created.
EmptyImage == [schema |-> FALSE, cities |-> <<>>, lots |-> <<>>, log |-> <<>>]

-----------------------------------------------------------------------------
(* Lots                                                                    *)

LiveLots(db) == {i \in DOMAIN db.lots : db.lots[i].live}

SqDist(p, q) == (p[1] - q[1]) * (p[1] - q[1]) + (p[2] - q[2]) * (p[2] - q[2])

\* The lot findClosestLot answers after the rows up to id n: the nearest, and
\* of equally near ones the first.  At most one id, none without lots, and
\* none for a position whose every distance is not a number.
\* (ClosestLotScan shows that the code's loop computes it.)
ClosestUpTo(db, place, n) ==
  LET seen == {i \in LiveLots(db) : i <= n /\ place # Nowhere}
      dist(i) == SqDist(db.lots[i].place, place)
  IN  {i \in seen : \A j \in seen :
         dist(i) < dist(j) \/ (dist(i) = dist(j) /\ i <= j)}

\* Hours started, none for a stop that lies before its start.
BilledHours(duration) ==
  ((IF duration > 0 THEN duration ELSE 0) + SecPerHour - 1) \div SecPerHour

Lesser(a, b) == IF a < b THEN a ELSE b

Fee(lot, duration) ==
  IF lot.hourly THEN Lesser(BilledHours(duration) * lot.price, lot.max)
                ELSE lot.price

\* 0 for a lot that is not in the table (any more).
calculatePrice(db, duration, lot) ==
  IF lot \in LiveLots(db) THEN Fee(db.lots[lot], duration) ELSE 0

-----------------------------------------------------------------------------
(* Sessions                                                                *)

OpenSession(cust, lot, start) ==
  [cust |-> cust, lot |-> lot, start |-> start, open |-> TRUE,
   end |-> 0, total |-> 0]

ClosedSession(s, end, total) ==
  [s EXCEPT !.open = FALSE, !.end = end, !.total = total]

\* Mutant: endParking also finds sessions that have an end_time.
OpenIds_closedToo(db, cust) == {i \in DOMAIN db.log : db.log[i].cust = cust}

\* Mutant: endParking does not ask for the customer.
OpenIds_anyone(db, cust) == {i \in DOMAIN db.log : db.log[i].open}

OpenIds(db, cust) ==
  {i \in DOMAIN db.log : db.log[i].cust = cust /\ db.log[i].open}

\* Mutant: ORDER BY lacks its DESC.
NewestOpen_oldest(db, cust) ==
  {i \in OpenIds(db, cust) : \A j \in OpenIds(db, cust) : i <= j}

\* ORDER BY log_id DESC LIMIT 1
NewestOpen(db, cust) ==
  {i \in OpenIds(db, cust) : \A j \in OpenIds(db, cust) : j <= i}

insertLog(db, s) == [db EXCEPT !.log = Append(@, s)]

\* Mutant: the UPDATE leaves an end_time that is not NULL, but not the price.
updateLog_keepsEnd(db, id, end, total) ==
  [db EXCEPT !.log =
     [i \in DOMAIN @ |->
        IF i # id THEN @[i]
        ELSE ClosedSession(@[i], IF @[i].open THEN end ELSE @[i].end, total)]]

\* UPDATE ... WHERE log_id = id; it touches nothing when there is no such row.
updateLog(db, id, end, total) ==
  [db EXCEPT !.log =
     [i \in DOMAIN @ |-> IF i = id THEN ClosedSession(@[i], end, total) ELSE @[i]]]

-----------------------------------------------------------------------------
(* Statements of the price updater.  A DELETE or UPDATE that matches no row *)
(* succeeds and changes nothing; so does one of a row deleted before.       *)

HasLiveCity(db, name) ==
  \E i \in DOMAIN db.cities : db.cities[i].live /\ db.cities[i].name = name

\* A row that was deleted.
Deleted(r) == [r EXCEPT !.live = FALSE]

LiveCities(db) == {i \in DOMAIN db.cities : db.cities[i].live}

insertCity(db, name) ==
  [db EXCEPT !.cities = Append(@, [name |-> name, live |-> TRUE])]

deleteCity(db, city) ==
  [db EXCEPT !.cities =
     [i \in DOMAIN @ |-> IF i = city THEN Deleted(@[i]) ELSE @[i]]]

\* Mutant: the lots are matched by lot_id.
deleteLotsOf_lotId(db, city) ==
  [db EXCEPT !.lots =
     [i \in DOMAIN @ |-> IF i = city THEN Deleted(@[i]) ELSE @[i]]]

\* removeCity's first statement: DELETE FROM Lot WHERE city_id = ?
deleteLotsOf(db, city) ==
  [db EXCEPT !.lots =
     [i \in DOMAIN @ |-> IF @[i].city = city THEN Deleted(@[i]) ELSE @[i]]]

\* Foreign keys are declared but the code never enables them (PRAGMA
\* foreign_keys): the city need not exist.
insertLot(db, city, place, hourly, price, max) ==
  [db EXCEPT !.lots =
     Append(@, [city |-> city, place |-> place, hourly |-> hourly,
                price |-> price, max |-> max, live |-> TRUE])]

deleteLot(db, lot) ==
  [db EXCEPT !.lots =
     [i \in DOMAIN @ |-> IF i = lot THEN Deleted(@[i]) ELSE @[i]]]

\* A max_daily that is not positive leaves the stored one.
Repriced(r, price, max) ==
  [r EXCEPT !.price = price, !.max = IF max > 0 THEN max ELSE r.max]

updateLotPrice(db, lot, price, max) ==
  [db EXCEPT !.lots =
     [i \in DOMAIN @ |->
        IF i = lot /\ @[i].live
          THEN Repriced(@[i], price, max)
          ELSE @[i]]]

setLotType(db, lot, hourly) ==
  [db EXCEPT !.lots =
     [i \in DOMAIN @ |->
        IF i = lot /\ @[i].live THEN [@[i] EXCEPT !.hourly = hourly] ELSE @[i]]]

=============================================================================
