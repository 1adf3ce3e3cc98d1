------------------------- MODULE ClosestLotScan_proof -------------------------
(***************************************************************************)
(* findClosestLot's loop answers ClosestUpTo, for every table of lots.     *)
(***************************************************************************)
EXTENDS ClosestLotScan, ParkingData_proof

(* Distances are integers, whatever the places.                            *)
LEMMA SqDistType ==
  ASSUME NEW p \in Places, NEW q \in Places
  PROVE  SqDist(p, q) \in Int /\ SqDist(p, q) < MaxDouble
<1>1. p \in Int \X Int /\ q \in Int \X Int
  BY ParkingDataAssumption
<1>2. \A m, n \in Int : (m - n) * (m - n) \in Int
  OBVIOUS
<1>3. p[1] \in Int /\ p[2] \in Int /\ q[1] \in Int /\ q[2] \in Int
  BY <1>1
<1>4. (p[1] - q[1]) * (p[1] - q[1]) \in Int /\ (p[2] - q[2]) * (p[2] - q[2]) \in Int
  BY <1>2, <1>3
<1> QED
  BY <1>4, ClosestLotScanAssumption DEF SqDist

LEMMA LotPlace ==
  ASSUME TypeOK, NEW i \in LiveLots(db)
  PROVE  i \in Nat /\ i > 0 /\ i <= Len(db.lots) /\ db.lots[i].place \in Places
<1>1. db.lots \in Seq(Lot)
  BY ImageParts DEF TypeOK
<1>2. i \in DOMAIN db.lots /\ db.lots[i] \in Lot
  BY <1>1, RowType DEF LiveLots
<1>3. i \in Nat /\ i > 0 /\ i <= Len(db.lots)
  BY <1>1, <1>2
<1>4. db.lots[i].place \in Places
  BY <1>2 DEF Lot
<1> QED
  BY <1>3, <1>4

LEMMA InitInv ==
  ASSUME Init
  PROVE  TypeOK /\ ClosestSoFar
<1>1. db \in Image /\ db.lots \in Seq(Lot)
  BY ClosestLotScanAssumption, ImageParts DEF Init
<1>2. TypeOK
  <2>1. 0 \in 0 .. Len(db.lots)
    BY <1>1
  <2>2. MaxDouble \in Int
    BY ClosestLotScanAssumption
  <2> QED
    BY <1>1, <2>1, <2>2 DEF Init, TypeOK
<1>3. \A i \in LiveLots(db) : i > 0
  BY <1>2, LotPlace
<1> QED
  BY <1>2, <1>3 DEF Init, ClosestSoFar

LEMMA TypeStep ==
  ASSUME TypeOK, [Next]_vars
  PROVE  TypeOK'
<1>1. db.lots \in Seq(Lot) /\ Len(db.lots) \in Nat
  BY ImageParts DEF TypeOK
<1>2. CASE Keep
  <2>1. seen + 1 \in Nat /\ seen + 1 <= Len(db.lots) /\ db.lots[seen + 1].place \in Places
    BY <1>2, LotPlace DEF Keep, Row
  <2>2. place \in Places
    BY <1>2 DEF Keep, Nearer, TypeOK
  <2>3. SqDist(db.lots[seen + 1].place, place) \in Int
    BY <2>1, <2>2, SqDistType
  <2> QED
    BY <1>1, <1>2, <2>1, <2>3 DEF Keep, TypeOK
<1>3. CASE PassOver
  <2>1. seen + 1 <= Len(db.lots)
    BY <1>3, LotPlace DEF PassOver, Row
  <2> QED
    BY <1>1, <1>3, <2>1 DEF PassOver, TypeOK
<1>4. CASE NoRow
  BY <1>1, <1>4 DEF NoRow, TypeOK
<1>5. CASE End \/ CutShort
  BY <1>5 DEF End, CutShort, TypeOK
<1>6. CASE UNCHANGED vars
  BY <1>6 DEF vars, TypeOK
<1> QED
  BY <1>2, <1>3, <1>4, <1>5, <1>6 DEF Next

(* Every row keeps min_dist the least distance and lot_id its first lot.   *)
LEMMA ClosestStep ==
  ASSUME TypeOK, ClosestSoFar, [Next]_vars
  PROVE  ClosestSoFar'
<1> DEFINE dist(i) == SqDist(db.lots[i].place, place)
<1>1. seen \in Nat
  BY DEF TypeOK
<1>2. \A i \in LiveLots(db) : i \in Nat
  BY LotPlace
<1>3. ASSUME place # Nowhere, NEW i \in LiveLots(db)
      PROVE  dist(i) \in Int /\ dist(i) < MaxDouble
  BY <1>3, LotPlace, SqDistType DEF TypeOK
<1>4. found =>
        /\ place # Nowhere /\ lot_id \in LiveLots(db) /\ lot_id <= seen
        /\ min_dist = dist(lot_id)
        /\ \A j \in LiveLots(db) : j <= seen =>
             dist(lot_id) < dist(j) \/ (dist(lot_id) = dist(j) /\ lot_id <= j)
  BY DEF ClosestSoFar, ClosestUpTo
<1>5. CASE Keep
  <2>1. /\ place # Nowhere /\ place' = place /\ db' = db
        /\ seen + 1 \in LiveLots(db) /\ dist(seen + 1) < min_dist
        /\ seen' = seen + 1 /\ lot_id' = seen + 1 /\ found'
        /\ min_dist' = dist(seen + 1)
    BY <1>5 DEF Keep, Row, Nearer
  <2>2. ASSUME NEW j \in LiveLots(db), j <= seen + 1, j # seen + 1
        PROVE  dist(seen + 1) < dist(j)
    <3>1. j <= seen
      BY <1>1, <1>2, <2>2
    <3>2. found
      BY <3>1, <2>1, <1>1, <1>2 DEF ClosestSoFar
    <3>3. dist(lot_id) \in Int /\ dist(j) \in Int /\ dist(seen + 1) \in Int
          /\ dist(seen + 1) < dist(lot_id) /\ dist(lot_id) <= dist(j)
      BY <1>3, <1>4, <2>1, <3>1, <3>2
    <3> HIDE DEF dist
    <3> QED
      BY <3>3
  <2>3. seen + 1 \in ClosestUpTo(db, place, seen + 1)
    BY <1>1, <2>1, <2>2 DEF ClosestUpTo
  <2> QED
    BY <2>1, <2>3 DEF ClosestSoFar
<1>6. CASE PassOver
  <2>1. /\ UNCHANGED <<db, place, lot_id, min_dist, found>>
        /\ seen + 1 \in LiveLots(db) /\ seen' = seen + 1
        /\ place = Nowhere \/ ~(dist(seen + 1) < min_dist)
    BY <1>6 DEF PassOver, Row, Nearer
  <2>2. CASE found
    <3>1. dist(lot_id) \in Int /\ dist(seen + 1) \in Int /\ dist(lot_id) <= dist(seen + 1)
      BY <1>3, <1>4, <2>1, <2>2
    <3>2. lot_id \in Nat /\ lot_id <= seen /\ lot_id \in LiveLots(db)
      BY <1>2, <1>4, <2>2
    <3>3. ASSUME NEW j \in LiveLots(db), j <= seen + 1
          PROVE  dist(lot_id) < dist(j) \/ (dist(lot_id) = dist(j) /\ lot_id <= j)
      <4>1. CASE j = seen + 1
        <5> HIDE DEF dist
        <5> QED
          BY <1>1, <3>1, <3>2, <4>1
      <4>2. CASE j # seen + 1
        BY <1>1, <1>2, <1>4, <2>2, <3>3, <4>2
      <4> QED
        BY <4>1, <4>2
    <3>4. lot_id \in ClosestUpTo(db, place, seen + 1)
      BY <1>1, <1>4, <2>2, <3>2, <3>3 DEF ClosestUpTo
    <3> QED
      BY <1>4, <2>1, <2>2, <3>4 DEF ClosestSoFar
  <2>3. CASE ~found
    <3>1. place = Nowhere
      BY <1>3, <2>1, <2>3 DEF ClosestSoFar
    <3> QED
      BY <2>1, <2>3, <3>1 DEF ClosestSoFar
  <2> QED
    BY <2>2, <2>3
<1>7. CASE NoRow
  <2>1. /\ UNCHANGED <<db, place, lot_id, min_dist, found>>
        /\ seen + 1 \notin LiveLots(db) /\ seen' = seen + 1
    BY <1>7 DEF NoRow, Row
  <2>2. {i \in LiveLots(db) : i <= seen + 1} = {i \in LiveLots(db) : i <= seen}
    BY <1>1, <1>2, <2>1
  <2>3. ClosestUpTo(db, place, seen + 1) = ClosestUpTo(db, place, seen)
    BY <2>2 DEF ClosestUpTo
  <2>4. \A i \in LiveLots(db) : i > seen => i > seen + 1
    BY <1>1, <1>2, <2>1
  <2> QED
    BY <2>1, <2>3, <2>4 DEF ClosestSoFar
<1>8. CASE End \/ CutShort \/ UNCHANGED vars
  BY <1>8 DEF End, CutShort, vars, ClosestSoFar
<1> QED
  BY <1>5, <1>6, <1>7, <1>8 DEF Next

(* findClosestLot answers the nearest lot of the rows it has seen, or none *)
(* when there is none.                                                     *)
THEOREM ScanAnswersClosest == Spec => []AnswersClosest
<1>1. TypeOK /\ ClosestSoFar => AnswersClosest
  <2> SUFFICES ASSUME TypeOK, ClosestSoFar, ~found
               PROVE  ClosestUpTo(db, place, seen) = {}
    BY DEF ClosestSoFar, AnswersClosest
  <2>1. CASE place = Nowhere
    BY <2>1 DEF ClosestUpTo
  <2>2. CASE place # Nowhere
    <3>1. \A i \in LiveLots(db) : i > seen /\ i \in Nat /\ seen \in Nat
      BY <2>2, LotPlace DEF ClosestSoFar, TypeOK
    <3> QED
      BY <3>1 DEF ClosestUpTo
  <2> QED
    BY <2>1, <2>2
<1>2. TypeOK /\ ClosestSoFar /\ [Next]_vars => TypeOK' /\ ClosestSoFar'
  BY TypeStep, ClosestStep
<1> QED
  BY <1>1, <1>2, InitInv, PTL DEF Spec

(* After every row of findClosestLot's loop, lot_id is the nearest lot so  *)
(* far and min_dist its distance, whatever rows were deleted.              *)
THEOREM AlwaysClosestSoFar == Spec => []ClosestSoFar
<1>1. TypeOK /\ ClosestSoFar /\ [Next]_vars => TypeOK' /\ ClosestSoFar'
  BY TypeStep, ClosestStep
<1> QED
  BY <1>1, InitInv, PTL DEF Spec

(* The loop of findClosestLot never goes past the last row, and answers    *)
(* the id of a row or none.                                                *)
THEOREM ScanStaysInTable == Spec => []TypeOK
  BY InitInv, TypeStep, PTL DEF Spec
=============================================================================
