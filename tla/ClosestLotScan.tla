---------------------------- MODULE ClosestLotScan ----------------------------
(***************************************************************************)
(* The loop of Database::findClosestLot (server/Src/db.cpp): one pass over *)
(* the table of lots, in the order of their ids, that keeps the nearest    *)
(* lot so far.  ParksysDB takes its result, ClosestUpTo, in one step.      *)
(*                                                                         *)
(* The two coordinates arrive as floats, and one that is NaN passes every  *)
(* check on its way (GpsMsg): then so is every distance, and no comparison *)
(* with it is true.                                                        *)
(***************************************************************************)
EXTENDS ParkingData

CONSTANTS
  Tables,     (* databases to search                                       *)
  MaxDouble   (* min_dist at first: numeric_limits<double>::max()          *)

ASSUME ClosestLotScanAssumption ==
  /\ Tables \subseteq Image
  /\ MaxDouble \in Nat
  /\ \A p, q \in Places : SqDist(p, q) < MaxDouble

VARIABLES
  db, place,        (* what is searched, and for which position            *)
  seen,             (* rows sqlite3_step has returned or passed over       *)
  lot_id, min_dist, found,
  pc

vars == <<db, place, seen, lot_id, min_dist, found, pc>>

Init ==
  /\ db \in Tables
  /\ place \in Places \cup {Nowhere}
  /\ seen = 0
  /\ lot_id = 0
  /\ min_dist = MaxDouble
  /\ found = FALSE
  /\ pc = "scan"

\* The next row is a lot, not an id that was deleted.
Row == pc = "scan" /\ seen + 1 \in LiveLots(db)

\* Mutant: of two equally near lots the later one is kept.
Nearer_orEqual(i) == place # Nowhere /\ SqDist(db.lots[i].place, place) <= min_dist

\* dist < min_dist
Nearer(i) == place # Nowhere /\ SqDist(db.lots[i].place, place) < min_dist

Keep ==
  /\ Row
  /\ Nearer(seen + 1)
  /\ seen' = seen + 1
  /\ lot_id' = seen + 1
  /\ min_dist' = SqDist(db.lots[seen + 1].place, place)
  /\ found' = TRUE
  /\ UNCHANGED <<db, place, pc>>

\* Mutant: the scan stops at the first lot that is no nearer.
PassOver_breaks ==
  /\ Row /\ ~Nearer(seen + 1)
  /\ pc' = "done"
  /\ seen' = Len(db.lots)
  /\ UNCHANGED <<db, place, lot_id, min_dist, found>>

PassOver ==
  /\ Row /\ ~Nearer(seen + 1)
  /\ seen' = seen + 1
  /\ UNCHANGED <<db, place, lot_id, min_dist, found, pc>>

\* There is no row with the next id.
NoRow ==
  /\ pc = "scan" /\ seen < Len(db.lots) /\ ~Row
  /\ seen' = seen + 1
  /\ UNCHANGED <<db, place, lot_id, min_dist, found, pc>>

\* sqlite3_step answers SQLITE_DONE.
End ==
  /\ pc = "scan" /\ seen = Len(db.lots)
  /\ pc' = "done"
  /\ UNCHANGED <<db, place, seen, lot_id, min_dist, found>>

\* sqlite3_step answers an error; the loop ends as if the rows had.
CutShort ==
  /\ pc = "scan" /\ seen < Len(db.lots)
  /\ pc' = "done"
  /\ UNCHANGED <<db, place, seen, lot_id, min_dist, found>>

Next == Keep \/ PassOver \/ NoRow \/ End \/ CutShort

Spec == Init /\ [][Next]_vars

-----------------------------------------------------------------------------
TypeOK ==
  /\ db \in Image
  /\ place \in Places \cup {Nowhere}
  /\ seen \in 0 .. Len(db.lots)
  /\ lot_id \in Nat
  /\ min_dist \in Int
  /\ found \in BOOLEAN
  /\ pc \in {"scan", "done"}

\* The function answers the nearest of the lots it has seen, the oldest one
\* of those equally near, and nothing only when it has seen no lot or was
\* not given a position: what ParksysDB takes for granted.
AnswersClosest ==
  pc = "done" =>
    IF found THEN lot_id \in ClosestUpTo(db, place, seen)
             ELSE ClosestUpTo(db, place, seen) = {}

\* Why: it is so after every row, and min_dist is the distance of lot_id.
ClosestSoFar ==
  IF found
    THEN /\ place # Nowhere
         /\ lot_id \in ClosestUpTo(db, place, seen)
         /\ min_dist = SqDist(db.lots[lot_id].place, place)
    ELSE /\ min_dist = MaxDouble
         /\ place = Nowhere \/ \A i \in LiveLots(db) : i > seen
=============================================================================
