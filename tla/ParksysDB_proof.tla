--------------------------- MODULE ParksysDB_proof ---------------------------
(***************************************************************************)
(* Theorems about ParksysDB, for any threads, tools, requests, commands    *)
(* and first backup file.                                                  *)
(***************************************************************************)
EXTENDS ParksysDB, ParkingData_proof

(* What the constructor leaves in shared memory is a database.             *)
LEMMA OpenedType ==
  ASSUME TypeOK, NEW mayFail, NEW o \in Opened(mayFail)
  PROVE  /\ o.alive \in BOOLEAN /\ o.diskOk \in BOOLEAN /\ o.shm \in Image
         /\ \E i \in {shm, disk} : o.shm.log = i.log /\ o.shm.lots = i.lots
<1> DEFINE restored == {disk} \cup IF mayFail THEN {shm} ELSE {}
<1>1. restored \subseteq {shm, disk} /\ shm \in Image /\ disk \in Image
  BY DEF TypeOK
<1>2. \/ \E i \in restored : o = [alive |-> TRUE, diskOk |-> TRUE,
                                   shm |-> [i EXCEPT !.schema = TRUE]]
      \/ \E i \in restored : o = [alive |-> FALSE, diskOk |-> TRUE, shm |-> i]
      \/ o = [alive |-> TRUE, diskOk |-> FALSE, shm |-> shm]
  BY Zenon DEF Opened
<1> HIDE DEF restored
<1>3. CASE \E i \in restored : o = [alive |-> TRUE, diskOk |-> TRUE,
                                     shm |-> [i EXCEPT !.schema = TRUE]]
  <2> PICK i \in restored : o = [alive |-> TRUE, diskOk |-> TRUE,
                                  shm |-> [i EXCEPT !.schema = TRUE]]
    BY <1>3
  <2>1. i \in {shm, disk} /\ i \in Image
    BY <1>1
  <2> QED
    BY <2>1, SchemaType
<1>4. CASE \E i \in restored : o = [alive |-> FALSE, diskOk |-> TRUE, shm |-> i]
  BY <1>1, <1>4
<1>5. CASE o = [alive |-> TRUE, diskOk |-> FALSE, shm |-> shm]
  BY <1>1, <1>5
<1> QED
  BY <1>2, <1>3, <1>4, <1>5

(* A flush leaves the disk as it was or equal to shared memory.            *)
LEMMA FlushedIs ==
  ASSUME NEW ok, NEW mayFail, NEW d \in Flushed(ok, mayFail)
  PROVE  d = shm \/ d = disk
  BY DEF Flushed

(* A received request has a type, a customer, a place and a time.          *)
LEMMA RequestParts ==
  ASSUME NEW r \in Request
  PROVE  /\ r.type \in {"START", "STOP", "IDLE"}
         /\ r.cust \in Customers /\ r.place \in Places \cup {Nowhere} /\ r.time \in Nat
  BY DEF Request

(* A statement of the updater writes the tables of cities and lots only.   *)
UpdaterStatement(u) ==
  \/ AddCity(u) \/ RemoveCityLots(u) \/ RemoveCity(u)
  \/ AddLot(u) \/ RemoveLot(u) \/ UpdateLotPrice(u) \/ SetLotType(u)

LEMMA StatementOutcome ==
  ASSUME TypeOK, NEW u \in Tools, UpdaterStatement(u)
  PROVE  /\ \E i \in Image : \E step \in {"flush", "city"} :
              SameSessions(i, shm) /\ Statement(u, i, step)
         /\ tpc[u] # "idle"
<1>0. shm \in Image /\ cmd[u] \in Command /\ SameSessions(shm, shm)
  BY DEF TypeOK, SameSessions
<1>1. CASE AddCity(u)
  <2>1. cmd[u].name \in CityNames
    BY <1>0, <1>1 DEF AddCity, Runs, Command
  <2> QED
    BY <1>0, <1>1, <2>1, insertCityType DEF AddCity, Runs, SameSessions
<1>2. CASE RemoveCityLots(u)
  BY <1>0, <1>2, deleteLotsOfType DEF RemoveCityLots, Runs, SameSessions
<1>3. CASE RemoveCity(u)
  BY <1>0, <1>3, deleteCityType DEF RemoveCity, SameSessions
<1>4. CASE AddLot(u)
  <2>1. /\ cmd[u].city \in Nat /\ cmd[u].place \in Places
        /\ cmd[u].hourly \in BOOLEAN /\ cmd[u].price \in Int /\ cmd[u].max \in Int
    BY <1>0, <1>4 DEF AddLot, Runs, Command
  <2> DEFINE i == insertLot(shm, cmd[u].city, cmd[u].place, cmd[u].hourly,
                            cmd[u].price, cmd[u].max)
  <2>2. SameSessions(i, shm)
    BY <1>0, <2>1, insertLotType
  <2>3. i \in Image
    BY <2>2 DEF SameSessions
  <2>4. Statement(u, i, "flush") /\ tpc[u] # "idle"
    BY <1>4 DEF AddLot, Runs
  <2> HIDE DEF i
  <2> QED
    BY <2>2, <2>3, <2>4
<1>5. CASE RemoveLot(u)
  BY <1>0, <1>5, deleteLotType DEF RemoveLot, Runs, SameSessions
<1>6. CASE UpdateLotPrice(u)
  <2>1. cmd[u].price \in Int /\ cmd[u].max \in Int
    BY <1>0, <1>6 DEF UpdateLotPrice, Runs, Command
  <2> QED
    BY <1>0, <1>6, <2>1, updateLotPriceType DEF UpdateLotPrice, Runs, SameSessions
<1>7. CASE SetLotType(u)
  <2>1. cmd[u].hourly \in BOOLEAN
    BY <1>0, <1>7 DEF SetLotType, Runs, Command
  <2> QED
    BY <1>0, <1>7, <2>1, setLotTypeType DEF SetLotType, Runs, SameSessions
<1> QED
  BY <1>1, <1>2, <1>3, <1>4, <1>5, <1>6, <1>7 DEF UpdaterStatement

(* What a step of handle_request needs to know of the thread's locals.     *)
LEMMA StepFits ==
  ASSUME TypeOK, StepFitsRequest, [Next]_vars
  PROVE  StepFitsRequest'
<1> USE DEF StepFitsRequest
<1>1. CASE Boot
  BY <1>1 DEF Boot, locals
<1>2. CASE Crash \/ Reboot
  BY <1>2 DEF Crash, Reboot, ThreadsDie
<1>3. ASSUME NEW t \in Threads, Receive(t) PROVE StepFitsRequest'
  BY <1>3 DEF Receive, Goto, TypeOK
<1>4. ASSUME NEW t \in Threads, Fail(t) PROVE StepFitsRequest'
  BY <1>4 DEF Fail, Finish, Goto, TypeOK
<1>5. ASSUME NEW t \in Threads, ThreadStep(t) PROVE StepFitsRequest'
  <2>1. CASE FindLot(t)
    BY <2>1 DEF FindLot, Goto, TypeOK
  <2>2. CASE Insert(t) \/ Select(t) \/ Price(t) \/ Update(t)
    BY <2>2 DEF Insert, Select, Price, Update, Goto, TypeOK
  <2>3. CASE FlushAndAck(t)
    BY <2>3 DEF FlushAndAck, Finish, Goto, TypeOK
  <2> QED
    BY <1>4, <1>5, <2>1, <2>2, <2>3
       DEF ThreadStep, FindNoLot, InsertFails, SelectFails, UpdateFails
<1>6. ASSUME NEW u \in Tools, Launch(u) \/ ToolStep(u) \/ ToolKilled(u)
      PROVE  UNCHANGED locals
  BY <1>6 DEF Launch, ToolStep, ToolKilled, AddCity, RemoveCityLots, RemoveCity,
              AddLot, RemoveLot, UpdateLotPrice, SetLotType, Statement,
              ToolGivesUp, ToolFlush, ToolClose
<1>7. CASE UNCHANGED vars
  BY <1>7 DEF vars, locals
<1> QED
  BY <1>1, <1>2, <1>3, <1>5, <1>6, <1>7 DEF Next, locals

(* Locals and command line of what is idle.                                *)
LEMMA NoneType == NoRow \in Row /\ NoCmd \in Command
  BY DEF NoRow, Row, NoCmd, Command

LEMMA InitTypeOK ==
  ASSUME Init
  PROVE  TypeOK /\ StepFitsRequest
<1>1. shm \in Image /\ disk \in Image
  BY ParksysDBAssumption, EmptyImageType DEF Init
<1>2. cmd \in [Tools -> Command]
  BY NoneType DEF Init
<1>3. row \in [Threads -> Row]
  BY NoneType DEF Init
<1> QED
  BY <1>1, <1>2, <1>3 DEF Init, TypeOK, StepFitsRequest

(* Every variable keeps its type: files stay well-formed tables, and a      *)
(* thread in the middle of handle_request has a request to work on.         *)
THEOREM TypeCorrect == Spec => []TypeOK
<1>1. Init => TypeOK /\ StepFitsRequest
  BY InitTypeOK
<1>2. TypeOK /\ StepFitsRequest /\ [Next]_vars => TypeOK'
  <2> SUFFICES ASSUME TypeOK, StepFitsRequest, [Next]_vars PROVE TypeOK'
    OBVIOUS
  <2> USE DEF TypeOK
  <2>1. CASE Boot
    BY <2>1, OpenedType DEF Boot, locals, tvars
  <2>2. CASE Crash
    BY <2>2, NoneType DEF Crash, ThreadsDie, files, tvars
  <2>3. CASE Reboot
    BY <2>3, NoneType, EmptyImageType DEF Reboot, ThreadsDie
  <2>4. ASSUME NEW t \in Threads, Receive(t) PROVE TypeOK'
    <3>1. PICK r \in Feed[t] : req' = [req EXCEPT ![t] = r]
      BY <2>4 DEF Receive
    <3>2. r \in Request
      BY ParksysDBAssumption
    <3>3. req' \in [Threads -> Request \cup {NoReq}]
      BY <3>1, <3>2
    <3>4. \A s \in Threads : pc'[s] # "idle" => req'[s] \in Request
      BY <2>4, <3>1, <3>2 DEF Receive, Goto
    <3> QED
      BY <2>4, <3>3, <3>4 DEF Receive, Goto, files, tvars
  <2>5. ASSUME NEW t \in Threads, ThreadStep(t) PROVE TypeOK'
    <3>1. CASE FindLot(t)
      <4>1. PICK i \in LiveLots(shm) : row' = [row EXCEPT ![t].lot = i]
        BY <3>1 DEF FindLot, ClosestUpTo
      <4>2. i \in Nat
        BY ImageParts, RowType DEF LiveLots
      <4>3. row' \in [Threads -> Row]
        BY <4>1, <4>2 DEF Row
      <4> QED
        BY <3>1, <4>3 DEF FindLot, Goto, files, tvars
    <3>2. ASSUME Fail(t) PROVE TypeOK'
      BY <3>2 DEF Fail, Finish, Goto, files, tvars, Row, NoRow
    <3>3. CASE Insert(t)
      <4>1. req[t] \in Request /\ row[t].lot \in Nat
        BY <3>3 DEF Insert, Row
      <4>2. OpenSession(req[t].cust, row[t].lot, req[t].time) \in Session
        BY <4>1, RequestParts DEF OpenSession, Session
      <4>3. shm' \in Image /\ Len(shm.log) + 1 \in Nat
        BY <3>3, <4>2, InsertLogType, ImageParts DEF Insert
      <4>4. row' \in [Threads -> Row]
        <5>1. row \in [Threads -> Row]
              /\ row' = [row EXCEPT ![t] = [row[t] EXCEPT !.id = Len(shm.log) + 1]]
          BY <3>3 DEF Insert
        <5>2. [row[t] EXCEPT !.id = Len(shm.log) + 1] \in Row
          BY <4>3, <5>1 DEF Row
        <5> QED BY <5>1, <5>2
      <4> QED
        BY <3>3, <4>3, <4>4 DEF Insert, Goto, tvars
    <3>4. CASE Select(t)
      <4>1. PICK i \in NewestOpen(shm, req[t].cust) :
              row' = [row EXCEPT ![t] = [id |-> i, lot |-> shm.log[i].lot,
                                         start |-> shm.log[i].start, total |-> 0]]
        BY <3>4 DEF Select
      <4>2. i \in Nat /\ shm.log[i] \in Session
        BY ImageParts, RowType DEF NewestOpen, OpenIds
      <4>3. row' \in [Threads -> Row]
        BY <4>1, <4>2 DEF Row, Session
      <4> QED
        BY <3>4, <4>3 DEF Select, Goto, files, tvars
    <3>5. CASE Price(t)
      <4>1. req[t].time - row[t].start \in Int
        BY <3>5, RequestParts DEF Price, Row
      <4>2. calculatePrice(shm, req[t].time - row[t].start, row[t].lot) \in Int
        BY <4>1, calculatePriceType
      <4>3. \E p \in Int : row' = [row EXCEPT ![t].total = p]
        <5>1. 0 \in Int
          OBVIOUS
        <5> QED BY <3>5, <4>2, <5>1, Zenon DEF Price
      <4>4. row' \in [Threads -> Row]
        BY <4>3 DEF Row
      <4> QED
        BY <3>5, <4>4 DEF Price, Goto, files, tvars
    <3>6. CASE Update(t)
      <4>1. req[t].time \in Nat /\ row[t].total \in Int
        BY <3>6, RequestParts DEF Update, Row
      <4>2. shm' \in Image
        BY <3>6, <4>1, UpdateLogType DEF Update
      <4> QED
        BY <3>6, <4>2 DEF Update, Goto, tvars
    <3>7. CASE FlushAndAck(t)
      <4>1. disk' \in Image
        BY <3>7, FlushedIs DEF FlushAndAck
      <4>2. req[t] \in Request /\ req[t].type \in {"START", "STOP"}
        BY <3>7 DEF FlushAndAck, StepFitsRequest
      <4>3. journal' \subseteq Ack
        BY <3>7, <4>2, RequestParts DEF FlushAndAck, Ack, Row
      <4> QED
        BY <3>7, <4>1, <4>3 DEF FlushAndAck, Finish, Goto, tvars, Row, NoRow
    <3> QED
      BY <2>5, <3>1, <3>2, <3>3, <3>4, <3>5, <3>6, <3>7
         DEF ThreadStep, FindNoLot, InsertFails, SelectFails, UpdateFails
  <2>6. ASSUME NEW u \in Tools, Launch(u) PROVE TypeOK'
    <3>1. PICK c \in Commands, o \in Opened(ToolMayFail(u)) :
            /\ shm' = o.shm
            /\ IF o.alive
                 THEN /\ ToolGoto(u, "op")
                      /\ cmd' = [cmd EXCEPT ![u] = c]
                      /\ tDiskOk' = [tDiskOk EXCEPT ![u] = o.diskOk]
                 ELSE UNCHANGED tvars
      BY <2>6 DEF Launch
    <3>2. c \in Command /\ o.diskOk \in BOOLEAN /\ shm' \in Image
      BY <3>1, OpenedType, ParksysDBAssumption
    <3>3. /\ tpc' \in [Tools -> {"idle", "op", "city", "flush", "close"}]
          /\ cmd' \in [Tools -> Command]
          /\ tDiskOk' \in [Tools -> BOOLEAN]
      BY <3>1, <3>2 DEF ToolGoto, tvars
    <3> QED
      BY <2>6, <3>2, <3>3 DEF Launch, locals
  <2>7. ASSUME NEW u \in Tools, ToolStep(u) PROVE TypeOK'
    <3>1. ASSUME NEW i \in Image, NEW step \in {"flush", "city"},
                 Statement(u, i, step)
          PROVE  TypeOK'
      BY <3>1 DEF Statement, ToolGoto, locals
    <3>2. CASE \/ AddCity(u) \/ RemoveCityLots(u) \/ RemoveCity(u) \/ AddLot(u)
               \/ RemoveLot(u) \/ UpdateLotPrice(u) \/ SetLotType(u)
      BY <3>1, <3>2, StatementOutcome DEF UpdaterStatement
    <3>3. CASE ToolGivesUp(u)
      BY <3>3 DEF ToolGivesUp, ToolGoto, files, locals
    <3>4. CASE ToolFlush(u)
      BY <3>4, FlushedIs DEF ToolFlush, ToolGoto, locals
    <3>5. CASE ToolClose(u)
      <4>1. disk' \in Image
        BY <3>5, FlushedIs DEF ToolClose
      <4> QED
        BY <3>5, <4>1 DEF ToolClose, ToolEnds, ToolGoto, locals, Command, NoCmd
    <3> QED
      BY <2>7, <3>2, <3>3, <3>4, <3>5 DEF ToolStep
  <2>8. ASSUME NEW u \in Tools, ToolKilled(u) PROVE TypeOK'
    BY <2>8 DEF ToolKilled, ToolEnds, ToolGoto, files, locals, Command, NoCmd
  <2>9. CASE UNCHANGED vars
    BY <2>9 DEF vars, files, locals, tvars
  <2> QED
    BY <2>1, <2>2, <2>3, <2>4, <2>5, <2>6, <2>7, <2>8, <2>9 DEF Next
<1>3. TypeOK /\ StepFitsRequest /\ [Next]_vars => StepFitsRequest'
  BY StepFits
<1> QED
  BY <1>1, <1>2, <1>3, PTL DEF Spec

-----------------------------------------------------------------------------
(* What a step of a thread does to the runtime log.                        *)
LEMMA InsertEffect ==
  ASSUME TypeOK, NEW t \in Threads, Insert(t)
  PROVE  /\ shm'.log = Append(shm.log, shm'.log[Len(shm.log) + 1])
         /\ Len(shm'.log) = Len(shm.log) + 1
         /\ shm'.log[Len(shm.log) + 1].open
         /\ \A i \in DOMAIN shm.log : i \in DOMAIN shm'.log /\ shm'.log[i] = shm.log[i]
<1> DEFINE s == OpenSession(req[t].cust, row[t].lot, req[t].time)
<1>1. req[t] \in Request /\ row[t].lot \in Nat
  BY DEF Insert, TypeOK, Row
<1>2. s \in Session /\ s.open
  BY <1>1, RequestParts DEF OpenSession, Session
<1>3. shm'.log = Append(shm.log, s) /\ shm.log \in Seq(Session)
  BY <1>2, InsertLogType, ImageParts DEF Insert, TypeOK
<1> HIDE DEF s
<1> QED
  BY <1>2, <1>3, AppendRows

LEMMA UpdateEffect ==
  ASSUME TypeOK, NEW t \in Threads, Update(t)
  PROVE  /\ shm.log \in Seq(Session)
         /\ shm'.log \in Seq(Session)
         /\ DOMAIN shm'.log = DOMAIN shm.log
         /\ \A i \in DOMAIN shm.log :
              shm'.log[i] = IF i = row[t].id
                              THEN ClosedSession(shm.log[i], req[t].time, row[t].total)
                              ELSE shm.log[i]
<1>1. req[t].time \in Nat /\ row[t].total \in Int /\ shm \in Image
  BY RequestParts DEF Update, TypeOK, Row
<1>2. shm' = updateLog(shm, row[t].id, req[t].time, row[t].total)
  BY DEF Update
<1>3. shm' \in Image
  BY <1>1, <1>2, UpdateLogType
<1> QED
  BY <1>1, <1>2, <1>3, UpdateLogType, ImageParts

LEMMA ClosedParts ==
  ASSUME NEW s \in Session, NEW end \in Nat, NEW total \in Int
  PROVE  LET c == ClosedSession(s, end, total)
         IN  /\ ~c.open /\ c.end = end /\ c.total = total
             /\ c.cust = s.cust /\ c.lot = s.lot /\ c.start = s.start
  BY DEF ClosedSession, Session

-----------------------------------------------------------------------------
(* Under faults.  What follows needs no luck with the disk: any statement, *)
(* backup or restore may fail.  It does need that an updater runs only     *)
(* while the server is down.                                               *)

\* One kind of program runs at a time.
OneProgram ==
  /\ server = "down" => \A t \in Threads : pc[t] = "idle"
  /\ server = "up" => \A u \in Tools : tpc[u] = "idle"

\* The session a thread has made or found is one of the customer who asked.
FoundOwn ==
  \A t \in Threads :
    pc[t] \in {"price", "update", "flush"} =>
      row[t].id \in DOMAIN shm.log /\ shm.log[row[t].id].cust = req[t].cust

Kept == OneProgram /\ FoundOwn

(* With the threads idle, there is no session found.                       *)
LEMMA IdleIsKept ==
  ASSUME \A t \in Threads : pc'[t] = "idle", OneProgram'
  PROVE  Kept'
  BY DEF Kept, FoundOwn

LEMMA InitKept ==
  ASSUME Init
  PROVE  Kept
  BY DEF Init, Kept, OneProgram, FoundOwn

(* Boot, Crash and Reboot.                                                 *)
LEMMA ServerStepsKeep ==
  ASSUME TypeOK, Kept, ~Overlap, Boot \/ Crash \/ Reboot
  PROVE  Kept'
<1>1. /\ \A t \in Threads : pc'[t] = "idle"
      /\ server' = "up" => \A u \in Tools : tpc'[u] = "idle"
  BY DEF Boot, Crash, Reboot, ThreadsDie, locals, tvars, Kept, OneProgram
<1> QED
  BY <1>1, IdleIsKept DEF OneProgram

(* The updater runs with the server down.                                  *)
LEMMA ToolStepsKeep ==
  ASSUME TypeOK, Kept, ~Overlap, NEW u \in Tools,
         Launch(u) \/ ToolStep(u) \/ ToolKilled(u)
  PROVE  Kept' /\ server = "down" /\ \A t \in Threads : pc'[t] = "idle"
<1>1. server = "down"
  <2>1. CASE Launch(u)
    BY <2>1 DEF Launch
  <2>2. CASE ToolStep(u) \/ ToolKilled(u)
    <3>1. tpc[u] # "idle"
      BY <2>2 DEF ToolStep, ToolKilled, AddCity, RemoveCityLots, RemoveCity,
                  AddLot, RemoveLot, UpdateLotPrice, SetLotType, Runs,
                  ToolGivesUp, ToolFlush, ToolClose
    <3> QED
      BY <3>1 DEF TypeOK, Kept, OneProgram
  <2> QED
    BY <2>1, <2>2
<1>2. UNCHANGED <<server, locals>>
  <2>1. CASE UpdaterStatement(u)
    BY <2>1, StatementOutcome DEF Statement
  <2> QED
    BY <2>1 DEF Launch, ToolStep, ToolKilled, ToolGivesUp, ToolFlush, ToolClose,
                UpdaterStatement
<1>3. OneProgram' /\ \A t \in Threads : pc'[t] = "idle"
  BY <1>1, <1>2 DEF locals, Kept, OneProgram
<1> QED
  BY <1>1, <1>3, IdleIsKept

(* A handler thread's steps.                                               *)
LEMMA ThreadStepsKeep ==
  ASSUME TypeOK, Kept, NEW t \in Threads, Receive(t) \/ ThreadStep(t)
  PROVE  Kept' /\ server = "up"
<1>1. server = "up"
  <2>1. CASE Receive(t)
    BY <2>1 DEF Receive
  <2>2. CASE ThreadStep(t)
    <3>1. pc[t] # "idle"
      BY <2>2 DEF ThreadStep, FindLot, FindNoLot, Insert, InsertFails, Select,
                  SelectFails, Price, Update, UpdateFails, FlushAndAck
    <3> QED
      BY <3>1 DEF TypeOK, Kept, OneProgram
  <2> QED
    BY <2>1, <2>2
<1>2. OneProgram'
  <2>1. UNCHANGED <<server, tpc>>
    BY DEF Receive, ThreadStep, FindLot, FindNoLot, Insert, InsertFails, Select,
           SelectFails, Price, Update, UpdateFails, FlushAndAck, Fail, tvars
  <2> QED
    BY <1>1, <2>1 DEF Kept, OneProgram
<1>4. CASE Receive(t)
  BY <1>1, <1>2, <1>4 DEF Receive, Goto, files, TypeOK, Kept, FoundOwn
<1>5. CASE Fail(t)
  BY <1>1, <1>2, <1>5 DEF Fail, Finish, Goto, files, TypeOK, Kept, FoundOwn
<1>6. CASE FindLot(t)
  BY <1>1, <1>2, <1>6 DEF FindLot, Goto, files, TypeOK, Row, Kept, FoundOwn
<1>7. CASE Insert(t)
  <2> DEFINE s == OpenSession(req[t].cust, row[t].lot, req[t].time)
  <2>1. req[t] \in Request /\ row[t].lot \in Nat
    BY <1>7 DEF Insert, TypeOK, Row
  <2>2. s \in Session /\ s.cust = req[t].cust
    BY <2>1, RequestParts DEF OpenSession, Session
  <2>3. shm' = insertLog(shm, s) /\ disk' = disk
    BY <1>7 DEF Insert
  <2> HIDE DEF s
  <2>4. shm'.log = Append(shm.log, s) /\ shm.log \in Seq(Session)
    BY <2>2, <2>3, InsertLogType, ImageParts DEF TypeOK
  <2>7. /\ \A q \in Threads \ {t} : pc'[q] = pc[q] /\ row'[q] = row[q]
        /\ pc'[t] = "flush" /\ req' = req /\ row'[t].id = Len(shm.log) + 1
    BY <1>7 DEF Insert, Goto, TypeOK, Row
  <2>8. /\ Len(shm.log) + 1 \in DOMAIN shm'.log
        /\ shm'.log[Len(shm.log) + 1].cust = req[t].cust
        /\ \A i \in DOMAIN shm.log : i \in DOMAIN shm'.log /\ shm'.log[i] = shm.log[i]
    BY <2>2, <2>4, AppendRows
  <2>10. FoundOwn'
    <3>1. ASSUME NEW q \in Threads, pc'[q] \in {"price", "update", "flush"}
          PROVE  row'[q].id \in DOMAIN shm'.log /\ shm'.log[row'[q].id].cust = req'[q].cust
      <4>1. CASE q = t
        BY <2>7, <2>8, <4>1
      <4>2. CASE q # t
        BY <2>7, <2>8, <3>1, <4>2 DEF Kept, FoundOwn
      <4> QED BY <4>1, <4>2
    <3> QED BY <3>1 DEF FoundOwn
  <2> QED
    BY <1>1, <1>2, <2>10 DEF Kept
<1>8. CASE Select(t)
  <2>1. PICK i \in NewestOpen(shm, req[t].cust) :
          row' = [row EXCEPT ![t] = [id |-> i, lot |-> shm.log[i].lot,
                                     start |-> shm.log[i].start, total |-> 0]]
    BY <1>8 DEF Select
  <2>2. i \in DOMAIN shm.log /\ shm.log[i].cust = req[t].cust
    BY DEF NewestOpen, OpenIds
  <2> QED
    BY <1>1, <1>2, <1>8, <2>1, <2>2
       DEF Select, Goto, files, TypeOK, Kept, FoundOwn
<1>9. CASE Price(t)
  <2>1. row'[t].id = row[t].id /\ \A q \in Threads \ {t} : row'[q] = row[q]
    BY <1>9 DEF Price, TypeOK, Row
  <2> QED
    BY <1>1, <1>2, <1>9, <2>1
       DEF Price, Goto, files, TypeOK, Kept, FoundOwn
<1>10. CASE Update(t)
  <2>1. req[t].time \in Nat /\ row[t].total \in Int /\ shm \in Image
    BY <1>10, RequestParts DEF Update, TypeOK, Row
  <2>3. ASSUME NEW i \in DOMAIN shm'.log
        PROVE  /\ i \in DOMAIN shm.log
               /\ shm'.log[i].cust = shm.log[i].cust
    <3> DEFINE c == ClosedSession(shm.log[i], req[t].time, row[t].total)
    <3>1. i \in DOMAIN shm.log /\ shm.log[i] \in Session
      BY <1>10, UpdateEffect, RowType
    <3>2. c.cust = shm.log[i].cust
      BY <2>1, <3>1, ClosedParts
    <3>3. shm'.log[i] = c \/ shm'.log[i] = shm.log[i]
      BY <1>10, <3>1, UpdateEffect
    <3> QED
      BY <3>1, <3>2, <3>3
  <2>4. DOMAIN shm'.log = DOMAIN shm.log
    BY <1>10, UpdateEffect
  <2>5. FoundOwn'
    BY <1>10, <2>3, <2>4 DEF Update, Goto, TypeOK, Kept, FoundOwn
  <2> QED
    BY <1>1, <1>2, <2>5 DEF Kept
<1>11. CASE FlushAndAck(t)
  <2>1. shm' = shm
    BY <1>11 DEF FlushAndAck
  <2>2. FoundOwn'
    BY <1>11, <2>1 DEF FlushAndAck, Finish, Goto, TypeOK, Kept, FoundOwn
  <2> QED
    BY <1>1, <1>2, <2>2 DEF Kept
<1> QED
  BY <1>1, <1>4, <1>5, <1>6, <1>7, <1>8, <1>9, <1>10, <1>11
     DEF ThreadStep, FindNoLot, InsertFails, SelectFails, UpdateFails

LEMMA KeptStep ==
  ASSUME TypeOK, Kept, ~Overlap, [Next]_vars
  PROVE  Kept'
<1>1. CASE UNCHANGED vars
  BY <1>1 DEF vars, files, locals, tvars, Kept, OneProgram, FoundOwn
<1> QED
  BY <1>1, ServerStepsKeep, ToolStepsKeep, ThreadStepsKeep DEF Next

LEMMA AlwaysKept ==
  ASSUME ~Overlap
  PROVE  Spec => []TypeOK /\ []Kept /\ []StepFitsRequest
  BY InitTypeOK, StepFits, TypeCorrect, InitKept, KeptStep, PTL DEF Spec

(* With the server up, whatever statements and flushes fail and however    *)
(* many threads serve one customer: no step but an INSERT or an UPDATE     *)
(* changes the runtime log.                                                *)
LEMMA RuntimeLogSteps ==
  ASSUME TypeOK, Kept, ~Overlap, [Next]_vars, server = "up", server' = "up"
  PROVE  \/ shm' = shm
         \/ \E t \in Threads : Insert(t) \/ Update(t)
<1>1. CASE Boot \/ Crash \/ Reboot
  BY <1>1 DEF Boot, Crash, Reboot, ThreadsDie
<1>2. ASSUME NEW u \in Tools, Launch(u) \/ ToolStep(u) \/ ToolKilled(u) PROVE FALSE
  BY <1>2, ToolStepsKeep
<1>3. ASSUME NEW t \in Threads, Receive(t) \/ ThreadStep(t), ~Insert(t), ~Update(t)
      PROVE  shm' = shm
  BY <1>3 DEF Receive, ThreadStep, FindLot, FindNoLot, InsertFails, Select,
              SelectFails, Price, UpdateFails, FlushAndAck, Fail, files
<1>4. CASE UNCHANGED vars
  BY <1>4 DEF vars, files
<1> QED
  BY <1>1, <1>2, <1>3, <1>4 DEF Next

(* endParking's UPDATE names a session by its id alone, which it has read  *)
(* in another statement: still it changes none of another customer,        *)
(* whatever other threads do and whatever fails in between.                *)
THEOREM ClosesOwnSessions ==
  ASSUME ~Overlap
  PROVE  Spec => EndsOwnSession
<1> DEFINE Owned ==
      server = "up" /\ server' = "up" =>
        \A i \in DOMAIN shm.log :
          (i \in DOMAIN shm'.log /\ shm'.log[i] # shm.log[i]) =>
            \E t \in Threads :
              /\ pc[t] = "update" /\ req[t].cust = shm.log[i].cust
              /\ shm'.log[i].end = req[t].time
<1>1. ASSUME TypeOK, Kept, [Next]_vars PROVE Owned
  <2> SUFFICES ASSUME server = "up", server' = "up", NEW i \in DOMAIN shm.log,
                      shm'.log[i] # shm.log[i]
               PROVE  \E t \in Threads :
                        /\ pc[t] = "update" /\ req[t].cust = shm.log[i].cust
                        /\ shm'.log[i].end = req[t].time
    OBVIOUS
  <2>1. ASSUME NEW t \in Threads, Insert(t) PROVE FALSE
    BY <1>1, <2>1, InsertEffect
  <2>2. ASSUME NEW t \in Threads, Update(t)
        PROVE  /\ pc[t] = "update" /\ req[t].cust = shm.log[i].cust
               /\ shm'.log[i].end = req[t].time
    <3> DEFINE c == ClosedSession(shm.log[i], req[t].time, row[t].total)
    <3>1. i = row[t].id /\ shm'.log[i] = c /\ shm.log[i] \in Session
      BY <1>1, <2>2, UpdateEffect, RowType
    <3>2. pc[t] = "update" /\ req[t].time \in Nat /\ row[t].total \in Int
      BY <1>1, <2>2, RequestParts DEF Update, TypeOK, Row
    <3>3. c.end = req[t].time
      BY <3>1, <3>2, ClosedParts
    <3>4. req[t].cust = shm.log[i].cust
      BY <1>1, <3>1, <3>2 DEF Kept, FoundOwn
    <3> QED
      BY <3>1, <3>2, <3>3, <3>4
  <2> QED
    BY <1>1, <2>1, <2>2, RuntimeLogSteps
<1>2. EndsOwnSession <=> [][Owned]_vars
  BY DEF EndsOwnSession
<1> QED
  BY <1>1, <1>2, AlwaysKept, PTL DEF Spec

(* With the server up, no session vanishes, is opened again or handed to   *)
(* another customer, lot or start, whatever statements and flushes fail    *)
(* and also while two threads serve one customer.                          *)
THEOREM LogOnlyAdvances ==
  ASSUME ~Overlap
  PROVE  Spec => LogAdvances
<1>1. ASSUME TypeOK, Kept, [Next]_vars, server = "up", server' = "up"
      PROVE  LaterLog(shm'.log, shm.log)
  <2>1. shm' = shm => LaterLog(shm'.log, shm.log)
    BY DEF LaterLog
  <2>2. ASSUME NEW t \in Threads, Insert(t) PROVE LaterLog(shm'.log, shm.log)
    BY <1>1, <2>2, InsertEffect DEF LaterLog
  <2>3. ASSUME NEW t \in Threads, Update(t) PROVE LaterLog(shm'.log, shm.log)
    <3> SUFFICES ASSUME NEW i \in DOMAIN shm.log
                 PROVE  LaterLog(shm'.log, shm.log)!(i)
      BY DEF LaterLog
    <3> DEFINE c == ClosedSession(shm.log[i], req[t].time, row[t].total)
    <3>1. /\ shm.log[i] \in Session /\ i \in DOMAIN shm'.log
          /\ shm'.log[i] = IF i = row[t].id THEN c ELSE shm.log[i]
      BY <1>1, <2>3, UpdateEffect, RowType
    <3>2. req[t].time \in Nat /\ row[t].total \in Int
      BY <1>1, <2>3, RequestParts DEF Update, TypeOK, Row
    <3>3. /\ ~c.open /\ c.cust = shm.log[i].cust
          /\ c.lot = shm.log[i].lot /\ c.start = shm.log[i].start
      BY <3>1, <3>2, ClosedParts
    <3> QED
      BY <3>1, <3>3
  <2> QED
    BY <1>1, <2>1, <2>2, <2>3, RuntimeLogSteps
<1>2. TypeOK /\ Kept /\ [Next]_vars =>
        [server = "up" /\ server' = "up" => LaterLog(shm'.log, shm.log)]_vars
  BY <1>1
<1> QED
  BY <1>2, AlwaysKept, PTL DEF Spec, LogAdvances

-----------------------------------------------------------------------------
(* One connection for each customer, still under faults.                   *)

DisjointFeeds ==
  \A s, t \in Threads :
    s # t => \A p \in Feed[s], q \in Feed[t] : p.cust # q.cust

\* A thread serves its own vehicle only.
OwnFeed == \A t \in Threads : pc[t] # "idle" => req[t] \in Feed[t]

\* The session endParking has found stays open until the thread closes it,
\* and then keeps the end it was given until the thread acknowledges it.
OpenUntilClosed ==
  \A t \in Threads :
    /\ pc[t] \in {"price", "update"} => shm.log[row[t].id].open
    /\ pc[t] = "flush" /\ req[t].type = "STOP" =>
         shm.log[row[t].id].end = req[t].time

Disjoint == OwnFeed /\ OpenUntilClosed

(* Threads are idle while the server is down.                              *)
LEMMA IdleIsDisjoint ==
  ASSUME \A t \in Threads : pc'[t] = "idle"
  PROVE  Disjoint'
  BY DEF Disjoint, OwnFeed, OpenUntilClosed

LEMMA InitDisjoint ==
  ASSUME Init
  PROVE  Disjoint
  BY DEF Init, Disjoint, OwnFeed, OpenUntilClosed

(* Two threads that are ending sessions are ending different ones.         *)
LEMMA DifferentSessions ==
  ASSUME TypeOK, Kept, OwnFeed, DisjointFeeds,
         NEW s \in Threads, NEW t \in Threads, s # t,
         pc[s] \in {"price", "update", "flush"}, pc[t] \in {"price", "update", "flush"}
  PROVE  row[s].id # row[t].id
<1>1. req[s] \in Feed[s] /\ req[t] \in Feed[t]
  BY DEF OwnFeed
<1>2. req[s].cust # req[t].cust
  BY <1>1 DEF DisjointFeeds
<1> QED
  BY <1>2 DEF Kept, FoundOwn

(* Disjoint is preserved by every step.                                    *)
LEMMA DisjointStep ==
  ASSUME TypeOK, Kept, StepFitsRequest, Disjoint, ~Overlap, DisjointFeeds, [Next]_vars
  PROVE  Disjoint'
<1> USE DEF Disjoint
<1>1. CASE Boot \/ Crash \/ Reboot
  <2>1. \A t \in Threads : pc'[t] = "idle"
    BY <1>1 DEF Boot, Crash, Reboot, ThreadsDie, locals, Kept, OneProgram
  <2> QED
    BY <2>1, IdleIsDisjoint
<1>2. ASSUME NEW u \in Tools, Launch(u) \/ ToolStep(u) \/ ToolKilled(u)
      PROVE  Disjoint'
  <2>1. \A t \in Threads : pc'[t] = "idle"
    BY <1>2, ToolStepsKeep
  <2> QED
    BY <2>1, IdleIsDisjoint
<1>3. ASSUME NEW t \in Threads, Receive(t) PROVE Disjoint'
  BY <1>3 DEF Receive, Goto, files, OwnFeed, OpenUntilClosed, TypeOK
<1>4. ASSUME NEW t \in Threads, Fail(t) PROVE Disjoint'
  BY <1>4 DEF Fail, Finish, Goto, files, OwnFeed, OpenUntilClosed, TypeOK
<1>5. ASSUME NEW t \in Threads, ThreadStep(t) PROVE Disjoint'
  <2>1. CASE FindLot(t)
    BY <2>1 DEF FindLot, Goto, files, OwnFeed, OpenUntilClosed, TypeOK
  <2>2. CASE Insert(t)
    <3>1. /\ \A q \in Threads \ {t} : row'[q] = row[q] /\ pc'[q] = pc[q]
          /\ pc'[t] = "flush" /\ req' = req /\ req[t].type = "START"
          /\ pc[t] = "insert"
      BY <2>2 DEF Insert, Goto, TypeOK, StepFitsRequest
    <3>2. \A i \in DOMAIN shm.log : i \in DOMAIN shm'.log /\ shm'.log[i] = shm.log[i]
      BY <2>2, InsertEffect
    <3>3. OwnFeed'
      BY <3>1 DEF OwnFeed
    <3>4. OpenUntilClosed'
      BY <3>1, <3>2 DEF OpenUntilClosed, Kept, FoundOwn
    <3> QED
      BY <3>3, <3>4
  <2>3. CASE Select(t)
    <3>1. PICK i \in NewestOpen(shm, req[t].cust) :
            row' = [row EXCEPT ![t] = [id |-> i, lot |-> shm.log[i].lot,
                                       start |-> shm.log[i].start, total |-> 0]]
      BY <2>3 DEF Select
    <3>2. shm.log[i].open
      BY DEF NewestOpen, OpenIds
    <3> QED
      BY <2>3, <3>1, <3>2 DEF Select, Goto, files, OwnFeed, OpenUntilClosed, TypeOK
  <2>4. CASE Price(t)
    <3>1. row'[t].id = row[t].id /\ \A q \in Threads \ {t} : row'[q] = row[q]
      BY <2>4 DEF Price, TypeOK, Row
    <3> QED
      BY <2>4, <3>1 DEF Price, Goto, files, OwnFeed, OpenUntilClosed, TypeOK
  <2>5. CASE Update(t)
    <3>1. OwnFeed'
      BY <2>5 DEF Update, Goto, OwnFeed, TypeOK
    <3>2. OpenUntilClosed'
      <4> SUFFICES ASSUME NEW q \in Threads PROVE OpenUntilClosed!(q)'
        BY DEF OpenUntilClosed
      <4>1. CASE q = t
        <5>1. row[t].id \in DOMAIN shm.log /\ req[t] \in Request /\ row[t].total \in Int
          BY <2>5 DEF Update, TypeOK, Row, Kept, FoundOwn
        <5>2. shm.log[row[t].id] \in Session /\ req[t].time \in Nat
          BY <5>1, UpdateEffect, <2>5, RowType, RequestParts
        <5>3. shm'.log[row[t].id]
                = ClosedSession(shm.log[row[t].id], req[t].time, row[t].total)
          BY <2>5, <5>1, UpdateEffect
        <5>4. ClosedSession(shm.log[row[t].id], req[t].time, row[t].total).end
                = req[t].time
          BY <5>1, <5>2, ClosedParts
        <5> QED
          BY <2>5, <4>1, <5>3, <5>4 DEF Update, Goto, TypeOK
      <4>2. CASE q # t
        <5>1. pc[q] \in {"price", "update", "flush"} =>
                row[q].id # row[t].id /\ row[q].id \in DOMAIN shm.log
          BY <2>5, <4>2, DifferentSessions DEF Update, Kept, FoundOwn
        <5>2. pc[q] \in {"price", "update", "flush"} =>
                shm'.log[row[q].id] = shm.log[row[q].id]
          BY <2>5, <5>1, UpdateEffect
        <5> QED
          BY <2>5, <4>2, <5>2 DEF Update, Goto, TypeOK, OpenUntilClosed
      <4> QED
        BY <4>1, <4>2
    <3> QED
      BY <3>1, <3>2
  <2>6. CASE FlushAndAck(t)
    BY <2>6 DEF FlushAndAck, Finish, Goto, OwnFeed, OpenUntilClosed, TypeOK
  <2> QED
    BY <1>4, <1>5, <2>1, <2>2, <2>3, <2>4, <2>5, <2>6
       DEF ThreadStep, FindNoLot, InsertFails, SelectFails, UpdateFails
<1>6. CASE UNCHANGED vars
  BY <1>6 DEF vars, files, locals, OwnFeed, OpenUntilClosed
<1> QED
  BY <1>1, <1>2, <1>3, <1>5, <1>6 DEF Next

-----------------------------------------------------------------------------
(* Durability.  The theorems below are about deployments without I/O       *)
(* faults in which a tool runs only while the server is down and no other  *)
(* tool runs.  The run x_live_update shows that the code gives no such     *)
(* guarantee when a tool overlaps the server, and with IOFaults TLC finds  *)
(* Durable violated at once: a flush that fails is not noticed.            *)

Exclusive == ~IOFaults /\ ~Overlap

LEMMA InitCoherent ==
  ASSUME Init
  PROVE  Coherent
  BY DEF Init, Coherent, StepFitsRequest, OneWriter, OwnSession,
         DiskBehindRuntime, Durable

(* Without faults and contention, the constructor restores the backup.     *)
LEMMA OpenedExclusive ==
  ASSUME TypeOK, ~IOFaults, NEW mayFail, ~mayFail, NEW o \in Opened(mayFail)
  PROVE  o = [alive |-> TRUE, diskOk |-> TRUE, shm |-> [disk EXCEPT !.schema = TRUE]]
  BY DEF Opened

(* An acknowledged session is acknowledged truthfully by a later log too.  *)
LEMMA DurableLater ==
  ASSUME Durable, LaterLog(disk'.log, disk.log), journal' = journal
  PROVE  Durable'
  BY DEF Durable, LaterLog

LEMMA LaterLogReflexive ==
  ASSUME NEW a
  PROVE  LaterLog(a, a)
  BY DEF LaterLog

LEMMA LaterLogTransitive ==
  ASSUME NEW a, NEW b, NEW c, LaterLog(a, b), LaterLog(b, c)
  PROVE  LaterLog(a, c)
  BY DEF LaterLog

(* Booting alone, the server restores the backup.                         *)
LEMMA BootsAlone ==
  ASSUME TypeOK, ~IOFaults, \A u \in Tools : tpc[u] = "idle", Boot
  PROVE  shm' = [disk EXCEPT !.schema = TRUE] /\ diskOk' /\ server' = "up"
<1> DEFINE mayFail == IOFaults \/ \E u \in Tools : tpc[u] # "idle"
<1>1. ~mayFail
  OBVIOUS
<1>2. \E o \in Opened(mayFail) :
        /\ server' = IF o.alive THEN "up" ELSE "down"
        /\ diskOk' = (o.alive /\ o.diskOk)
        /\ shm' = o.shm
  BY DEF Boot
<1> HIDE DEF mayFail
<1>3. PICK o \in Opened(mayFail) :
        /\ server' = IF o.alive THEN "up" ELSE "down"
        /\ diskOk' = (o.alive /\ o.diskOk)
        /\ shm' = o.shm
  BY <1>2
<1>4. o = [alive |-> TRUE, diskOk |-> TRUE, shm |-> [disk EXCEPT !.schema = TRUE]]
  BY <1>1, OpenedExclusive
<1>5. o.alive /\ o.diskOk /\ o.shm = [disk EXCEPT !.schema = TRUE]
  BY <1>4
<1> QED
  BY <1>3, <1>5

LEMMA BootRestores ==
  ASSUME TypeOK, Exclusive, Boot
  PROVE  shm' = [disk EXCEPT !.schema = TRUE] /\ diskOk' /\ server' = "up"
<1>1. ~IOFaults /\ \A u \in Tools : tpc[u] = "idle"
  BY DEF Boot, Exclusive
<1> QED
  BY <1>1, BootsAlone

(* Boot, Crash and Reboot.                                                 *)
LEMMA ServerSteps ==
  ASSUME TypeOK, Coherent, Exclusive, Boot \/ Crash \/ Reboot
  PROVE  Coherent'
<1>0. StepFitsRequest'
  BY StepFits DEF Next, Coherent
<1>1. disk' = disk /\ journal' = journal
  BY DEF Boot, Crash, Reboot, files
<1>2. Durable'
  BY <1>1, DurableLater, LaterLogReflexive DEF Coherent
<1>3. OneWriter' /\ OwnSession' /\ DiskBehindRuntime'
  <2>1. CASE Boot
    <3>1. shm' = [disk EXCEPT !.schema = TRUE] /\ diskOk' /\ server' = "up"
      BY <2>1, BootRestores
    <3>2. shm'.log = disk.log
      BY <3>1, SchemaType DEF TypeOK
    <3>3. OneWriter' /\ OwnSession'
      BY <2>1, <3>1 DEF Boot, Exclusive, Coherent, OneWriter, OwnSession, locals, tvars
    <3> QED
      BY <1>1, <3>2, <3>3, LaterLogReflexive DEF DiskBehindRuntime
  <2>2. CASE Crash
    BY <2>2 DEF Crash, ThreadsDie, files, tvars, Coherent, OneWriter, OwnSession,
                DiskBehindRuntime, ToolsBusy
  <2>3. CASE Reboot
    BY <2>3 DEF Reboot, ThreadsDie, OneWriter, OwnSession, DiskBehindRuntime
  <2> QED
    BY <2>1, <2>2, <2>3
<1> QED
  BY <1>0, <1>2, <1>3 DEF Coherent

(* While a thread is at work, the server is up and nobody else writes.     *)
LEMMA ThreadAlone ==
  ASSUME TypeOK, Coherent, Exclusive, NEW t \in Threads, pc[t] # "idle"
  PROVE  /\ server = "up" /\ diskOk /\ ~ThreadMayFail
         /\ \A u \in Tools : tpc[u] = "idle"
  BY DEF TypeOK, Coherent, OneWriter, Exclusive, ThreadMayFail

(* No step of a thread starts, stops or meets another process.             *)
LEMMA ThreadWorksAlone ==
  ASSUME TypeOK, Coherent, Exclusive, NEW t \in Threads,
         Receive(t) \/ ThreadStep(t)
  PROVE  /\ server = "up" /\ diskOk /\ ~ThreadMayFail
         /\ \A u \in Tools : tpc[u] = "idle"
         /\ UNCHANGED <<server, diskOk, tvars>>
<1>1. server = "up" /\ diskOk /\ ~ThreadMayFail /\ \A u \in Tools : tpc[u] = "idle"
  <2>1. CASE Receive(t)
    BY <2>1 DEF Receive, Coherent, OneWriter, Exclusive, ThreadMayFail
  <2>2. CASE ThreadStep(t)
    <3>1. pc[t] # "idle"
      BY <2>2 DEF ThreadStep, FindLot, FindNoLot, Insert, InsertFails, Select,
                  SelectFails, Price, Update, UpdateFails, FlushAndAck
    <3> QED
      BY <3>1, ThreadAlone
  <2> QED
    BY <2>1, <2>2
<1>2. UNCHANGED <<server, diskOk, tvars>>
  BY DEF Receive, ThreadStep, FindLot, FindNoLot, Insert, InsertFails, Select,
         SelectFails, Price, Update, UpdateFails, FlushAndAck, Fail
<1> QED
  BY <1>1, <1>2

(* A thread's step that leaves the files and the locals' sessions.         *)
LEMMA ThreadStepsCoherent ==
  ASSUME TypeOK, Coherent, Exclusive, NEW t \in Threads,
         Receive(t) \/ ThreadStep(t)
  PROVE  Coherent'
<1>0. StepFitsRequest'
  BY StepFits DEF Next, Coherent
<1>1. server = "up" /\ diskOk /\ ~ThreadMayFail /\ \A u \in Tools : tpc[u] = "idle"
  BY ThreadWorksAlone
<1>2. ASSUME UNCHANGED <<server, diskOk, tvars>> PROVE OneWriter'
  BY <1>1, <1>2 DEF OneWriter, tvars
<1>3. UNCHANGED <<server, diskOk, tvars>>
  BY ThreadWorksAlone
<1>4. OneWriter'
  BY <1>2, <1>3
<1>5. ASSUME UNCHANGED <<files, journal>> PROVE DiskBehindRuntime' /\ Durable'
  BY <1>3, <1>5 DEF Coherent, DiskBehindRuntime, Durable, files
<1>6. CASE Receive(t)
  <2>1. OwnSession'
    BY <1>6 DEF Receive, Goto, files, Coherent, OwnSession, TypeOK
  <2> QED
    BY <1>0, <1>4, <1>5, <1>6, <2>1 DEF Receive, Coherent
<1>7. ASSUME Fail(t) PROVE Coherent'
  <2>1. OwnSession'
    BY <1>7 DEF Fail, Finish, Goto, files, Coherent, OwnSession, TypeOK
  <2> QED
    BY <1>0, <1>4, <1>5, <1>7, <2>1 DEF Fail, Coherent
<1>8. CASE FindLot(t)
  <2>1. OwnSession'
    BY <1>8 DEF FindLot, Goto, files, Coherent, OwnSession, TypeOK
  <2> QED
    BY <1>0, <1>4, <1>5, <1>8, <2>1 DEF FindLot, Coherent
<1>9. CASE Insert(t)
  <2> DEFINE s == OpenSession(req[t].cust, row[t].lot, req[t].time)
  <2>1. s \in Session /\ s.cust = req[t].cust /\ s.start = req[t].time
    <3>1. req[t] \in Request /\ row[t].lot \in Nat
      BY <1>9 DEF Insert, TypeOK, Row
    <3> QED
      BY <3>1, RequestParts DEF OpenSession, Session
  <2>2. shm'.log = Append(shm.log, s) /\ shm.log \in Seq(Session)
    BY <1>9, <2>1, InsertLogType, ImageParts DEF Insert, TypeOK
  <2> HIDE DEF s
  <2>3. /\ Len(shm.log) + 1 \in DOMAIN shm'.log
        /\ shm'.log[Len(shm.log) + 1] = s
        /\ \A i \in DOMAIN shm.log : i \in DOMAIN shm'.log /\ shm'.log[i] = shm.log[i]
    BY <2>1, <2>2, AppendRows
  <2>4. row'[t].id = Len(shm.log) + 1 /\ pc' = [pc EXCEPT ![t] = "flush"]
        /\ req' = req /\ req[t].type = "START"
        /\ \A q \in Threads \ {t} : row'[q] = row[q]
    BY <1>9 DEF Insert, Goto, TypeOK, Row, Coherent, StepFitsRequest
  <2>5. OwnSession'
    <3> SUFFICES ASSUME NEW q \in Threads
                 PROVE  OwnSession!(q)'
      BY DEF OwnSession
    <3>1. CASE q = t
      BY <2>1, <2>3, <2>4, <3>1 DEF TypeOK
    <3>2. CASE q # t
      BY <2>3, <2>4, <3>2 DEF TypeOK, Coherent, OwnSession
    <3> QED
      BY <3>1, <3>2
  <2>6. LaterLog(shm'.log, shm.log)
    BY <2>3 DEF LaterLog
  <2>7. DiskBehindRuntime' /\ Durable'
    BY <1>3, <1>9, <2>6, LaterLogTransitive, LaterLogReflexive, DurableLater
       DEF Insert, Coherent, DiskBehindRuntime
  <2> QED
    BY <1>0, <1>4, <2>5, <2>7 DEF Coherent
<1>10. CASE Select(t)
  <2>1. PICK i \in NewestOpen(shm, req[t].cust) :
          row' = [row EXCEPT ![t] = [id |-> i, lot |-> shm.log[i].lot,
                                     start |-> shm.log[i].start, total |-> 0]]
    BY <1>10 DEF Select
  <2>2. i \in DOMAIN shm.log /\ shm.log[i].cust = req[t].cust
    BY DEF NewestOpen, OpenIds
  <2>3. OwnSession'
    BY <1>10, <2>1, <2>2 DEF Select, Goto, files, Coherent, OwnSession, TypeOK
  <2> QED
    BY <1>0, <1>4, <1>5, <1>10, <2>3 DEF Select, Coherent
<1>11. CASE Price(t)
  <2>1. row'[t].id = row[t].id /\ \A q \in Threads \ {t} : row'[q] = row[q]
    BY <1>11 DEF Price, TypeOK, Row
  <2>2. OwnSession'
    BY <1>11, <2>1 DEF Price, Goto, files, Coherent, OwnSession, TypeOK
  <2> QED
    BY <1>0, <1>4, <1>5, <1>11, <2>2 DEF Price, Coherent
<1>12. CASE Update(t)
  <2>1. row[t].id \in DOMAIN shm.log /\ shm.log[row[t].id].cust = req[t].cust
        /\ req[t].type = "STOP"
    BY <1>12 DEF Update, Coherent, OwnSession, StepFitsRequest
  <2>2. /\ DOMAIN shm'.log = DOMAIN shm.log
        /\ \A i \in DOMAIN shm.log :
             shm'.log[i] = IF i = row[t].id
                             THEN ClosedSession(shm.log[i], req[t].time, row[t].total)
                             ELSE shm.log[i]
    BY <1>12, UpdateLogType, RequestParts DEF Update, TypeOK, Row
  <2>3. \A i \in DOMAIN shm.log :
          /\ shm'.log[i].cust = shm.log[i].cust
          /\ shm'.log[i].lot = shm.log[i].lot
          /\ shm'.log[i].start = shm.log[i].start
          /\ shm'.log[i].open => shm.log[i].open
          /\ i = row[t].id => ~shm'.log[i].open
    <3> TAKE i \in DOMAIN shm.log
    <3> DEFINE c == ClosedSession(shm.log[i], req[t].time, row[t].total)
    <3>1. shm.log[i] \in Session /\ req[t].time \in Nat /\ row[t].total \in Int
      BY <1>12, ImageParts, RowType, RequestParts DEF Update, TypeOK, Row
    <3>2. /\ ~c.open /\ c.cust = shm.log[i].cust
          /\ c.lot = shm.log[i].lot /\ c.start = shm.log[i].start
      BY <3>1, ClosedParts
    <3>3. shm'.log[i] = IF i = row[t].id THEN c ELSE shm.log[i]
      BY <2>2
    <3> HIDE DEF c
    <3> QED
      BY <3>2, <3>3
  <2>4. OwnSession'
    <3>1. /\ row' = row /\ req' = req
          /\ \A q \in Threads \ {t} : pc'[q] = pc[q]
      BY <1>12 DEF Update, Goto, TypeOK
    <3> SUFFICES ASSUME NEW q \in Threads
                 PROVE  OwnSession!(q)'
      BY DEF OwnSession
    <3>2. CASE q = t
      BY <2>1, <2>2, <2>3, <3>1, <3>2
    <3>3. CASE q # t
      <4>1. pc'[q] = pc[q] /\ OwnSession!(q)
        BY <3>1, <3>3 DEF Coherent, OwnSession
      <4> QED
        BY <2>2, <2>3, <3>1, <4>1
    <3> QED
      BY <3>2, <3>3
  <2>5. LaterLog(shm'.log, shm.log)
    BY <2>2, <2>3 DEF LaterLog
  <2>6. DiskBehindRuntime' /\ Durable'
    BY <1>3, <1>12, <2>5, LaterLogTransitive, LaterLogReflexive, DurableLater
       DEF Update, Coherent, DiskBehindRuntime
  <2> QED
    BY <1>0, <1>4, <2>4, <2>6 DEF Coherent
<1>13. CASE FlushAndAck(t)
  <2>1. disk' = shm /\ shm' = shm
    BY <1>1, <1>13 DEF FlushAndAck, Flushed
  <2>2. DiskBehindRuntime'
    BY <2>1, LaterLogReflexive DEF DiskBehindRuntime
  <2>3. OwnSession'
    BY <1>13 DEF FlushAndAck, Finish, Goto, Coherent, OwnSession, TypeOK
  <2>4. LaterLog(disk'.log, disk.log)
    BY <1>1, <2>1 DEF Coherent, DiskBehindRuntime
  <2>5. Durable'
    <3> SUFFICES ASSUME NEW a \in journal' PROVE Durable!(a)'
      BY DEF Durable
    <3>1. CASE a \in journal
      BY <2>4, <3>1 DEF Coherent, Durable, LaterLog
    <3>2. CASE a = [type |-> req[t].type, cust |-> req[t].cust,
                    id |-> row[t].id, time |-> req[t].time]
      BY <1>13, <2>1, <3>2 DEF FlushAndAck, Coherent, OwnSession
    <3> QED
      BY <1>13, <3>1, <3>2 DEF FlushAndAck
  <2> QED
    BY <1>0, <1>4, <2>2, <2>3, <2>5 DEF Coherent
<1> QED
  BY <1>6, <1>7, <1>8, <1>9, <1>10, <1>11, <1>12, <1>13
     DEF ThreadStep, FindNoLot, InsertFails, SelectFails, UpdateFails

(* The updater's steps: it is alone, and writes no session.                *)
LEMMA ToolStepsCoherent ==
  ASSUME TypeOK, Coherent, Exclusive, NEW u \in Tools,
         Launch(u) \/ ToolStep(u) \/ ToolKilled(u)
  PROVE  /\ Coherent'
         /\ disk'.log = disk.log
         /\ server = "down" /\ UNCHANGED <<server, journal>>
         /\ \A t \in Threads : pc'[t] = "idle"
<1>0. StepFitsRequest'
  BY StepFits DEF Next, Coherent
<1>1. /\ server = "down"
      /\ \A v \in Tools \ {u} : tpc[v] = "idle"
      /\ \A t \in Threads : pc[t] = "idle"
      /\ ~ToolMayFail(u)
  <2>1. server = "down" /\ ~ToolsBusy(u)
    <3>1. CASE Launch(u)
      BY <3>1 DEF Launch, Exclusive
    <3>2. CASE ToolStep(u) \/ ToolKilled(u)
      <4>1. tpc[u] # "idle"
        BY <3>2 DEF ToolStep, ToolKilled, AddCity, RemoveCityLots, RemoveCity,
                    AddLot, RemoveLot, UpdateLotPrice, SetLotType, Runs,
                    ToolGivesUp, ToolFlush, ToolClose
      <4> QED
        BY <4>1 DEF Coherent, OneWriter
    <3> QED
      BY <3>1, <3>2
  <2> QED
    BY <2>1 DEF Coherent, OneWriter, ToolMayFail, ToolsBusy, ServerBusy, Exclusive
<1>2. UNCHANGED <<server, diskOk, locals, journal>>
  <2>1. CASE UpdaterStatement(u)
    BY <2>1, StatementOutcome DEF Statement
  <2> QED
    BY <2>1 DEF Launch, ToolStep, ToolKilled, ToolGivesUp, ToolFlush, ToolClose,
                UpdaterStatement
<1>3. DiskBehindRuntime' /\ OwnSession'
  BY <1>1, <1>2 DEF DiskBehindRuntime, OwnSession, locals
<1>4. ASSUME disk'.log = disk.log,
             \A v \in Tools \ {u} : tpc'[v] = "idle",
             tpc'[u] # "idle" => tDiskOk'[u] /\ shm'.log = disk'.log
      PROVE  /\ Coherent'
             /\ disk'.log = disk.log
             /\ server = "down" /\ UNCHANGED <<server, journal>>
             /\ \A t \in Threads : pc'[t] = "idle"
  <2>1. OneWriter'
    BY <1>1, <1>2, <1>4 DEF OneWriter, ToolsBusy, locals
  <2>2. Durable'
    BY <1>2, <1>4, DurableLater, LaterLogReflexive DEF Coherent
  <2> QED
    BY <1>0, <1>1, <1>2, <1>3, <1>4, <2>1, <2>2 DEF Coherent, locals
<1>5. CASE Launch(u)
  <2>1. PICK c \in Commands, o \in Opened(ToolMayFail(u)) :
          /\ shm' = o.shm
          /\ IF o.alive
               THEN /\ ToolGoto(u, "op")
                    /\ cmd' = [cmd EXCEPT ![u] = c]
                    /\ tDiskOk' = [tDiskOk EXCEPT ![u] = o.diskOk]
               ELSE UNCHANGED tvars
    BY <1>5 DEF Launch
  <2>2. o = [alive |-> TRUE, diskOk |-> TRUE, shm |-> [disk EXCEPT !.schema = TRUE]]
    BY <1>1, OpenedExclusive DEF Exclusive
  <2>3. shm'.log = disk.log
    BY <2>1, <2>2, SchemaType DEF TypeOK
  <2>4. tDiskOk'[u] /\ \A v \in Tools \ {u} : tpc'[v] = "idle"
    BY <1>1, <2>1, <2>2 DEF ToolGoto, TypeOK
  <2>5. disk' = disk
    BY <1>5 DEF Launch
  <2> QED
    BY <1>4, <2>3, <2>4, <2>5
<1>6. ASSUME tpc[u] # "idle" PROVE tDiskOk[u] /\ shm.log = disk.log
  BY <1>6 DEF Coherent, OneWriter
<1>7. CASE UpdaterStatement(u)
  <2>1. PICK i \in Image, step \in {"flush", "city"} :
          SameSessions(i, shm) /\ Statement(u, i, step)
    BY <1>7, StatementOutcome
  <2>2. tpc[u] # "idle"
    BY <1>7, StatementOutcome
  <2>3. shm'.log = shm.log /\ disk' = disk /\ tDiskOk' = tDiskOk
    BY <2>1 DEF Statement, SameSessions
  <2>4. \A v \in Tools \ {u} : tpc'[v] = "idle"
    BY <1>1, <2>1 DEF Statement, ToolGoto, TypeOK
  <2> QED
    BY <1>4, <1>6, <2>2, <2>3, <2>4
<1>8. CASE ToolGivesUp(u)
  BY <1>1, <1>4, <1>6, <1>8 DEF ToolGivesUp, ToolGoto, files, TypeOK
<1>9. CASE ToolFlush(u)
  <2>1. tpc[u] # "idle" /\ disk' \in {shm, disk}
    BY <1>9, FlushedIs DEF ToolFlush
  <2> QED
    BY <1>1, <1>4, <1>6, <1>9, <2>1 DEF ToolFlush, ToolGoto, TypeOK
<1>10. CASE ToolClose(u)
  <2>1. tpc[u] # "idle" /\ disk' \in {shm, disk}
    BY <1>10, FlushedIs DEF ToolClose
  <2> QED
    BY <1>1, <1>4, <1>6, <1>10, <2>1 DEF ToolClose, ToolEnds, ToolGoto, TypeOK
<1>11. CASE ToolKilled(u)
  BY <1>1, <1>4, <1>11 DEF ToolKilled, ToolEnds, ToolGoto, files, TypeOK
<1> QED
  BY <1>5, <1>7, <1>8, <1>9, <1>10, <1>11 DEF ToolStep, UpdaterStatement

(* The inductive invariant: with exclusive use and no faults there is one  *)
(* writer at a time, each thread's locals name a session of its customer   *)
(* that is still there, and the backup is never ahead of the runtime.      *)
THEOREM AlwaysCoherent ==
  ASSUME Exclusive
  PROVE  Spec => []Coherent
<1>1. Init => TypeOK /\ Coherent
  BY InitTypeOK, InitCoherent
<1>2. TypeOK /\ Coherent /\ [Next]_vars => Coherent'
  <2> SUFFICES ASSUME TypeOK, Coherent, [Next]_vars PROVE Coherent'
    OBVIOUS
  <2>1. CASE UNCHANGED vars
    BY <2>1 DEF vars, files, locals, tvars, Coherent, StepFitsRequest, OneWriter,
                OwnSession, DiskBehindRuntime, Durable, ToolsBusy
  <2> QED
    BY <2>1, ServerSteps, ThreadStepsCoherent, ToolStepsCoherent DEF Next
<1>3. Spec => []TypeOK
  BY TypeCorrect
<1> QED
  BY <1>1, <1>2, <1>3, PTL DEF Spec

(* What parksys.log acknowledges is in the backup file, whatever crashes,   *)
(* reboots and offline maintenance happen in between.                      *)
THEOREM AckedIsDurable ==
  ASSUME Exclusive
  PROVE  Spec => []Durable
<1>1. Coherent => Durable
  BY DEF Coherent
<1> QED
  BY <1>1, AlwaysCoherent, PTL

(* While the server runs, what the next flush overwrites is always older:  *)
(* threads flush in another order than they wrote, and crash in between.   *)
THEOREM FlushNeverGoesBack ==
  ASSUME Exclusive
  PROVE  Spec => []DiskBehindRuntime
<1>1. Coherent => DiskBehindRuntime
  BY DEF Coherent
<1> QED
  BY <1>1, AlwaysCoherent, PTL

-----------------------------------------------------------------------------
(* Refinement.  When moreover no two connections speak for one customer,   *)
(* the database implements SessionStore.                                   *)

(* Every step of server, tools and files is one of the store, or none.     *)
LEMMA StepSimulation ==
  ASSUME TypeOK, Coherent, Disjoint, Exclusive, [Next]_vars
  PROVE  [Store!Next]_(Store!svars)
<1> DEFINE lv == IF server = "up" THEN shm.log ELSE disk.log
<1>1. CASE Boot
  <2>1. shm'.log = disk.log /\ disk' = disk /\ journal' = journal /\ server = "down"
    BY <1>1, BootRestores, SchemaType DEF Boot, TypeOK
  <2>2. lv' = lv
    BY <2>1, <1>1 DEF Boot
  <2> QED
    BY <2>1, <2>2 DEF Store!svars
<1>2. CASE Crash \/ Reboot
  <2>1. lv' = disk.log /\ disk' = disk /\ journal' = journal
    BY <1>2 DEF Crash, Reboot, ThreadsDie, files
  <2> QED
    BY <2>1 DEF Store!Next, Store!Lose
<1>3. ASSUME NEW u \in Tools, Launch(u) \/ ToolStep(u) \/ ToolKilled(u)
      PROVE  [Store!Next]_(Store!svars)
  <2>1. disk'.log = disk.log /\ journal' = journal /\ server = "down" /\ server' = "down"
    BY <1>3, ToolStepsCoherent
  <2> QED
    BY <2>1 DEF Store!svars
<1>4. ASSUME NEW t \in Threads, Receive(t) \/ ThreadStep(t)
      PROVE  [Store!Next]_(Store!svars)
  <2>1. server = "up" /\ server' = "up" /\ diskOk
    BY <1>4, ThreadWorksAlone
  <2>2. lv = shm.log /\ lv' = shm'.log
    BY <2>1
  <2>3. CASE UNCHANGED <<files, journal>>
    BY <2>2, <2>3 DEF files, Store!svars
  <2>4. CASE Insert(t)
    <3>1. disk' = disk /\ journal' = journal
      BY <2>4 DEF Insert
    <3>2. Store!Start
      BY <2>2, <2>4, <3>1, InsertEffect DEF Store!Start
    <3> QED
      BY <3>2 DEF Store!Next
  <2>5. CASE Update(t)
    <3>1. disk' = disk /\ journal' = journal
      BY <2>5 DEF Update
    <3> DEFINE k == row[t].id
    <3>2. k \in DOMAIN shm.log /\ shm.log[k].open
      BY <2>5 DEF Update, Coherent, OwnSession, Disjoint, OpenUntilClosed
    <3> DEFINE c == ClosedSession(shm.log[k], req[t].time, row[t].total)
    <3>3. shm'.log[k] = c
      BY <2>5, <3>2, UpdateEffect
    <3>4. c = ClosedSession(shm.log[k], shm'.log[k].end, shm'.log[k].total)
      <4>1. shm.log[k] \in Session /\ req[t].time \in Nat /\ row[t].total \in Int
        BY <2>5, <3>2, UpdateEffect, RowType, RequestParts DEF Update, TypeOK, Row
      <4>2. c.end = req[t].time /\ c.total = row[t].total
        BY <4>1, ClosedParts
      <4> QED
        BY <3>3, <4>2
    <3>5. shm'.log = [shm.log EXCEPT ![k] = c]
      <4>1. shm'.log = [i \in DOMAIN shm.log |-> IF i = k THEN c ELSE shm.log[i]]
        BY <2>5, UpdateLogIs, ImageParts DEF Update, TypeOK
      <4> HIDE DEF c, k
      <4> QED
        BY <4>1
    <3>6. c = Store!ClosedSession(shm.log[k], shm'.log[k].end, shm'.log[k].total)
      BY <3>4 DEF ClosedSession, Store!ClosedSession
    <3>7. DOMAIN shm'.log = DOMAIN shm.log
      BY <2>5, UpdateEffect
    <3>8. Store!Stop
      <4> HIDE DEF c, k
      <4> QED
        BY <2>2, <3>1, <3>2, <3>5, <3>6, <3>7 DEF Store!Stop
    <3> QED
      BY <3>8 DEF Store!Next
  <2>6. CASE FlushAndAck(t)
    <3> DEFINE a == [type |-> req[t].type, cust |-> req[t].cust,
                     id |-> row[t].id, time |-> req[t].time]
    <3>1. disk' = shm /\ shm' = shm /\ journal' = journal \cup {a} /\ pc[t] = "flush"
      BY <2>1, <2>6, ThreadAlone DEF FlushAndAck, Flushed, Exclusive
    <3>2. Store!TrueOf(a, shm.log)
      BY <3>1 DEF Store!TrueOf, Coherent, OwnSession, Disjoint, OpenUntilClosed,
                  StepFitsRequest
    <3>3. Store!SaveAndAck
      <4> HIDE DEF a
      <4> QED
        BY <2>2, <3>1, <3>2 DEF Store!SaveAndAck
    <3> QED
      BY <3>3 DEF Store!Next
  <2> QED
    BY <1>4, <2>3, <2>4, <2>5, <2>6
       DEF Receive, ThreadStep, FindLot, FindNoLot, InsertFails, Select,
           SelectFails, Price, UpdateFails, Fail, files
<1>5. CASE UNCHANGED vars
  BY <1>5 DEF vars, files, Store!svars
<1> QED
  BY <1>1, <1>2, <1>3, <1>4, <1>5 DEF Next

(* The two-tier database is a session store: whatever threads, crashes,    *)
(* reboots and offline maintenance do, sessions open, close once, are      *)
(* saved, and only then acknowledged, and the acknowledgement is true.     *)
THEOREM ImplementsStore ==
  ASSUME Exclusive, DisjointFeeds
  PROVE  Spec => StoreSpec
<1>1. Init => Store!Init
  BY DEF Init, Store!Init
<1>2. TypeOK /\ Kept /\ Coherent /\ Disjoint /\ [Next]_vars
        => Disjoint' /\ [Store!Next]_(Store!svars)
  BY DisjointStep, StepSimulation DEF Exclusive, Coherent
<1>3. Spec => []TypeOK /\ []Kept /\ []Coherent
  BY AlwaysKept, AlwaysCoherent DEF Exclusive
<1> QED
  BY <1>1, <1>2, <1>3, InitDisjoint, PTL DEF Spec, StoreSpec, Store!Spec

-----------------------------------------------------------------------------
(* What a session store promises follows from its own steps, whatever      *)
(* program takes them.                                                     *)

Live == IF server = "up" THEN shm.log ELSE disk.log

LogType == Live \in Seq(Session) /\ disk.log \in Seq(Session)

StoreInv == Store!LiveIsAhead /\ Store!AcksHold

LEMMA AdvancedReflexive ==
  ASSUME NEW a
  PROVE  Store!Advanced(a, a)
  BY DEF Store!Advanced

LEMMA AdvancedTransitive ==
  ASSUME NEW a, NEW b, NEW c, Store!Advanced(a, b), Store!Advanced(b, c)
  PROVE  Store!Advanced(a, c)
  BY DEF Store!Advanced

LEMMA TrueOfAdvanced ==
  ASSUME NEW x, NEW a, NEW b, Store!TrueOf(x, b), Store!Advanced(a, b)
  PROVE  Store!TrueOf(x, a)
  BY DEF Store!TrueOf, Store!Advanced

(* Opening or closing a session advances the log.                          *)
LEMMA OpeningAdvances ==
  ASSUME NEW a \in Seq(Session), NEW s, NEW b \in Seq(Session), b = Append(a, s)
  PROVE  Store!Advanced(b, a)
<1>1. \A i \in DOMAIN a : i \in DOMAIN b /\ b[i] = a[i]
  OBVIOUS
<1> QED
  BY <1>1 DEF Store!Advanced

LEMMA ClosingAdvances ==
  ASSUME NEW a \in Seq(Session), NEW b, NEW i \in DOMAIN a, NEW e, NEW p,
         a[i].open, b = [a EXCEPT ![i] = ClosedSession(a[i], e, p)]
  PROVE  Store!Advanced(b, a)
<1>1. a[i] \in Session
  OBVIOUS
<1>2. LET c == ClosedSession(a[i], e, p)
      IN  c.cust = a[i].cust /\ c.lot = a[i].lot /\ c.start = a[i].start
  BY <1>1 DEF ClosedSession, Session
<1>3. /\ DOMAIN b = DOMAIN a /\ b[i] = ClosedSession(a[i], e, p)
      /\ \A j \in DOMAIN a : j # i => b[j] = a[j]
  OBVIOUS
<1> QED
  BY <1>2, <1>3 DEF Store!Advanced

(* The store's step and its two promises.                                  *)
LEMMA StoreStep ==
  ASSUME LogType, LogType', StoreInv, [Store!Next]_(Store!svars)
  PROVE  StoreInv' /\ Store!Advanced(disk'.log, disk.log)
<1>0. /\ Store!Advanced(Live, disk.log)
      /\ \A a \in journal : Store!TrueOf(a, disk.log)
  BY DEF StoreInv, Live, Store!LiveIsAhead, Store!AcksHold
<1>1. ASSUME Store!Advanced(Live', disk'.log),
             \A a \in journal' : Store!TrueOf(a, disk'.log)
      PROVE  StoreInv'
  BY <1>1 DEF StoreInv, Live, Store!LiveIsAhead, Store!AcksHold
<1>2. CASE Store!Start \/ Store!Stop
  <2>1. disk'.log = disk.log /\ journal' = journal
    BY <1>2 DEF Store!Start, Store!Stop
  <2>2. Store!Advanced(Live', Live)
    <3>1. Live \in Seq(Session) /\ Live' \in Seq(Session)
      BY DEF LogType
    <3>2. CASE Store!Start
      <4>1. Live' = Append(Live, Live'[Len(Live) + 1])
        BY <3>2 DEF Store!Start, Live
      <4> QED BY <3>1, <4>1, OpeningAdvances
    <3>3. CASE Store!Stop
      <4>1. PICK i \in DOMAIN Live :
              /\ Live[i].open
              /\ Live' = [Live EXCEPT ![i] =
                            ClosedSession(Live[i], Live'[i].end, Live'[i].total)]
        <5>1. \A a, e, p : Store!ClosedSession(a, e, p) = ClosedSession(a, e, p)
          BY DEF Store!ClosedSession, ClosedSession
        <5>2. \E i \in DOMAIN Live :
                /\ Live[i].open
                /\ Live' = [Live EXCEPT ![i] =
                              Store!ClosedSession(Live[i], Live'[i].end, Live'[i].total)]
          BY <3>3, Zenon DEF Store!Stop, Live
        <5> QED BY <5>1, <5>2
      <4> QED BY <3>1, <4>1, ClosingAdvances
    <3> QED BY <1>2, <3>2, <3>3
  <2> QED
    BY <1>0, <1>1, <2>1, <2>2, AdvancedTransitive, AdvancedReflexive
<1>3. CASE Store!SaveAndAck
  <2>1. disk'.log = Live /\ Live' = Live
    BY <1>3 DEF Store!SaveAndAck, Live
  <2>2. \E a \in journal' : Store!TrueOf(a, Live) /\ journal' = journal \cup {a}
    BY <1>3 DEF Store!SaveAndAck, Live
  <2>3. \A a \in journal' : Store!TrueOf(a, disk'.log)
    BY <1>0, <2>1, <2>2, TrueOfAdvanced
  <2> QED
    BY <1>0, <1>1, <2>1, <2>3, AdvancedReflexive
<1>4. CASE Store!Lose
  <2>1. Live' = disk.log /\ disk'.log = disk.log /\ journal' = journal
    BY <1>4 DEF Store!Lose, Live
  <2> QED
    BY <1>0, <1>1, <2>1, AdvancedReflexive
<1>5. CASE UNCHANGED Store!svars
  <2>1. Live' = Live /\ disk'.log = disk.log /\ journal' = journal
    BY <1>5 DEF Store!svars, Live
  <2> QED
    BY <1>0, <1>1, <2>1, AdvancedReflexive
<1> QED
  BY <1>2, <1>3, <1>4, <1>5 DEF Store!Next

(* Whoever takes the steps of a session store keeps every acknowledgement  *)
(* true of what is saved, and never takes a saved session back.            *)
THEOREM StorePromise ==
  StoreSpec /\ []LogType => []Store!AcksHold /\ Store!SavedAdvances
<1>1. Store!Init => StoreInv
  <2>1. Store!Init => Live = disk.log /\ journal = {}
    BY DEF Store!Init, Live
  <2> QED
    BY <2>1, AdvancedReflexive DEF StoreInv, Live, Store!LiveIsAhead, Store!AcksHold
<1>2. LogType /\ LogType' /\ StoreInv /\ [Store!Next]_(Store!svars)
        => StoreInv' /\ [Store!Advanced((disk.log)', disk.log)]_(Store!svars)
  BY StoreStep
<1>3. StoreInv => Store!AcksHold
  BY DEF StoreInv
<1> QED
  BY <1>1, <1>2, <1>3, PTL DEF StoreSpec, Store!Spec, Store!SavedAdvances

(* So the database keeps these promises: a START or STOP that parksys.log  *)
(* acknowledges stays in the backup with its customer and its time, and no *)
(* flush takes a session back, opens a closed one or bills it anew.        *)
THEOREM PromisesKept ==
  ASSUME Exclusive, DisjointFeeds
  PROVE  Spec => []Store!AcksHold /\ Store!SavedAdvances
<1>1. TypeOK => LogType
  BY ImageParts DEF TypeOK, LogType, Live
<1> QED
  BY <1>1, TypeCorrect, ImplementsStore, StorePromise, PTL

-----------------------------------------------------------------------------
(* Tariffs, in a deployment without updates of prices, first under faults. *)

\* What a closed session may cost: what the tariff says or, when a statement
\* or a restore may have failed, nothing.
Costs(duration, lot) ==
  {calculatePrice(FirstDisk, duration, lot)} \cup IF IOFaults THEN {0} ELSE {}

BilledLog(log) ==
  \A i \in DOMAIN log :
    ~log[i].open => log[i].total \in Costs(log[i].end - log[i].start, log[i].lot)

\* What endParking has read of the session it found is still so, and the
\* price it has found is one of these.
RowFits ==
  \A t \in Threads :
    /\ pc[t] \in {"price", "update"} =>
         /\ shm.log[row[t].id].start = row[t].start
         /\ shm.log[row[t].id].lot = row[t].lot
    /\ pc[t] = "update" =>
         row[t].total \in Costs(req[t].time - row[t].start, row[t].lot)

\* A restore that fails after a reboot leaves a database without lots, and
\* the next flush writes it over the backup.
LotTables == {FirstDisk.lots} \cup IF IOFaults THEN {<<>>} ELSE {}

Tariff ==
  /\ BilledLog(shm.log) /\ BilledLog(disk.log)
  /\ disk.lots \in LotTables
  /\ server = "up" \/ IOFaults => shm.lots \in LotTables
  /\ \A u \in Tools : tpc[u] = "idle"
  /\ RowFits

(* The tariff is in the table of lots, and nowhere else.                   *)
LEMMA TablePrice ==
  ASSUME NEW db, db.lots \in LotTables, NEW d, NEW lot
  PROVE  calculatePrice(db, d, lot) \in Costs(d, lot)
<1>1. CASE db.lots = FirstDisk.lots
  <2>1. calculatePrice(db, d, lot) = calculatePrice(FirstDisk, d, lot)
    BY <1>1 DEF calculatePrice, LiveLots
  <2> QED
    BY <2>1 DEF Costs
<1>2. CASE db.lots = <<>> /\ IOFaults
  <2>1. calculatePrice(db, d, lot) = 0
    BY <1>2 DEF calculatePrice, LiveLots
  <2> QED
    BY <1>2, <2>1 DEF Costs
<1> QED
  BY <1>1, <1>2 DEF LotTables

(* Boot, Crash and Reboot.                                                 *)
LEMMA ServerStepsBill ==
  ASSUME TypeOK, Kept, Tariff, Boot \/ Crash \/ Reboot
  PROVE  Tariff'
<1>1. /\ \A t \in Threads : pc'[t] = "idle"
      /\ \A u \in Tools : tpc'[u] = "idle"
      /\ disk' = disk
  BY DEF Boot, Crash, Reboot, ThreadsDie, locals, tvars, files, Kept, OneProgram, Tariff
<1>2. RowFits'
  BY <1>1 DEF RowFits
<1>3. CASE Boot
  <2>1. BilledLog(shm'.log) /\ (server' = "up" \/ IOFaults => shm'.lots \in LotTables)
    <3>1. CASE IOFaults
      <4>1. PICK o \in Opened(IOFaults \/ \E u \in Tools : tpc[u] # "idle") : shm' = o.shm
        BY <1>3 DEF Boot
      <4>2. \E i \in {shm, disk} : shm'.log = i.log /\ shm'.lots = i.lots
        BY <4>1, OpenedType
      <4> QED
        BY <3>1, <4>2 DEF Tariff
    <3>2. CASE ~IOFaults
      <4>1. shm' = [disk EXCEPT !.schema = TRUE]
        BY <1>3, <3>2, BootsAlone DEF Tariff
      <4>2. shm'.log = disk.log /\ shm'.lots = disk.lots
        BY <4>1, SchemaType DEF TypeOK
      <4> QED
        BY <4>2 DEF Tariff
    <3> QED
      BY <3>1, <3>2
  <2> QED
    BY <1>1, <1>2, <2>1 DEF Tariff
<1>4. CASE Crash
  BY <1>1, <1>2, <1>4 DEF Crash, ThreadsDie, files, Tariff
<1>5. CASE Reboot
  <2>1. shm'.log = <<>> /\ shm'.lots = <<>> /\ server' = "down"
    BY <1>5 DEF Reboot, ThreadsDie, EmptyImage
  <2>2. IOFaults => shm'.lots \in LotTables
    BY <2>1 DEF LotTables
  <2>3. BilledLog(shm'.log)
    BY <2>1 DEF BilledLog
  <2> QED
    BY <1>1, <1>2, <2>1, <2>2, <2>3 DEF Tariff
<1> QED
  BY <1>3, <1>4, <1>5

(* A handler thread's steps.                                               *)
LEMMA ThreadStepsBill ==
  ASSUME TypeOK, Kept, Tariff,
         NEW t \in Threads, Receive(t) \/ ThreadStep(t)
  PROVE  Tariff'
<1>1. /\ server = "up" /\ (ThreadMayFail <=> IOFaults) /\ shm.lots \in LotTables
      /\ \A u \in Tools : tpc'[u] = "idle"
  <2>1. server = "up"
    BY ThreadStepsKeep
  <2>2. UNCHANGED tvars
    BY DEF Receive, ThreadStep, FindLot, FindNoLot, Insert, InsertFails, Select,
           SelectFails, Price, Update, UpdateFails, FlushAndAck, Fail
  <2> QED
    BY <2>1, <2>2 DEF Tariff, tvars, ThreadMayFail
<1>2. ASSUME files' = files, RowFits' PROVE Tariff'
  BY <1>1, <1>2 DEF files, Tariff
<1>3. CASE Receive(t)
  BY <1>2, <1>3 DEF Receive, Goto, files, TypeOK, Tariff, RowFits
<1>4. CASE Fail(t)
  BY <1>2, <1>4 DEF Fail, Finish, Goto, files, TypeOK, Tariff, RowFits
<1>5. CASE FindLot(t)
  BY <1>2, <1>5 DEF FindLot, Goto, files, TypeOK, Tariff, RowFits
<1>6. CASE Insert(t)
  <2>1. shm'.lots = shm.lots /\ disk' = disk
    <3>1. req[t] \in Request /\ row[t].lot \in Nat
      BY <1>6 DEF Insert, TypeOK, Row
    <3> DEFINE s == OpenSession(req[t].cust, row[t].lot, req[t].time)
    <3>2. s \in Session
      BY <3>1, RequestParts DEF OpenSession, Session
    <3>3. shm' = insertLog(shm, s) /\ disk' = disk
      BY <1>6 DEF Insert
    <3> HIDE DEF s
    <3> QED
      BY <3>2, <3>3, InsertLogType DEF TypeOK
  <2>2. /\ DOMAIN shm'.log = DOMAIN shm.log \cup {Len(shm.log) + 1}
        /\ shm'.log[Len(shm.log) + 1].open
        /\ \A i \in DOMAIN shm.log : shm'.log[i] = shm.log[i]
    <3>1. /\ Len(shm'.log) = Len(shm.log) + 1 /\ shm'.log[Len(shm.log) + 1].open
          /\ \A i \in DOMAIN shm.log : shm'.log[i] = shm.log[i]
      BY <1>6, InsertEffect
    <3>2. DOMAIN shm.log = 1 .. Len(shm.log) /\ Len(shm.log) \in Nat
      BY ImageParts DEF TypeOK
    <3>3. shm'.log = Append(shm.log, shm'.log[Len(shm.log) + 1])
      BY <1>6, InsertEffect
    <3>4. DOMAIN shm'.log = 1 .. Len(shm.log) + 1
      BY <3>2, <3>3
    <3> QED
      BY <3>1, <3>2, <3>4
  <2>3. BilledLog(shm'.log)
    BY <2>2 DEF Tariff, BilledLog
  <2>4. RowFits'
    <3>1. ASSUME NEW q \in Threads, pc'[q] \in {"price", "update"}
          PROVE  pc'[q] = pc[q] /\ row'[q] = row[q] /\ req' = req
      BY <1>6, <3>1 DEF Insert, Goto, TypeOK
    <3>2. ASSUME NEW q \in Threads, pc'[q] \in {"price", "update"}
          PROVE  shm'.log[row[q].id] = shm.log[row[q].id]
      BY <2>2, <3>1, <3>2 DEF Kept, FoundOwn
    <3> QED BY <3>1, <3>2 DEF Tariff, RowFits
  <2> QED
    BY <1>1, <2>1, <2>3, <2>4 DEF Tariff
<1>7. CASE Select(t)
  <2>1. PICK i \in NewestOpen(shm, req[t].cust) :
          row' = [row EXCEPT ![t] = [id |-> i, lot |-> shm.log[i].lot,
                                     start |-> shm.log[i].start, total |-> 0]]
    BY <1>7 DEF Select
  <2> QED
    BY <1>2, <1>7, <2>1 DEF Select, Goto, files, TypeOK, Tariff, RowFits
<1>8. CASE Price(t)
  <2>1. PICK p \in {calculatePrice(shm, req[t].time - row[t].start, row[t].lot)}
                    \cup IF ThreadMayFail THEN {0} ELSE {} :
          row' = [row EXCEPT ![t].total = p]
    BY <1>8 DEF Price
  <2>2. p \in Costs(req[t].time - row[t].start, row[t].lot)
    <3>1. CASE p = calculatePrice(shm, req[t].time - row[t].start, row[t].lot)
      BY <1>1, <3>1, TablePrice
    <3>2. CASE p = 0 /\ ThreadMayFail
      BY <1>1, <3>2 DEF Costs
    <3> QED
      BY <3>1, <3>2
  <2>3. /\ row'[t].id = row[t].id /\ row'[t].lot = row[t].lot
        /\ row'[t].start = row[t].start /\ row'[t].total = p
        /\ \A q \in Threads \ {t} : row'[q] = row[q]
    BY <2>1 DEF TypeOK, Row
  <2>4. RowFits'
    BY <1>8, <2>2, <2>3 DEF Price, Goto, files, TypeOK, Tariff, RowFits
  <2> QED
    BY <1>2, <1>8, <2>4 DEF Price
<1>9. CASE Update(t)
  <2> DEFINE k == row[t].id
             c == ClosedSession(shm.log[k], req[t].time, row[t].total)
  <2>1. req[t].time \in Nat /\ row[t].total \in Int /\ shm \in Image
    BY <1>9, RequestParts DEF Update, TypeOK, Row
  <2>2. shm'.lots = shm.lots /\ disk' = disk
    <3>1. shm' = updateLog(shm, row[t].id, req[t].time, row[t].total) /\ disk' = disk
      BY <1>9 DEF Update
    <3>2. updateLog(shm, row[t].id, req[t].time, row[t].total).lots = shm.lots
      BY <2>1 DEF updateLog, Image
    <3> QED
      BY <3>1, <3>2
  <2>3. k \in DOMAIN shm.log /\ shm.log[k] \in Session
    BY <1>9, UpdateEffect, RowType DEF Update, Kept, FoundOwn
  <2>4. /\ shm'.log[k] = c
        /\ DOMAIN shm'.log = DOMAIN shm.log
        /\ \A i \in DOMAIN shm.log : i # k => shm'.log[i] = shm.log[i]
    BY <1>9, <2>3, UpdateEffect
  <2>5. /\ c.end = req[t].time /\ c.total = row[t].total
        /\ c.lot = shm.log[k].lot /\ c.start = shm.log[k].start
    BY <2>1, <2>3, ClosedParts
  <2>6. /\ shm.log[k].start = row[t].start /\ shm.log[k].lot = row[t].lot
        /\ row[t].total \in Costs(req[t].time - row[t].start, row[t].lot)
    BY <1>9 DEF Update, Tariff, RowFits
  <2> HIDE DEF c, k
  <2>7. BilledLog(shm'.log)
    BY <2>4, <2>5, <2>6 DEF Tariff, BilledLog
  <2>8. ASSUME NEW i \in DOMAIN shm.log
        PROVE  shm'.log[i].start = shm.log[i].start /\ shm'.log[i].lot = shm.log[i].lot
    BY <2>4, <2>5
  <2>9. RowFits'
    BY <1>9, <2>8 DEF Update, Goto, TypeOK, Tariff, RowFits, Kept, FoundOwn
  <2> QED
    BY <1>1, <2>2, <2>7, <2>9 DEF Tariff
<1>10. CASE FlushAndAck(t)
  <2>1. shm' = shm /\ disk' \in {shm, disk}
    BY <1>10, FlushedIs DEF FlushAndAck
  <2>2. RowFits'
    BY <1>10, <2>1 DEF FlushAndAck, Finish, Goto, TypeOK, Tariff, RowFits
  <2> QED
    BY <1>1, <2>1, <2>2 DEF Tariff
<1> QED
  BY <1>3, <1>4, <1>5, <1>6, <1>7, <1>8, <1>9, <1>10
     DEF ThreadStep, FindNoLot, InsertFails, SelectFails, UpdateFails

(* No price changes: no updater ever runs.                                 *)
LEMMA AlwaysTariff ==
  ASSUME ~Overlap, Commands = {}, BilledLog(FirstDisk.log)
  PROVE  Spec => []Tariff
<1>1. Init => Tariff
  BY DEF Init, EmptyImage, Tariff, BilledLog, RowFits, LotTables
<1>2. ASSUME TypeOK, Kept, Tariff, [Next]_vars
      PROVE  Tariff'
  <2>1. ASSUME NEW u \in Tools, Launch(u) \/ ToolStep(u) \/ ToolKilled(u)
        PROVE  FALSE
    <3>1. tpc[u] = "idle"
      BY <1>2 DEF Tariff
    <3> QED
      BY <2>1, <3>1
         DEF Launch, ToolStep, ToolKilled, AddCity, RemoveCityLots, RemoveCity,
             AddLot, RemoveLot, UpdateLotPrice, SetLotType, Runs, ToolGivesUp,
             ToolFlush, ToolClose
  <2>2. CASE UNCHANGED vars
    BY <1>2, <2>2 DEF vars, files, locals, tvars, Tariff, RowFits
  <2> QED
    BY <1>2, <2>1, <2>2, ServerStepsBill, ThreadStepsBill DEF Next
<1> QED
  BY <1>1, <1>2, AlwaysKept, PTL DEF Spec

(* Whatever fails, and whichever threads race for one customer's session:  *)
(* a closed session costs what its lot's tariff says for the time between  *)
(* its own START and STOP, or nothing.                                     *)
THEOREM NeverBilledWrong ==
  ASSUME ~Overlap, Commands = {}, BilledLog(FirstDisk.log)
  PROVE  Spec => []BilledOrFree
<1>1. Tariff => BilledOrFree
  BY DEF Tariff, BilledLog, Costs, BilledOrFree
<1> QED
  BY <1>1, AlwaysTariff, PTL

(* The SELECT of a session, that of its lot's tariff and the UPDATE are     *)
(* three statements, other threads work and the server may crash between   *)
(* them: still every closed session costs what its lot's tariff says for   *)
(* the time between its own START and STOP.                                *)
THEOREM AlwaysBilledByTariff ==
  ASSUME Exclusive, Commands = {}, BilledLog(FirstDisk.log)
  PROVE  Spec => []BilledByTariff
<1>1. Tariff => BilledByTariff
  BY DEF Tariff, BilledLog, Costs, BilledByTariff, Exclusive
<1> QED
  BY <1>1, AlwaysTariff, PTL DEF Exclusive

-----------------------------------------------------------------------------
(* Removing a city, in two statements and up to two flushes.               *)

\* Table new has no lot to park in of a city that old has and new has not.
TakesLotsAlong(new, old) ==
  \A c \in LiveCities(old) \ LiveCities(new) :
    \A l \in LiveLots(new) : new.lots[l].city # c

\* Until the updater's last statement the cities are those of the backup;
\* before it deletes a city, the city has no lots.
RemovalFits ==
  /\ server = "up" => shm.cities = disk.cities
  /\ \A u \in Tools :
       /\ tpc[u] \in {"op", "city"} => shm.cities = disk.cities
       /\ tpc[u] = "city" => \A l \in LiveLots(shm) : shm.lots[l].city # cmd[u].city
       /\ tpc[u] \in {"flush", "close"} => TakesLotsAlong(shm, disk)

LEMMA SameCities ==
  ASSUME NEW new, NEW old, new.cities = old.cities
  PROVE  TakesLotsAlong(new, old)
  BY DEF TakesLotsAlong, LiveCities

(* No statement on sessions or lots touches the table of cities.           *)
LEMMA CitiesStay ==
  ASSUME NEW db \in Image
  PROVE  /\ [db EXCEPT !.schema = TRUE].cities = db.cities
         /\ \A l : [db EXCEPT !.log = l].cities = db.cities
         /\ \A l : [db EXCEPT !.lots = l].cities = db.cities
  BY DEF Image

(* DELETE FROM Lot WHERE city_id = ? leaves no lot of the city.            *)
LEMMA LotsDeleted ==
  ASSUME NEW db \in Image, NEW city, NEW l \in LiveLots(deleteLotsOf(db, city))
  PROVE  deleteLotsOf(db, city).lots[l].city # city
<1> DEFINE f == [i \in DOMAIN db.lots |->
                   IF db.lots[i].city = city THEN Deleted(db.lots[i]) ELSE db.lots[i]]
<1>1. deleteLotsOf(db, city).lots = f
  BY DEF deleteLotsOf, Image
<1>2. l \in DOMAIN db.lots /\ f[l].live
  BY <1>1 DEF LiveLots
<1>3. db.lots[l] \in Lot
  BY <1>2, LotRow
<1>4. ~ Deleted(db.lots[l]).live
  BY <1>3 DEF Deleted, Lot
<1> QED
  BY <1>1, <1>2, <1>4

(* DELETE FROM City WHERE city_id = ? takes one city away, and no lot.     *)
LEMMA CityDeleted ==
  ASSUME NEW db \in Image, NEW city
  PROVE  /\ LiveCities(db) \ LiveCities(deleteCity(db, city)) \subseteq {city}
         /\ deleteCity(db, city).lots = db.lots
<1> DEFINE f == [i \in DOMAIN db.cities |->
                   IF i = city THEN Deleted(db.cities[i]) ELSE db.cities[i]]
<1>1. deleteCity(db, city).cities = f /\ deleteCity(db, city).lots = db.lots
  BY DEF deleteCity, Image
<1> QED
  BY <1>1 DEF LiveCities

(* INSERT INTO City takes none away.                                       *)
LEMMA CityInserted ==
  ASSUME NEW db \in Image, NEW name \in CityNames
  PROVE  LiveCities(db) \subseteq LiveCities(insertCity(db, name))
<1> DEFINE e == [name |-> name, live |-> TRUE]
<1>1. e \in City /\ db.cities \in Seq(City)
  BY ImageParts DEF City
<1>2. insertCity(db, name).cities = Append(db.cities, e)
  BY DEF insertCity, Image
<1> HIDE DEF e
<1>3. \A i \in DOMAIN db.cities :
        i \in DOMAIN Append(db.cities, e) /\ Append(db.cities, e)[i] = db.cities[i]
  BY <1>1, AppendRows
<1> QED
  BY <1>2, <1>3 DEF LiveCities

(* A statement of the updater brings it to the flush with no lot left of a *)
(* city it has taken away, or to the deletion of a city without lots.      *)
LEMMA StatementRemoves ==
  ASSUME TypeOK, RemovalFits, NEW u \in Tools, UpdaterStatement(u), ~ToolMayFail(u)
  PROVE  /\ disk' = disk /\ server' = server /\ cmd' = cmd
         /\ \/ tpc' = [tpc EXCEPT ![u] = "flush"] /\ TakesLotsAlong(shm', disk)
            \/ /\ tpc' = [tpc EXCEPT ![u] = "city"] /\ shm'.cities = disk.cities
               /\ \A l \in LiveLots(shm') : shm'.lots[l].city # cmd[u].city
<1>1. disk' = disk /\ server' = server /\ cmd' = cmd
  <2>1. PICK i \in Image, step \in {"flush", "city"} : Statement(u, i, step)
    BY StatementOutcome
  <2> QED BY <2>1 DEF Statement
<1>2. shm \in Image /\ cmd[u] \in Command
  BY DEF TypeOK
<1>3. tpc[u] \in {"op", "city"} => shm.cities = disk.cities
  BY DEF RemovalFits
<1>4. CASE AddCity(u)
  <2>1. cmd[u].name \in CityNames /\ shm.cities = disk.cities
    BY <1>2, <1>3, <1>4 DEF AddCity, Runs, Command
  <2>2. /\ shm' = insertCity(shm, cmd[u].name)
        /\ tpc' = [tpc EXCEPT ![u] = "flush"]
    BY <1>4 DEF AddCity, Statement, ToolGoto
  <2>3. LiveCities(shm) = LiveCities(disk) /\ LiveCities(shm) \subseteq LiveCities(shm')
    BY <1>2, <2>1, <2>2, CityInserted DEF LiveCities
  <2> QED BY <1>1, <2>2, <2>3 DEF TakesLotsAlong
<1>5. CASE RemoveCityLots(u)
  <2>1. shm.cities = disk.cities
    BY <1>3, <1>5 DEF RemoveCityLots, Runs
  <2>2. /\ shm' = deleteLotsOf(shm, cmd[u].city)
        /\ tpc' = [tpc EXCEPT ![u] = "city"]
    BY <1>5 DEF RemoveCityLots, Statement, ToolGoto
  <2>3. shm'.cities = shm.cities
    BY <1>2, <2>2, CitiesStay DEF deleteLotsOf
  <2> QED BY <1>1, <1>2, <2>1, <2>2, <2>3, LotsDeleted
<1>6. CASE RemoveCity(u)
  <2>1. /\ shm.cities = disk.cities
        /\ \A l \in LiveLots(shm) : shm.lots[l].city # cmd[u].city
    BY <1>3, <1>6 DEF RemoveCity, RemovalFits
  <2>2. /\ shm' = deleteCity(shm, cmd[u].city)
        /\ tpc' = [tpc EXCEPT ![u] = "flush"]
    BY <1>6 DEF RemoveCity, Statement, ToolGoto
  <2>3. /\ LiveCities(disk) \ LiveCities(shm') \subseteq {cmd[u].city}
        /\ shm'.lots = shm.lots
    BY <1>2, <2>1, <2>2, CityDeleted DEF LiveCities
  <2> QED BY <1>1, <2>1, <2>2, <2>3 DEF TakesLotsAlong, LiveLots
<1>7. CASE AddLot(u) \/ RemoveLot(u) \/ UpdateLotPrice(u) \/ SetLotType(u)
  <2>1. shm.cities = disk.cities /\ tpc' = [tpc EXCEPT ![u] = "flush"]
    BY <1>3, <1>7 DEF AddLot, RemoveLot, UpdateLotPrice, SetLotType, Runs,
                      Statement, ToolGoto
  <2>2. shm'.cities = shm.cities
    <3>1. CASE AddLot(u)
      BY <1>2, <3>1, CitiesStay DEF AddLot, Statement, insertLot
    <3>2. CASE RemoveLot(u)
      BY <1>2, <3>2, CitiesStay DEF RemoveLot, Statement, deleteLot
    <3>3. CASE UpdateLotPrice(u)
      BY <1>2, <3>3, CitiesStay DEF UpdateLotPrice, Statement, updateLotPrice
    <3>4. CASE SetLotType(u)
      BY <1>2, <3>4, CitiesStay DEF SetLotType, Statement, setLotType
    <3> QED
      BY <1>7, <3>1, <3>2, <3>3, <3>4
  <2> QED BY <1>1, <2>1, <2>2, SameCities
<1> QED
  BY <1>4, <1>5, <1>6, <1>7 DEF UpdaterStatement

(* Server and threads do not touch the table of cities.                    *)
LEMMA ServerKeepsCities ==
  ASSUME TypeOK, Coherent, Exclusive, RemovalFits,
         Boot \/ Crash \/ Reboot \/ \E t \in Threads : Receive(t) \/ ThreadStep(t)
  PROVE  /\ RemovalFits'
         /\ disk' = disk \/ disk'.cities = disk.cities
<1>0. shm \in Image /\ disk \in Image
  BY DEF TypeOK
<1>1. CASE Boot
  <2>1. shm'.cities = disk.cities
    BY <1>0, <1>1, BootRestores, CitiesStay
  <2> QED
    BY <1>1, <2>1, SameCities DEF Boot, tvars, Exclusive, RemovalFits
<1>2. CASE Crash
  BY <1>2 DEF Crash, ThreadsDie, files, tvars, RemovalFits
<1>3. CASE Reboot
  BY <1>3 DEF Reboot, ThreadsDie, RemovalFits
<1>4. ASSUME NEW t \in Threads, Receive(t) \/ ThreadStep(t)
      PROVE  /\ RemovalFits'
             /\ disk' = disk \/ disk'.cities = disk.cities
  <2>1. /\ server = "up" /\ shm.cities = disk.cities
        /\ \A u \in Tools : tpc[u] = "idle"
        /\ UNCHANGED <<server, tvars>>
    BY <1>4, ThreadWorksAlone DEF RemovalFits
  <2>2. shm'.cities = shm.cities /\ disk' \in {shm, disk}
    <3>1. CASE Insert(t)
      BY <1>0, <3>1, CitiesStay DEF Insert, insertLog
    <3>2. CASE Update(t)
      BY <1>0, <3>2, CitiesStay DEF Update, updateLog
    <3>3. CASE FlushAndAck(t)
      BY <3>3, FlushedIs DEF FlushAndAck
    <3> QED
      BY <1>4, <3>1, <3>2, <3>3
         DEF Receive, ThreadStep, FindLot, FindNoLot, InsertFails, Select,
             SelectFails, Price, UpdateFails, Fail, files
  <2> QED
    BY <2>1, <2>2 DEF RemovalFits, tvars
<1> QED
  BY <1>1, <1>2, <1>3, <1>4

LEMMA UpdaterRemoves ==
  ASSUME TypeOK, Coherent, Exclusive, RemovalFits,
         NEW u \in Tools, Launch(u) \/ ToolStep(u) \/ ToolKilled(u)
  PROVE  RemovalFits' /\ TakesLotsAlong(disk', disk)
<1>0. shm \in Image /\ disk \in Image /\ tpc \in [Tools -> {"idle", "op", "city", "flush", "close"}]
      /\ cmd \in [Tools -> Command]
  BY DEF TypeOK
<1>1. server = "down" /\ server' = "down"
  BY ToolStepsCoherent
<1>2. ~ToolMayFail(u) /\ \A v \in Tools \ {u} : tpc[v] = "idle"
  <2>1. CASE Launch(u)
    BY <1>1, <2>1 DEF Launch, Exclusive, ToolMayFail, ToolsBusy, ServerBusy
  <2>2. CASE ToolStep(u) \/ ToolKilled(u)
    <3>1. tpc[u] # "idle"
      BY <2>2 DEF ToolStep, ToolKilled, AddCity, RemoveCityLots, RemoveCity,
                  AddLot, RemoveLot, UpdateLotPrice, SetLotType, Runs,
                  ToolGivesUp, ToolFlush, ToolClose
    <3> QED
      BY <1>1, <3>1 DEF Coherent, OneWriter, Exclusive, ToolMayFail, ToolsBusy, ServerBusy
  <2> QED BY <2>1, <2>2
<1>3. TakesLotsAlong(disk, disk)
  BY SameCities
<1>4. CASE Launch(u)
  <2>1. PICK c \in Commands, o \in Opened(ToolMayFail(u)) :
          /\ shm' = o.shm
          /\ IF o.alive
               THEN /\ ToolGoto(u, "op")
                    /\ cmd' = [cmd EXCEPT ![u] = c]
                    /\ tDiskOk' = [tDiskOk EXCEPT ![u] = o.diskOk]
               ELSE UNCHANGED tvars
    BY <1>4 DEF Launch
  <2>2. o = [alive |-> TRUE, diskOk |-> TRUE, shm |-> [disk EXCEPT !.schema = TRUE]]
    BY <1>2, OpenedExclusive DEF Exclusive
  <2>3. shm'.cities = disk.cities /\ disk' = disk
    BY <1>0, <1>4, <2>1, <2>2, CitiesStay DEF Launch
  <2>4. tpc' = [tpc EXCEPT ![u] = "op"]
    BY <2>1, <2>2 DEF ToolGoto
  <2> QED
    BY <1>0, <1>1, <1>2, <1>3, <2>3, <2>4 DEF RemovalFits
<1>5. CASE UpdaterStatement(u)
  <2>1. /\ disk' = disk /\ server' = server /\ cmd' = cmd
        /\ \/ tpc' = [tpc EXCEPT ![u] = "flush"] /\ TakesLotsAlong(shm', disk)
           \/ /\ tpc' = [tpc EXCEPT ![u] = "city"] /\ shm'.cities = disk.cities
              /\ \A l \in LiveLots(shm') : shm'.lots[l].city # cmd[u].city
    BY <1>2, <1>5, StatementRemoves
  <2> QED
    BY <1>0, <1>1, <1>2, <1>3, <2>1 DEF RemovalFits
<1>6. CASE ToolGivesUp(u)
  <2>1. /\ tpc[u] \in {"op", "city"} /\ tpc' = [tpc EXCEPT ![u] = "close"]
        /\ shm' = shm /\ disk' = disk
    BY <1>6 DEF ToolGivesUp, ToolGoto, files
  <2>2. TakesLotsAlong(shm, disk)
    BY <2>1, SameCities DEF RemovalFits
  <2> QED
    BY <1>0, <1>1, <1>2, <1>3, <2>1, <2>2 DEF RemovalFits
<1>7. CASE ToolFlush(u) \/ ToolClose(u)
  <2>1. /\ tpc[u] \in {"flush", "close"} /\ shm' = shm /\ disk' \in {shm, disk}
        /\ tpc' \in {[tpc EXCEPT ![u] = "close"], [tpc EXCEPT ![u] = "idle"]}
    BY <1>7, FlushedIs DEF ToolFlush, ToolClose, ToolEnds, ToolGoto
  <2>2. TakesLotsAlong(shm, disk) /\ TakesLotsAlong(shm, shm)
    BY <2>1, SameCities DEF RemovalFits
  <2> QED
    BY <1>0, <1>1, <1>2, <1>3, <2>1, <2>2 DEF RemovalFits
<1>8. CASE ToolKilled(u)
  BY <1>0, <1>1, <1>2, <1>3, <1>8 DEF ToolKilled, ToolEnds, ToolGoto, files, RemovalFits
<1> QED
  BY <1>4, <1>5, <1>6, <1>7, <1>8 DEF ToolStep, UpdaterStatement

(* removeCity deletes lots and city in two statements without a            *)
(* transaction, is killed between them or gives up, and its object flushes *)
(* once more when it ends: without faults and overlap no flush ever takes  *)
(* a city from the backup and leaves one of its lots to park in.           *)
THEOREM RemovesCitiesWhole ==
  ASSUME Exclusive
  PROVE  Spec => CityRemovalIsWhole
<1> DEFINE Fine == \A c \in LiveCities(disk) \ LiveCities(disk') :
                     \A l \in LiveLots(disk') : disk'.lots[l].city # c
<1>1. Init => RemovalFits
  BY DEF Init, RemovalFits
<1>2. ASSUME TypeOK, Coherent, RemovalFits, [Next]_vars
      PROVE  RemovalFits' /\ Fine
  <2>1. Fine <=> TakesLotsAlong(disk', disk)
    BY DEF TakesLotsAlong
  <2>2. CASE UNCHANGED vars
    BY <1>2, <2>1, <2>2, SameCities DEF vars, files, tvars, RemovalFits
  <2>3. CASE Boot \/ Crash \/ Reboot \/ \E t \in Threads : Receive(t) \/ ThreadStep(t)
    BY <1>2, <2>1, <2>3, ServerKeepsCities, SameCities
  <2>4. ASSUME NEW u \in Tools, Launch(u) \/ ToolStep(u) \/ ToolKilled(u)
        PROVE  RemovalFits' /\ Fine
    BY <1>2, <2>1, <2>4, UpdaterRemoves
  <2> QED
    BY <1>2, <2>2, <2>3, <2>4 DEF Next
<1>3. TypeOK /\ Coherent /\ RemovalFits /\ [Next]_vars => RemovalFits' /\ [Fine]_vars
  BY <1>2
<1>4. CityRemovalIsWhole <=> [][Fine]_vars
  BY DEF CityRemovalIsWhole
<1>5. Spec => []TypeOK /\ []Coherent
  BY TypeCorrect, AlwaysCoherent
<1> QED
  BY <1>1, <1>3, <1>4, <1>5, PTL DEF Spec
=============================================================================
