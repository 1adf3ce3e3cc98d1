------------------------------ MODULE ParksysDB ------------------------------
(***************************************************************************)
(* The parking server's two-tier database and the processes that use it.   *)
(*                                                                         *)
(* shm is the runtime database /dev/shm/parksys.db, disk the backup        *)
(* $HOME/parksys/parksys.db.  The server (server/Src/server.cpp) runs one  *)
(* handler thread per client connection; every run of                      *)
(* parksys-price-updater (server/Src/price_updater.cpp) is a process of    *)
(* its own.  Both work on the files through a Database object              *)
(* (server/Src/db.cpp): its constructor copies disk over shm, every        *)
(* statement writes shm, and a flush copies shm over disk.                 *)
(*                                                                         *)
(* One SQLite statement or backup is one step: threads share a connection  *)
(* in serialized mode, and between processes the file locks make each of   *)
(* them atomic or fail with SQLITE_BUSY.                                   *)
(***************************************************************************)
EXTENDS ParkingData

CONSTANTS
  Threads,     (* handler threads of the server                            *)
  Tools,       (* runs of parksys-price-updater                            *)
  Feed,        (* Feed[t]: the requests thread t may receive               *)
  Commands,    (* the command lines a tool may be started with             *)
  FirstDisk,   (* the backup file at first                                 *)
  MaxLog,      (* bound: no START is received at this many sessions        *)
  MaxRows,     (* bound: nothing is added at this many cities and lots     *)
  IOFaults,    (* may the disk, and any statement, fail?                   *)
  Overlap      (* may a tool run beside the server or another tool?        *)

Request == [type : {"START", "STOP", "IDLE"}, cust : Customers,
            place : Places \cup {Nowhere}, time : Nat]

Command ==
  [op : {"addCity"}, name : CityNames]
    \cup [op : {"removeCity"}, city : Nat]
    \cup [op : {"addLot"}, city : Nat, place : Places, hourly : BOOLEAN,
          price : Int, max : Int]
    \cup [op : {"removeLot"}, lot : Nat]
    \cup [op : {"updateLotPrice"}, lot : Nat, price : Int, max : Int]
    \cup [op : {"setLotType"}, lot : Nat, hourly : BOOLEAN]
    \cup [op : {"none"}]     \* a usage error, or a prompt answered "no"

ASSUME ParksysDBAssumption ==
  /\ Feed \in [Threads -> SUBSET Request]
  /\ Commands \subseteq Command
  /\ FirstDisk \in Image
  /\ IOFaults \in BOOLEAN
  /\ Overlap \in BOOLEAN

VARIABLES
  server,      (* is the server process running: "down" or "up"            *)
  shm, disk,   (* the two database files                                   *)
  diskOk,      (* the server's Database::disk_ok                           *)
  pc,          (* pc[t]: the step thread t is at in handle_request         *)
  req,         (* req[t]: the request thread t handles                     *)
  row,         (* row[t]: its locals log_id, lot_id, start_time and total  *)
  tpc,         (* tpc[u]: the step tool u is at in main                    *)
  cmd,         (* cmd[u]: its command line                                 *)
  tDiskOk,     (* its Database::disk_ok                                    *)
  journal      (* the START and STOP lines of parksys.log                  *)

files  == <<shm, disk>>
locals == <<pc, req, row>>
tvars  == <<tpc, cmd, tDiskOk>>
vars   == <<server, diskOk, files, locals, tvars, journal>>

NoReq == [type |-> "none"]
NoRow == [id |-> 0, lot |-> 0, start |-> 0, total |-> 0]
NoCmd == [op |-> "none"]

Row == [id : Nat, lot : Nat, start : Nat, total : Int]
Ack == [type : {"START", "STOP"}, cust : Customers, id : Nat, time : Nat]

ServerBusy == server = "up" /\ \E t \in Threads : pc[t] # "idle"
ToolsBusy(u) == \E v \in Tools \ {u} : tpc[v] # "idle"

\* A statement or backup fails on an I/O error, or with SQLITE_BUSY while
\* another process holds the file's lock.
ThreadMayFail  == IOFaults \/ \E u \in Tools : tpc[u] # "idle"
ToolMayFail(u) == IOFaults \/ ServerBusy \/ ToolsBusy(u)

TypeOK ==
  /\ server \in {"down", "up"}
  /\ shm \in Image
  /\ disk \in Image
  /\ diskOk \in BOOLEAN
  /\ pc \in [Threads -> {"idle", "closest", "insert", "select", "price",
                         "update", "flush"}]
  /\ req \in [Threads -> Request \cup {NoReq}]
  /\ \A t \in Threads : pc[t] # "idle" => req[t] \in Request
  /\ row \in [Threads -> Row]
  /\ tpc \in [Tools -> {"idle", "op", "city", "flush", "close"}]
  /\ cmd \in [Tools -> Command]
  /\ tDiskOk \in [Tools -> BOOLEAN]
  /\ journal \subseteq Ack

Init ==
  /\ server = "down"
  /\ shm = EmptyImage
  /\ disk = FirstDisk
  /\ diskOk = FALSE
  /\ pc = [t \in Threads |-> "idle"]
  /\ req = [t \in Threads |-> NoReq]
  /\ row = [t \in Threads |-> NoRow]
  /\ tpc = [u \in Tools |-> "idle"]
  /\ cmd = [u \in Tools |-> NoCmd]
  /\ tDiskOk = [u \in Tools |-> FALSE]
  /\ journal = {}

-----------------------------------------------------------------------------
(* Database::Database and Database::flushToDisk                            *)

\* Mutant: the constructor does not restore the backup.
Opened_noRestore(mayFail) ==
  {[alive |-> TRUE, diskOk |-> TRUE, shm |-> [shm EXCEPT !.schema = TRUE]]}

\* Mutant: the tables are created anew after the restore, Log being emptied.
Opened_emptiesLog(mayFail) ==
  {[alive |-> TRUE, diskOk |-> TRUE,
    shm |-> [disk EXCEPT !.schema = TRUE, !.log = <<>>]]}

\* What the constructor can leave: restoring the backup may fail and is only
\* logged, creating the tables may fail and throws, and without a disk file
\* the object lives on in memory only.
Opened(mayFail) ==
  LET restored == {disk} \cup IF mayFail THEN {shm} ELSE {} IN
  {[alive |-> TRUE, diskOk |-> TRUE, shm |-> [i EXCEPT !.schema = TRUE]] :
     i \in restored}
  \cup (IF mayFail
          THEN {[alive |-> FALSE, diskOk |-> TRUE, shm |-> i] : i \in restored}
          ELSE {})
  \cup (IF IOFaults
          THEN {[alive |-> TRUE, diskOk |-> FALSE, shm |-> shm]}
          ELSE {})

\* The image the disk holds after a flush.
Flushed(ok, mayFail) ==
  (IF ok THEN {shm} ELSE {disk}) \cup (IF mayFail THEN {disk} ELSE {})

-----------------------------------------------------------------------------
(* The server process                                                      *)

\* main: the constructor of Database, then of Server, then run.
Boot ==
  /\ server = "down"
  /\ Overlap \/ \A u \in Tools : tpc[u] = "idle"
  /\ \E o \in Opened(IOFaults \/ \E u \in Tools : tpc[u] # "idle") :
       /\ server' = IF o.alive THEN "up" ELSE "down"
       /\ diskOk' = (o.alive /\ o.diskOk)
       /\ shm' = o.shm
  /\ UNCHANGED <<disk, locals, tvars, journal>>

\* Mutant: the handler threads are detached and outlive the server.
ThreadsDie_detached ==
  /\ server' = "down"
  /\ diskOk' = FALSE
  /\ req' = [t \in Threads |-> NoReq]
  /\ row' = [t \in Threads |-> NoRow]
  /\ UNCHANGED pc

ThreadsDie ==
  /\ server' = "down"
  /\ diskOk' = FALSE
  /\ pc' = [t \in Threads |-> "idle"]
  /\ req' = [t \in Threads |-> NoReq]
  /\ row' = [t \in Threads |-> NoRow]

\* run never returns: the server ends by a signal, without ~Server and
\* ~Database, and both files stay as they are.
Crash ==
  /\ server = "up"
  /\ ThreadsDie
  /\ UNCHANGED <<files, tvars, journal>>

\* The machine restarts: /dev/shm is volatile.
Reboot ==
  /\ ThreadsDie
  /\ shm' = EmptyImage
  /\ tpc' = [u \in Tools |-> "idle"]
  /\ cmd' = [u \in Tools |-> NoCmd]
  /\ tDiskOk' = [u \in Tools |-> FALSE]
  /\ UNCHANGED <<disk, journal>>

-----------------------------------------------------------------------------
(* A handler thread: handle_request on each request it receives            *)

Goto(t, step) == pc' = [pc EXCEPT ![t] = step]

\* handle_request returns.
Finish(t) ==
  /\ Goto(t, "idle")
  /\ req' = [req EXCEPT ![t] = NoReq]
  /\ row' = [row EXCEPT ![t] = NoRow]

\* A statement of thread t that fails ends the request with an error line.
Fail(t) ==
  /\ Finish(t)
  /\ UNCHANGED <<server, diskOk, files, tvars, journal>>

Receive(t) ==
  /\ server = "up"
  /\ pc[t] = "idle"
  /\ \E r \in Feed[t] :
       /\ r.type = "START" => Len(shm.log) < MaxLog
       /\ req' = [req EXCEPT ![t] = r]
  /\ Goto(t, "closest")
  /\ UNCHANGED <<server, diskOk, files, row, tvars, journal>>

\* The rows findClosestLot gets to see: an error cuts the scan short, and
\* the best lot so far is answered all the same.
RowsScanned(db) == {Len(db.lots)} \cup IF IOFaults THEN DOMAIN db.lots ELSE {}

\* findClosestLot, and the switch on the request's type.
FindLot(t) ==
  /\ pc[t] = "closest"
  /\ req[t].type \in {"START", "STOP"}
  /\ shm.schema
  /\ \E n \in RowsScanned(shm) : \E i \in ClosestUpTo(shm, req[t].place, n) :
       row' = [row EXCEPT ![t].lot = i]
  /\ Goto(t, IF req[t].type = "START" THEN "insert" ELSE "select")
  /\ UNCHANGED <<server, diskOk, files, req, tvars, journal>>

FindNoLot(t) ==
  /\ pc[t] = "closest"
  /\ \/ req[t].type = "IDLE"
     \/ LiveLots(shm) = {} \/ req[t].place = Nowhere
     \/ ~shm.schema
     \/ ThreadMayFail
  /\ Fail(t)

\* startParking
Insert(t) ==
  /\ pc[t] = "insert"
  /\ shm.schema
  /\ shm' = insertLog(shm, OpenSession(req[t].cust, row[t].lot, req[t].time))
  /\ row' = [row EXCEPT ![t].id = Len(shm.log) + 1]
  /\ Goto(t, "flush")
  /\ UNCHANGED <<server, diskOk, disk, req, tvars, journal>>

InsertFails(t) ==
  /\ pc[t] = "insert"
  /\ ~shm.schema \/ ThreadMayFail
  /\ Fail(t)

\* endParking: SELECT log_id, start_time, lot_id ...
Select(t) ==
  /\ pc[t] = "select"
  /\ shm.schema
  /\ \E i \in NewestOpen(shm, req[t].cust) :
       row' = [row EXCEPT ![t] = [id |-> i, lot |-> shm.log[i].lot,
                                  start |-> shm.log[i].start, total |-> 0]]
  /\ Goto(t, "price")
  /\ UNCHANGED <<server, diskOk, files, req, tvars, journal>>

SelectFails(t) ==
  /\ pc[t] = "select"
  /\ ~shm.schema \/ OpenIds(shm, req[t].cust) = {} \/ ThreadMayFail
  /\ Fail(t)

\* Mutant: the time of the STOP is taken for the duration.
Price_noStart(t) ==
  /\ pc[t] = "price"
  /\ row' = [row EXCEPT ![t].total = calculatePrice(shm, req[t].time, row[t].lot)]
  /\ Goto(t, "update")
  /\ UNCHANGED <<server, diskOk, files, req, tvars, journal>>

\* calculatePrice answers 0 when its SELECT fails.
Price(t) ==
  /\ pc[t] = "price"
  /\ \E p \in {calculatePrice(shm, req[t].time - row[t].start, row[t].lot)}
                \cup IF ThreadMayFail THEN {0} ELSE {} :
       row' = [row EXCEPT ![t].total = p]
  /\ Goto(t, "update")
  /\ UNCHANGED <<server, diskOk, files, req, tvars, journal>>

\* UPDATE Log ... WHERE log_id = ?
Update(t) ==
  /\ pc[t] = "update"
  /\ shm.schema
  /\ shm' = updateLog(shm, row[t].id, req[t].time, row[t].total)
  /\ Goto(t, "flush")
  /\ UNCHANGED <<server, diskOk, disk, req, row, tvars, journal>>

UpdateFails(t) ==
  /\ pc[t] = "update"
  /\ ~shm.schema \/ ThreadMayFail
  /\ Fail(t)

\* Mutant: the line is written without a flush.
FlushAndAck_noFlush(t) ==
  /\ pc[t] = "flush"
  /\ journal' = journal \cup {[type |-> req[t].type, cust |-> req[t].cust,
                               id |-> row[t].id, time |-> req[t].time]}
  /\ Finish(t)
  /\ UNCHANGED <<server, diskOk, files, tvars>>

\* Mutant: the backup is copied over the runtime database.
FlushAndAck_swapped(t) ==
  /\ pc[t] = "flush"
  /\ shm' \in {shm} \cup IF diskOk THEN {disk} ELSE {}
  /\ journal' = journal \cup {[type |-> req[t].type, cust |-> req[t].cust,
                               id |-> row[t].id, time |-> req[t].time]}
  /\ Finish(t)
  /\ UNCHANGED <<server, diskOk, disk, tvars>>

\* flushToDisk, whose result is ignored, then the line in parksys.log.
FlushAndAck(t) ==
  /\ pc[t] = "flush"
  /\ disk' \in Flushed(diskOk, ThreadMayFail)
  /\ journal' = journal \cup {[type |-> req[t].type, cust |-> req[t].cust,
                               id |-> row[t].id, time |-> req[t].time]}
  /\ Finish(t)
  /\ UNCHANGED <<server, diskOk, shm, tvars>>

ThreadStep(t) ==
  \/ FindLot(t) \/ FindNoLot(t)
  \/ Insert(t)  \/ InsertFails(t)
  \/ Select(t)  \/ SelectFails(t)
  \/ Price(t)
  \/ Update(t)  \/ UpdateFails(t)
  \/ FlushAndAck(t)

-----------------------------------------------------------------------------
(* A run of parksys-price-updater                                          *)

ToolGoto(u, step) == tpc' = [tpc EXCEPT ![u] = step]

Launch(u) ==
  /\ tpc[u] = "idle"
  /\ Overlap \/ (server = "down" /\ ~ToolsBusy(u))
  /\ \E c \in Commands, o \in Opened(ToolMayFail(u)) :
       /\ c.op = "addCity" => Len(o.shm.cities) < MaxRows
       /\ c.op = "addLot" => Len(o.shm.lots) < MaxRows
       /\ shm' = o.shm
       /\ IF o.alive
            THEN /\ ToolGoto(u, "op")
                 /\ cmd' = [cmd EXCEPT ![u] = c]
                 /\ tDiskOk' = [tDiskOk EXCEPT ![u] = o.diskOk]
            ELSE UNCHANGED tvars
  /\ UNCHANGED <<server, diskOk, disk, locals, journal>>

\* A statement of tool u that succeeds leaves image i and goes on to step.
Statement(u, i, step) ==
  /\ shm.schema
  /\ shm' = i
  /\ ToolGoto(u, step)
  /\ UNCHANGED <<server, diskOk, disk, locals, cmd, tDiskOk, journal>>

Runs(u, op) == tpc[u] = "op" /\ cmd[u].op = op

AddCity(u) ==
  /\ Runs(u, "addCity")
  /\ ~HasLiveCity(shm, cmd[u].name)
  /\ Statement(u, insertCity(shm, cmd[u].name), "flush")

\* removeCity: two statements, no transaction.  The first one's result is
\* ignored, so it may as well have done nothing.
RemoveCityLots(u) ==
  /\ Runs(u, "removeCity")
  /\ \E i \in {deleteLotsOf(shm, cmd[u].city)}
                \cup IF ToolMayFail(u) THEN {shm} ELSE {} :
       Statement(u, i, "city")

RemoveCity(u) ==
  /\ tpc[u] = "city"
  /\ Statement(u, deleteCity(shm, cmd[u].city), "flush")

AddLot(u) ==
  /\ Runs(u, "addLot")
  /\ Statement(u, insertLot(shm, cmd[u].city, cmd[u].place, cmd[u].hourly,
                            cmd[u].price, cmd[u].max), "flush")

RemoveLot(u) ==
  /\ Runs(u, "removeLot")
  /\ Statement(u, deleteLot(shm, cmd[u].lot), "flush")

\* main gives up when the maximum is below the price.
UpdateLotPrice(u) ==
  /\ Runs(u, "updateLotPrice")
  /\ ~(cmd[u].max > 0 /\ cmd[u].max < cmd[u].price)
  /\ Statement(u, updateLotPrice(shm, cmd[u].lot, cmd[u].price, cmd[u].max),
               "flush")

SetLotType(u) ==
  /\ Runs(u, "setLotType")
  /\ Statement(u, setLotType(shm, cmd[u].lot, cmd[u].hourly), "flush")

\* The command that gives up before or at its statement: no flush of its own.
ToolGivesUp(u) ==
  /\ tpc[u] \in {"op", "city"}
  /\ \/ cmd[u].op = "none"
     \/ cmd[u].op = "addCity" /\ HasLiveCity(shm, cmd[u].name)
     \/ cmd[u].op = "updateLotPrice" /\ cmd[u].max > 0
                                     /\ cmd[u].max < cmd[u].price
     \/ ~shm.schema
     \/ ToolMayFail(u)
  /\ ToolGoto(u, "close")
  /\ UNCHANGED <<server, diskOk, files, locals, cmd, tDiskOk, journal>>

ToolFlush(u) ==
  /\ tpc[u] = "flush"
  /\ disk' \in Flushed(tDiskOk[u], ToolMayFail(u))
  /\ ToolGoto(u, "close")
  /\ UNCHANGED <<server, diskOk, shm, locals, cmd, tDiskOk, journal>>

ToolEnds(u) ==
  /\ ToolGoto(u, "idle")
  /\ cmd' = [cmd EXCEPT ![u] = NoCmd]
  /\ tDiskOk' = [tDiskOk EXCEPT ![u] = FALSE]

\* ~Database flushes once more.
ToolClose(u) ==
  /\ tpc[u] = "close"
  /\ disk' \in Flushed(tDiskOk[u], ToolMayFail(u))
  /\ ToolEnds(u)
  /\ UNCHANGED <<server, diskOk, shm, locals, journal>>

\* The tool is interrupted, at its prompt for instance.
ToolKilled(u) ==
  /\ tpc[u] # "idle"
  /\ ToolEnds(u)
  /\ UNCHANGED <<server, diskOk, files, locals, journal>>

ToolStep(u) ==
  \/ AddCity(u)
  \/ RemoveCityLots(u) \/ RemoveCity(u)
  \/ AddLot(u)
  \/ RemoveLot(u)
  \/ UpdateLotPrice(u)
  \/ SetLotType(u)
  \/ ToolGivesUp(u)
  \/ ToolFlush(u)
  \/ ToolClose(u)

-----------------------------------------------------------------------------
Next ==
  \/ Boot \/ Crash \/ Reboot
  \/ \E t \in Threads : Receive(t) \/ ThreadStep(t)
  \/ \E u \in Tools : Launch(u) \/ ToolStep(u) \/ ToolKilled(u)

Spec == Init /\ [][Next]_vars

\* A thread that is handling a request is scheduled.  Nothing makes clients
\* send, or an operator start, stop or answer a process.
FairSpec == Spec /\ \A t \in Threads : WF_vars(ThreadStep(t))

-----------------------------------------------------------------------------
(* What the database promises: SessionStore.  Its log is the runtime one    *)
(* while the server is up, and what will be restored while it is down.     *)

Store == INSTANCE SessionStore
           WITH FirstLog <- FirstDisk.log,
                live  <- IF server = "up" THEN shm.log ELSE disk.log,
                saved <- disk.log,
                acked <- journal

\* Every behaviour of server, tools and files is one of the session store:
\* sessions open, close once, are saved, and only then acknowledged.
StoreSpec == Store!Spec

-----------------------------------------------------------------------------
(* Safety                                                                  *)

\* Log a has every session of log b, at the same point of its life or later.
LaterLog(a, b) ==
  \A i \in DOMAIN b :
    /\ i \in DOMAIN a
    /\ a[i].cust = b[i].cust /\ a[i].lot = b[i].lot /\ a[i].start = b[i].start
    /\ a[i].open => b[i].open

\* What parksys.log says was recorded, the backup file holds: flushToDisk is
\* called before the line is written, so that neither a crash of the server
\* nor a reboot takes back an acknowledged START or STOP.
Durable ==
  \A a \in journal :
    /\ a.id \in DOMAIN disk.log
    /\ disk.log[a.id].cust = a.cust
    /\ a.type = "START" => disk.log[a.id].start = a.time
    /\ a.type = "STOP" => ~disk.log[a.id].open

\* While the server runs, the backup never holds a session the runtime
\* database lacks, nor a later state of one: what the next flush overwrites
\* is always older.
DiskBehindRuntime == server = "up" => LaterLog(shm.log, disk.log)

\* A thread is in startParking only for a START, in endParking for a STOP.
StepFitsRequest ==
  \A t \in Threads :
    /\ pc[t] = "insert" => req[t].type = "START"
    /\ pc[t] \in {"select", "price", "update"} => req[t].type = "STOP"
    /\ pc[t] = "flush" => req[t].type \in {"START", "STOP"}

\* One program writes at a time, and what it knows of the disk is right.
OneWriter ==
  /\ server = "down" => \A t \in Threads : pc[t] = "idle"
  /\ server = "up" => diskOk /\ \A u \in Tools : tpc[u] = "idle"
  /\ \A u \in Tools :
       tpc[u] # "idle" =>
         server = "down" /\ ~ToolsBusy(u) /\ tDiskOk[u] /\ shm.log = disk.log

\* A thread's locals name a session of its own customer, which when the
\* thread comes to the flush is what it is about to acknowledge.
OwnSession ==
  \A t \in Threads :
    /\ pc[t] \in {"price", "update", "flush"} =>
         /\ row[t].id \in DOMAIN shm.log
         /\ shm.log[row[t].id].cust = req[t].cust
    /\ pc[t] = "flush" =>
         IF req[t].type = "START" THEN shm.log[row[t].id].start = req[t].time
                                  ELSE ~shm.log[row[t].id].open

\* Why Durable holds when tools run only while the server is down.
Coherent ==
  StepFitsRequest /\ OneWriter /\ OwnSession /\ DiskBehindRuntime /\ Durable

\* Each closed session on disk is billed by the tariff of its lot for the
\* time between its own START and STOP (for runs without a price update).
BilledByTariff ==
  \A i \in DOMAIN disk.log :
    ~disk.log[i].open =>
      disk.log[i].total =
        calculatePrice(FirstDisk, disk.log[i].end - disk.log[i].start,
                       disk.log[i].lot)

\* endParking is a SELECT, a price and an UPDATE, and two STOPs of one
\* customer may both select a session before either updates it.  It is then
\* closed twice, but never ends up with the price of one STOP and the time of
\* the other: a closed session costs what the tariff says of its own start
\* and end or, if a statement failed on the way, nothing.
BilledOrFree ==
  \A db \in {shm, disk} : \A i \in DOMAIN db.log :
    ~db.log[i].open =>
      db.log[i].total \in
        {0, calculatePrice(FirstDisk, db.log[i].end - db.log[i].start,
                           db.log[i].lot)}

\* While the server runs, no session vanishes, none that is closed is open
\* again, and all keep their customer, lot and start, also of two threads
\* that serve one customer and with statements that fail.  (That a closed
\* one keeps its end as well is part of StoreSpec, and takes threads that
\* serve a customer each.)
LogAdvances ==
  [][ server = "up" /\ server' = "up" => LaterLog(shm'.log, shm.log) ]_vars

\* removeCity deletes the lots and then the city; the backup never shows the
\* city gone and one of its lots still there to park in.
CityRemovalIsWhole ==
  [][ \A c \in LiveCities(disk) \ LiveCities(disk') :
        \A l \in LiveLots(disk') : disk'.lots[l].city # c ]_vars

\* While the server runs, a session is closed, or closed once more, by
\* endParking for the customer whose session it is, never for another: the
\* UPDATE goes by an id that was read before other threads wrote.
EndsOwnSession ==
  [][ server = "up" /\ server' = "up" =>
        \A i \in DOMAIN shm.log :
          (i \in DOMAIN shm'.log /\ shm'.log[i] # shm.log[i]) =>
            \E t \in Threads :
              /\ pc[t] = "update" /\ req[t].cust = shm.log[i].cust
              /\ shm'.log[i].end = req[t].time ]_vars

(* Liveness                                                                *)

\* A session the runtime database holds, open or closed, reaches the backup
\* unless the server goes down first.
EventuallySaved ==
  \A i \in 1..MaxLog, o \in BOOLEAN :
    (server = "up" /\ i \in DOMAIN shm.log /\ shm.log[i].open = o)
      ~> ( \/ i \in DOMAIN disk.log /\ (o \/ ~disk.log[i].open)
           \/ server = "down" )
=============================================================================
