--------------------------- MODULE ParkSystem_proof ---------------------------
(***************************************************************************)
(* Theorems about the whole system.  Each of its steps is one of the       *)
(* database and one of the link, or leaves that part alone: so both parts' *)
(* theorems hold in it.  With the two invariants side by side, sessions    *)
(* can be followed back to the events of the board.                        *)
(***************************************************************************)
EXTENDS ParkSystem, ParksysDB_proof

\* The link's module with its theorems, over the system's variables.
Way == INSTANCE VehicleLink_proof WITH server <- (server = "up")

-----------------------------------------------------------------------------
(* The two parts                                                           *)

LEMMA LinkAssumption == Way!VehicleLinkAssumption /\ Way!GpsMsgAssumption
  BY ParkSystemAssumption, GpsMsgAssumption
  DEF Way!VehicleLinkAssumption, Way!GpsMsgAssumption, Way!GpsMessage, GpsMessage

LEMMA Connections == /\ Threads = 1 .. MaxConns /\ Way!Conns = Threads
                     /\ MaxConns \in Nat \ {0} /\ 1 \in Threads
  BY ParkSystemAssumption DEF Way!Conns

LEMMA DatabaseStep == [SysNext]_sysvars => [Next]_vars
<1> SUFFICES ASSUME [SysNext]_sysvars PROVE [Next]_vars
  OBVIOUS
<1>1. CASE UNCHANGED sysvars
  BY <1>1 DEF sysvars
<1>2. CASE OnTheWay
  BY <1>2 DEF OnTheWay
<1>3. ASSUME NEW t \in Threads, Receives(t) \/ Serves(t) PROVE Next
  BY <1>3 DEF Receives, Serves, Next
<1>4. CASE ServerStarts \/ ServerCrashes \/ MachineReboots
  BY <1>4 DEF ServerStarts, ServerCrashes, MachineReboots, Next
<1> QED
  BY <1>1, <1>2, <1>3, <1>4 DEF SysNext

(* The system's link is the link of the proofs.                            *)
LEMMA SameLink ==
  /\ Link!Init => Way!Init
  /\ (Link!Offer => Way!Offer) /\ (Link!Expire => Way!Expire)
  /\ (Link!I2CRead => Way!I2CRead) /\ (Link!I2CWrite => Way!I2CWrite)
  /\ (Link!EthRead => Way!EthRead) /\ (Link!Connect => Way!Connect)
  /\ (Link!Write => Way!Write) /\ (Link!WriteFails => Way!WriteFails)
  /\ (Link!DaemonRestart => Way!DaemonRestart) /\ (Link!Start => Way!Start)
  /\ (Link!Crash => Way!Crash)
  /\ \A c \in Threads :
       /\ (Link!Recv(c) => Way!Recv(c)) /\ (Link!Handle(c) => Way!Handle(c))
       /\ (Link!EndThread(c) => Way!EndThread(c)) /\ (Link!Break(c) => Way!Break(c))
<1> USE DEF Link!daemon, Link!net, Link!served, Link!Conns,
            Way!daemon, Way!net, Way!served, Way!Conns
<1>1. Link!Init => Way!Init
  BY DEF Link!Init, Way!Init
<1>2. Link!I2CRead => Way!I2CRead
  <2>1. /\ Link!LAT_MIN = Way!LAT_MIN /\ Link!LAT_MAX = Way!LAT_MAX
        /\ Link!LON_MIN = Way!LON_MIN /\ Link!LON_MAX = Way!LON_MAX
    BY DEF Link!LAT_MIN, Link!LAT_MAX, Link!LON_MIN, Link!LON_MAX, Link!Double,
           Link!TenthDegree, Way!LAT_MIN, Way!LAT_MAX, Way!LON_MIN, Way!LON_MAX,
           Way!Double, Way!TenthDegree
  <2>2. /\ Link!MSGT_START = Way!MSGT_START /\ Link!MSGT_STOP = Way!MSGT_STOP
        /\ Link!MAX_MSGT = Way!MAX_MSGT /\ Link!MIN_LICENSE = Way!MIN_LICENSE
        /\ Link!MIN_UTC = Way!MIN_UTC
    BY DEF Link!MSGT_START, Link!MSGT_STOP, Link!MAX_MSGT, Link!MIN_LICENSE,
           Link!MIN_UTC, Way!MSGT_START, Way!MSGT_STOP, Way!MAX_MSGT,
           Way!MIN_LICENSE, Way!MIN_UTC
  <2>3. ASSUME NEW m, NEW now PROVE Link!memcpy_validate(m, now) <=> Way!memcpy_validate(m, now)
    BY <2>1, <2>2 DEF Link!memcpy_validate, Link!OutOfArea, Link!LessThan, Link!GreaterThan,
       Way!memcpy_validate, Way!OutOfArea, Way!LessThan, Way!GreaterThan
  <2>4. ASSUME NEW m, NEW now PROVE Link!Forwarded(m, now) <=> Way!Forwarded(m, now)
    BY <2>2, <2>3 DEF Link!Forwarded, Way!Forwarded
  <2> QED BY <2>4 DEF Link!I2CRead, Way!I2CRead
<1>3. (Link!Offer => Way!Offer) /\ (Link!Expire => Way!Expire) /\ (Link!I2CWrite => Way!I2CWrite)
  BY DEF Link!Offer, Way!Offer, Link!Expire, Way!Expire, Link!I2CWrite, Way!I2CWrite
<1>4. (Link!EthRead => Way!EthRead) /\ (Link!Connect => Way!Connect) /\ (Link!Write => Way!Write)
  BY DEF Link!EthRead, Way!EthRead, Link!Connect, Way!Connect, Link!Write, Way!Write
<1>5. (Link!WriteFails => Way!WriteFails) /\ (Link!DaemonRestart => Way!DaemonRestart)
  BY DEF Link!WriteFails, Way!WriteFails, Link!DaemonRestart, Way!DaemonRestart
<1>6. (Link!Start => Way!Start) /\ (Link!Crash => Way!Crash)
  BY DEF Link!Start, Way!Start, Link!Crash, Way!Crash
<1>7. ASSUME NEW c \in Threads
      PROVE  /\ (Link!Recv(c) => Way!Recv(c)) /\ (Link!Handle(c) => Way!Handle(c))
             /\ (Link!EndThread(c) => Way!EndThread(c)) /\ (Link!Break(c) => Way!Break(c))
  BY DEF Link!Recv, Way!Recv, Link!Handle, Way!Handle,
         Link!EndThread, Way!EndThread, Link!Break, Way!Break
<1> QED
  BY <1>1, <1>2, <1>3, <1>4, <1>5, <1>6, <1>7

(* A step of a handler thread inside handle_request is none of the server's. *)
LEMMA ThreadKeepsServer ==
  ASSUME NEW t \in Threads, ThreadStep(t)
  PROVE  server' = server
  BY DEF ThreadStep, FindLot, FindNoLot, Insert, InsertFails, Select,
         SelectFails, Price, Update, UpdateFails, FlushAndAck, Fail

LEMMA LinkStep == [SysNext]_sysvars => [Way!Next]_(Way!vars)
<1> SUFFICES ASSUME [SysNext]_sysvars PROVE [Way!Next]_(Way!vars)
  OBVIOUS
<1>0. ASSUME UNCHANGED linkvars, server' = server PROVE UNCHANGED Way!vars
  BY <1>0 DEF linkvars, Way!vars
<1>1. CASE UNCHANGED sysvars
  BY <1>0, <1>1 DEF sysvars, vars
<1>2. CASE OnTheWay
  BY <1>2, SameLink, Connections DEF OnTheWay, Way!Next
<1>3. ASSUME NEW t \in Threads, Receives(t) PROVE Way!Next
  BY <1>3, SameLink, Connections DEF Receives, Way!Next
<1>4. ASSUME NEW t \in Threads, Serves(t) PROVE [Way!Next]_(Way!vars)
  <2>1. CASE Link!Handle(t)
    BY <2>1, SameLink, Connections DEF Way!Next
  <2>2. CASE UNCHANGED linkvars
    BY <1>0, <1>4, <2>2, ThreadKeepsServer DEF Serves
  <2> QED BY <1>4, <2>1, <2>2 DEF Serves
<1>5. CASE ServerStarts
  <2>1. server = "down" /\ server' \in {"up", "down"}
    BY <1>5 DEF ServerStarts, Boot
  <2>2. CASE server' = "up"
    BY <1>5, <2>2, SameLink DEF ServerStarts, Way!Next
  <2>3. CASE server' = "down"
    BY <1>0, <1>5, <2>1, <2>3 DEF ServerStarts
  <2> QED BY <2>1, <2>2, <2>3
<1>6. CASE ServerCrashes
  BY <1>6, SameLink DEF ServerCrashes, Way!Next
<1>7. CASE MachineReboots
  <2>1. CASE server = "up"
    BY <1>7, <2>1, SameLink DEF MachineReboots, Way!Next
  <2>2. CASE server # "up"
    <3>1. UNCHANGED linkvars /\ server' # "up"
      BY <1>7, <2>2 DEF MachineReboots, Reboot, ThreadsDie
    <3> QED BY <2>2, <3>1 DEF linkvars, Way!vars
  <2> QED BY <2>1, <2>2
<1> QED
  BY <1>1, <1>2, <1>3, <1>4, <1>5, <1>6, <1>7 DEF SysNext

(* The database does not notice the vehicle and the network.               *)
THEOREM SystemHasDatabase == SysSpec => Spec
<1>1. SysInit => Init
  BY DEF SysInit
<1> QED
  BY <1>1, DatabaseStep, PTL DEF SysSpec, Spec

(* The link does not notice what handle_request does.                      *)
THEOREM SystemHasLink == SysSpec => Way!Spec
<1>1. SysInit => Way!Init
  <2>1. SysInit => Link!Init
    BY DEF SysInit
  <2> QED BY <2>1, SameLink
<1> QED
  BY <1>1, LinkStep, PTL DEF SysSpec, Way!Spec

(* So what the link promises holds of the whole system, whatever the       *)
(* database does with a request and however long it takes: no event is     *)
(* handled twice, out of order on one connection, without the ones written *)
(* before it there, or unchecked - where a coordinate that is no number     *)
(* passes the check, as it does in the code.                               *)
THEOREM SystemKeepsLinkPromises ==
  SysSpec => [](/\ Way!AtMostOnce /\ Way!OvertakesOnNewConnection
                /\ Way!ArrivesInFull /\ Way!OnlyValidHandled)
<1>1. Way!Spec => []Way!AtMostOnce
  BY Way!HandledAtMostOnce, LinkAssumption
<1>2. Way!Spec => []Way!OvertakesOnNewConnection
  BY Way!OrderedPerConnection, LinkAssumption
<1>3. Way!Spec => []Way!ArrivesInFull
  BY Way!ConnectionsArriveInFull, LinkAssumption
<1>4. Way!Spec => []Way!OnlyValidHandled
  BY Way!HandlesValidOnly, LinkAssumption
<1> QED
  BY <1>1, <1>2, <1>3, <1>4, SystemHasLink, PTL

-----------------------------------------------------------------------------
(* Threads and connections                                                 *)

\* The thread of a connection is inside handle_request while there is an
\* event it took from the connection, and the request is that event.
Attuned ==
  /\ server = "down" => \A t \in Threads : pc[t] = "idle"
  /\ \A u \in Tools : tpc[u] = "idle"
  /\ \A t \in Threads : /\ thread[t] = 0 <=> pc[t] = "idle"
                        /\ pc[t] # "idle" => req[t] = RequestOf(thread[t])

Base == TypeOK /\ StepFitsRequest /\ Way!LinkInv /\ Attuned

(* The link's variables, over the threads.                                 *)
LEMMA LinkTypes ==
  ASSUME Way!LinkInv
  PROVE  /\ Way!TypeOK /\ Way!Upstream /\ Way!Sockets
         /\ Way!WireFits /\ Way!HandledFits
         /\ conns \in Nat
         /\ thread \in [Threads -> Way!EventIds \cup {0}]
         /\ wire \in [Threads -> Seq(Way!EventIds)]
         /\ alive \in [Threads -> BOOLEAN]
         /\ handled \in Seq(Threads \X Way!EventIds)
<1>1. /\ Way!TypeOK /\ Way!Upstream /\ Way!Sockets
      /\ Way!WireFits /\ Way!HandledFits
  BY DEF Way!LinkInv, Way!Downstream
<1>2. conns \in Nat
  BY <1>1, Way!Numbers, LinkAssumption
<1> QED
  BY <1>1, <1>2, Connections DEF Way!TypeOK

(* What a step is to one thread and its connection.                        *)
LEMMA ThreadSteps ==
  ASSUME TypeOK, Way!LinkInv, [SysNext]_sysvars
  PROVE  \/ UNCHANGED <<pc, req, thread>> /\ server' = server
         \/ UNCHANGED <<pc, req, thread>> /\ Boot
         \/ \E t \in Threads :
              /\ Receives(t) /\ server = "up" /\ server' = "up"
              /\ thread' = [thread EXCEPT ![t] = Head(wire[t])] /\ thread'[t] # 0
         \/ \E t \in Threads : Serves(t)
         \/ /\ \A t \in Threads : pc'[t] = "idle"
            /\ (\A t \in Threads : thread'[t] = 0) \/ (thread' = thread /\ server = "down")
<1> USE SameLink, Connections
<1>1. CASE UNCHANGED sysvars
  BY <1>1 DEF sysvars, vars, linkvars, locals
<1>2. CASE OnTheWay
  <2>1. UNCHANGED <<pc, req>> /\ server' = server
    BY <1>2 DEF OnTheWay, vars, locals
  <2>2. thread' = thread
    BY <1>2 DEF OnTheWay, Way!Offer, Way!Expire, Way!I2CRead, Way!I2CWrite,
       Way!EthRead, Way!Connect, Way!Write, Way!WriteFails, Way!DaemonRestart,
       Way!EndThread, Way!Break, Way!served
  <2> QED BY <2>1, <2>2
<1>3. ASSUME NEW t \in Threads, Receives(t)
      PROVE  /\ server = "up" /\ server' = "up"
             /\ thread' = [thread EXCEPT ![t] = Head(wire[t])] /\ thread'[t] # 0
  <2>1. Way!Recv(t) /\ server = "up" /\ server' = "up"
    BY <1>3 DEF Receives, Receive
  <2>2. thread'[t] # 0
    BY <2>1, LinkTypes, LinkAssumption, Way!RecvTakes
  <2> QED BY <2>1, <2>2 DEF Way!Recv
<1>4. CASE ServerStarts
  <2>1. UNCHANGED <<pc, req>> /\ Boot
    BY <1>4 DEF ServerStarts, Boot, locals
  <2>2. thread' = thread
    BY <1>4 DEF ServerStarts, linkvars, Way!Start
  <2> QED BY <2>1, <2>2
<1>5. CASE ServerCrashes
  BY <1>5 DEF ServerCrashes, Crash, ThreadsDie, Way!Crash
<1>6. CASE MachineReboots
  <2>1. CASE server = "up"
    BY <1>6, <2>1 DEF MachineReboots, Reboot, ThreadsDie, Way!Crash
  <2>2. CASE server # "up"
    <3>1. /\ \A t \in Threads : pc'[t] = "idle"
          /\ thread' = thread
      BY <1>6, <2>2 DEF MachineReboots, Reboot, ThreadsDie, linkvars
    <3>2. server = "down"
      BY <2>2 DEF TypeOK
    <3> QED BY <3>1, <3>2
  <2> QED BY <2>1, <2>2
<1> QED
  BY <1>1, <1>2, <1>3, <1>4, <1>5, <1>6 DEF SysNext

(* A step of handle_request: back in recv_request when it is its last one. *)
LEMMA ServesStep ==
  ASSUME TypeOK, Way!LinkInv, NEW t \in Threads, Serves(t)
  PROVE  /\ pc[t] # "idle" /\ server' = server
         /\ \A u \in Threads : u # t => pc'[u] = pc[u] /\ req'[u] = req[u]
         /\ pc'[t] = "idle" => Way!Handle(t) /\ thread' = [thread EXCEPT ![t] = 0]
         /\ pc'[t] # "idle" => UNCHANGED linkvars /\ req' = req
<1>1. ThreadStep(t)
  BY DEF Serves
<1>2. /\ pc[t] # "idle"
      /\ \A u \in Threads : u # t => pc'[u] = pc[u] /\ req'[u] = req[u]
      /\ pc'[t] # "idle" => req' = req
  <2>1. CASE FindLot(t) \/ Insert(t) \/ Select(t) \/ Price(t) \/ Update(t)
    BY <2>1 DEF FindLot, Insert, Select, Price, Update, Goto, TypeOK
  <2>2. CASE FindNoLot(t) \/ InsertFails(t) \/ SelectFails(t) \/ UpdateFails(t) \/ FlushAndAck(t)
    BY <2>2 DEF FindNoLot, InsertFails, SelectFails, UpdateFails, FlushAndAck,
                Fail, Finish, Goto, TypeOK
  <2> QED BY <1>1, <2>1, <2>2 DEF ThreadStep
<1>3. pc'[t] = "idle" => Way!Handle(t) /\ thread' = [thread EXCEPT ![t] = 0]
  <2>1. pc'[t] = "idle" => Way!Handle(t)
    BY SameLink DEF Serves
  <2> QED BY <2>1 DEF Way!Handle
<1>4. pc'[t] # "idle" => UNCHANGED linkvars
  BY DEF Serves
<1> QED
  BY <1>1, <1>2, <1>3, <1>4, ThreadKeepsServer

LEMMA AttunedStep ==
  ASSUME TypeOK, Way!LinkInv, Attuned, [SysNext]_sysvars
  PROVE  Attuned'
<1> USE DEF Attuned
<1>0. \A u \in Tools : tpc'[u] = "idle"
  <2>1. \/ UNCHANGED tpc
        \/ \A u \in Tools : tpc'[u] = "idle"
    BY DEF SysNext, sysvars, vars, tvars, OnTheWay, Receives, Receive, Serves, ThreadStep,
       FindLot, FindNoLot, Insert, InsertFails, Select, SelectFails, Price, Update,
       UpdateFails, FlushAndAck, Fail, ServerStarts, Boot, ServerCrashes, Crash,
       MachineReboots, Reboot
  <2> QED BY <2>1
<1>1. CASE UNCHANGED <<pc, req, thread>> /\ (server' = server \/ Boot)
  <2>1. server' = "down" => server = "down"
    BY <1>1 DEF Boot
  <2> QED BY <1>0, <1>1, <2>1
<1>2. ASSUME NEW t \in Threads, Receives(t), server' = "up",
             thread' = [thread EXCEPT ![t] = Head(wire[t])], thread'[t] # 0
      PROVE  Attuned'
  <2>1. /\ \A u \in Threads : u # t => pc'[u] = pc[u] /\ req'[u] = req[u] /\ thread'[u] = thread[u]
        /\ pc'[t] # "idle"
    BY <1>2, LinkTypes DEF Receives, Receive, Goto, TypeOK
  <2>2. req'[t] = RequestOf(thread'[t])
    BY <1>2, LinkTypes DEF Receives
  <2>3. ASSUME NEW u \in Threads
        PROVE  /\ thread'[u] = 0 <=> pc'[u] = "idle"
               /\ pc'[u] # "idle" => req'[u] = RequestOf(thread'[u])
    <3>1. CASE u = t
      BY <1>2, <2>1, <2>2, <3>1
    <3>2. CASE u # t
      BY <2>1, <3>2 DEF RequestOf
    <3> QED BY <3>1, <3>2
  <2>4. \A u \in Threads : (RequestOf(thread[u]))' = RequestOf(thread'[u])
    BY DEF RequestOf
  <2> QED BY <1>0, <1>2, <2>3, <2>4
<1>3. ASSUME NEW t \in Threads, Serves(t) PROVE Attuned'
  <2>0. /\ pc[t] # "idle" /\ server' = server /\ server = "up"
    BY <1>3, ServesStep DEF TypeOK
  <2>1. ASSUME NEW u \in Threads
        PROVE  /\ thread'[u] = 0 <=> pc'[u] = "idle"
               /\ pc'[u] # "idle" => req'[u] = RequestOf(thread'[u])
    <3>1. CASE u = t /\ pc'[t] = "idle"
      BY <1>3, <3>1, ServesStep, LinkTypes
    <3>2. CASE u = t /\ pc'[t] # "idle"
      <4>1. thread' = thread /\ req' = req
        BY <1>3, <3>2, ServesStep DEF linkvars
      <4> QED BY <2>0, <3>2, <4>1
    <3>3. CASE u # t
      <4>1. pc'[u] = pc[u] /\ req'[u] = req[u] /\ thread'[u] = thread[u]
        BY <1>3, <3>3, ServesStep, LinkTypes DEF linkvars
      <4> QED BY <4>1
    <3> QED BY <3>1, <3>2, <3>3
  <2> QED BY <1>0, <2>0, <2>1
<1>4. CASE /\ \A t \in Threads : pc'[t] = "idle"
           /\ (\A t \in Threads : thread'[t] = 0) \/ (thread' = thread /\ server = "down")
  BY <1>0, <1>4
<1> QED
  BY <1>1, <1>2, <1>3, <1>4, ThreadSteps

(* What holds of the database and of the link at the same time.            *)
LEMMA SystemBase == SysSpec => []Base
<1>1. SysInit => Base
  <2>1. SysInit => TypeOK /\ StepFitsRequest
    BY InitTypeOK DEF SysInit
  <2>2. SysInit => Way!Init
    BY SameLink DEF SysInit
  <2>3. SysInit => Way!LinkInv
    BY <2>2, Way!LinkInit, LinkAssumption
  <2>4. SysInit => Attuned
    BY <2>2, Connections DEF SysInit, Init, Way!Init, Attuned
  <2> QED BY <2>1, <2>3, <2>4 DEF Base
<1>2. Base /\ TypeOK' /\ [SysNext]_sysvars => Base'
  <2> SUFFICES ASSUME Base, TypeOK', [SysNext]_sysvars PROVE Base'
    OBVIOUS
  <2>1. StepFitsRequest'
    BY StepFits, DatabaseStep DEF Base
  <2>2. Way!LinkInv'
    BY Way!LinkStep, LinkStep, LinkAssumption DEF Base
  <2>3. Attuned'
    BY AttunedStep DEF Base
  <2> QED BY <2>1, <2>2, <2>3 DEF Base
<1>3. SysSpec => []TypeOK
  BY SystemHasDatabase, TypeCorrect, PTL
<1> QED
  BY <1>1, <1>2, <1>3, PTL DEF SysSpec

-----------------------------------------------------------------------------
(* Every session is that of one START and one STOP.  An event is spent     *)
(* when its statement has been executed: no copy of it is left that could  *)
(* reach startParking or endParking again.  This needs no luck with the    *)
(* disk, and stands any crash.                                             *)

\* A vehicle begins one parking in a second at most, and ends one at most.
DistinctTimes ==
  \A m, n \in DOMAIN Events :
    /\ RequestOf(m).type = RequestOf(n).type /\ RequestOf(m).type \in {"START", "STOP"}
    /\ Events[m].utc_sec = Events[n].utc_sec
    => m = n

Spent(n) ==
  /\ n \in Way!WrittenEvents
  /\ \A t \in Threads : /\ n \notin Way!Members(wire[t])
                        /\ thread[t] = n => pc[t] = "flush"

\* The times of the spent events of a type.
SpentTimes(type) ==
  {Events[n].utc_sec : n \in {k \in DOMAIN Events : RequestOf(k).type = type /\ Spent(k)}}

\* The sessions of a log begin at different ones of these times and, if at
\* all, end at different ones of those.
Tells(log, starts, ends) ==
  \A i \in DOMAIN log :
    /\ log[i].start \in starts
    /\ ~log[i].open => log[i].end \in ends
    /\ \A j \in DOMAIN log \ {i} :
         /\ log[i].start # log[j].start
         /\ ~log[i].open /\ ~log[j].open => log[i].end # log[j].end

LogsTell ==
  \A db \in {shm, disk} : Tells(db.log, SpentTimes("START"), SpentTimes("STOP"))

LEMMA TellsMore ==
  ASSUME NEW log, NEW A, NEW B, NEW C, NEW D, Tells(log, A, B), A \subseteq C, B \subseteq D
  PROVE  Tells(log, C, D)
  BY DEF Tells

LEMMA TellsOpened ==
  ASSUME NEW log \in Seq(Session), NEW s \in Session, s.open,
         NEW A, NEW B, Tells(log, A, B), s.start \notin A
  PROVE  Tells(Append(log, s), A \cup {s.start}, B)
<1> DEFINE new == Append(log, s)
<1>1. /\ DOMAIN new = DOMAIN log \cup {Len(log) + 1} /\ Len(log) + 1 \notin DOMAIN log
      /\ new[Len(log) + 1] = s
      /\ \A i \in DOMAIN log : new[i] = log[i]
  OBVIOUS
<1> HIDE DEF new
<1>2. ASSUME NEW i \in DOMAIN log
      PROVE  new[i] = log[i] /\ log[i].start # s.start
  BY <1>1 DEF Tells
<1> QED
  BY <1>1, <1>2 DEF Tells, new

LEMMA TellsClosed ==
  ASSUME NEW db \in Image, NEW id, NEW end \in Nat, NEW total \in Int,
         NEW A, NEW B, Tells(db.log, A, B), end \notin B
  PROVE  Tells(updateLog(db, id, end, total).log, A, B \cup {end})
<1> DEFINE log == db.log
           new == updateLog(db, id, end, total).log
<1>1. /\ log \in Seq(Session) /\ DOMAIN new = DOMAIN log
      /\ \A i \in DOMAIN log :
           new[i] = IF i = id THEN ClosedSession(log[i], end, total) ELSE log[i]
  BY ImageParts, UpdateLogType
<1>2. Tells(log, A, B)
  OBVIOUS
<1> HIDE DEF log, new
<1>3. ASSUME NEW i \in DOMAIN log
      PROVE  /\ new[i].start = log[i].start
             /\ i = id => ~new[i].open /\ new[i].end = end
             /\ i # id => new[i] = log[i] /\ (~log[i].open => log[i].end # end)
  BY <1>1, <1>2, ClosedParts, RowType DEF Tells
<1>4. Tells(new, A, B \cup {end})
  BY <1>1, <1>2, <1>3 DEF Tells
<1> QED
  BY <1>4 DEF new

(* No step puts a written event on a connection again, or takes one away   *)
(* from the record of what was written.                                    *)
LEMMA WrittenStays ==
  ASSUME Way!LinkInv, [SysNext]_sysvars, NEW n \in Way!WrittenEvents
  PROVE  /\ n \in Way!WrittenEvents'
         /\ \A t \in Threads :
              n \notin Way!Members(wire[t]) => n \notin Way!Members(wire'[t])
<1> USE LinkTypes, LinkAssumption, Connections
<1>1. CASE Way!Write
  <2>1. /\ wire' = [wire EXCEPT ![sockfd] = wire'[sockfd]]
        /\ Way!Members(wire'[sockfd]) \subseteq Way!Members(wire[sockfd]) \cup {eth}
        /\ Way!WrittenEvents' = Way!WrittenEvents \cup {eth}
    BY <1>1, Way!WriteGrows, Way!PipeSteps
  <2>2. n # eth
    <3>1. eth # 0 /\ eth \in Nat
      BY <1>1, Way!Numbers DEF Way!Write
    <3> QED BY <3>1 DEF Way!Upstream, Way!Below
  <2>3. \A t \in Threads : t # sockfd => wire'[t] = wire[t]
    BY <2>1
  <2> QED BY <2>1, <2>2, <2>3
<1>2. CASE ~Way!Write
  <2>1. written' = written
    BY <1>2, LinkStep DEF Way!Next, Way!vars, Way!Offer, Way!Expire, Way!I2CRead, Way!I2CWrite,
       Way!EthRead, Way!Connect, Way!WriteFails, Way!DaemonRestart, Way!Recv,
       Way!Handle, Way!EndThread, Way!Break, Way!Start, Way!Crash, Way!daemon
  <2>2. Way!WrittenEvents' = Way!WrittenEvents
    BY <2>1 DEF Way!WrittenEvents
  <2>3. ASSUME NEW c \in Threads, Way!Recv(c), NEW t \in Threads
        PROVE  Way!Members(wire'[t]) \subseteq Way!Members(wire[t])
    BY <2>3, Way!RecvTakes
  <2>4. ASSUME NEW c \in Threads, Way!Break(c), NEW t \in Threads
        PROVE  Way!Members(wire'[t]) \subseteq Way!Members(wire[t])
    BY <2>4, Way!BreakKeepsFirst
  <2>5. ASSUME (\E c \in Threads : Way!EndThread(c)) \/ Way!Crash, NEW t \in Threads
        PROVE  Way!Members(wire'[t]) \subseteq Way!Members(wire[t])
    <3>1. wire'[t] \in {wire[t], <<>>}
      BY <2>5, Way!EndEmpties
    <3> QED BY <3>1, Way!EmptyIncreases
  <2>6. \/ \E c \in Threads : Way!Recv(c) \/ Way!Break(c)
        \/ (\E c \in Threads : Way!EndThread(c)) \/ Way!Crash
        \/ wire' = wire
    BY <1>2, LinkStep DEF Way!Next, Way!vars, Way!Offer, Way!Expire, Way!I2CRead, Way!I2CWrite,
       Way!EthRead, Way!Connect, Way!WriteFails, Way!DaemonRestart,
       Way!Handle, Way!Start, Way!net
  <2> QED BY <2>2, <2>3, <2>4, <2>5, <2>6
<1> QED
  BY <1>1, <1>2

LEMMA SpentStays ==
  ASSUME Base, [SysNext]_sysvars, NEW n, Spent(n)
  PROVE  Spent(n)'
<1> USE DEF Base
<1>1. /\ n \in Way!WrittenEvents'
      /\ \A t \in Threads : n \notin Way!Members(wire'[t])
  BY WrittenStays DEF Spent
<1>2. n # 0
  BY LinkTypes, LinkAssumption, Way!Numbers DEF Spent
<1>3. ASSUME NEW t \in Threads, thread'[t] = n PROVE pc'[t] = "flush"
  <2>1. CASE UNCHANGED <<pc, req, thread>>
    BY <1>3, <2>1 DEF Spent
  <2>2. ASSUME NEW u \in Threads, Receives(u) PROVE pc'[t] = "flush"
    <3>1. CASE u = t
      <4>1. n \in Way!Members(wire[t])
        BY <1>3, <2>2, <3>1, LinkTypes, LinkAssumption, Connections, SameLink, Way!RecvTakes DEF Receives
      <4> QED BY <4>1 DEF Spent
    <3>2. CASE u # t
      <4>1. thread'[t] = thread[t]
        BY <2>2, <3>2, LinkTypes, LinkAssumption, Connections, SameLink, Way!RecvTakes DEF Receives
      <4>2. pc'[t] = pc[t]
        BY <2>2, <3>2 DEF Receives, Receive, Goto, TypeOK
      <4> QED BY <1>3, <4>1, <4>2 DEF Spent
    <3> QED BY <3>1, <3>2
  <2>3. ASSUME NEW u \in Threads, Serves(u) PROVE pc'[t] = "flush"
    <3>1. CASE u = t
      <4>1. pc'[t] # "idle"
        BY <1>2, <1>3, <2>3, <3>1, ServesStep, LinkTypes
      <4>2. thread[t] = n
        BY <1>3, <2>3, <3>1, <4>1, ServesStep DEF linkvars
      <4>3. pc[t] = "flush"
        BY <4>2 DEF Spent
      <4>4. FlushAndAck(t)
        BY <2>3, <3>1, <4>3 DEF Serves, ThreadStep, FindLot, FindNoLot, Insert, InsertFails,
           Select, SelectFails, Price, Update, UpdateFails
      <4>5. pc'[t] = "idle"
        BY <4>4 DEF FlushAndAck, Finish, Goto, TypeOK
      <4> QED BY <4>1, <4>5
    <3>2. CASE u # t
      <4>1. pc'[t] = pc[t] /\ thread'[t] = thread[t]
        BY <2>3, <3>2, ServesStep, LinkTypes DEF linkvars
      <4> QED BY <1>3, <4>1 DEF Spent
    <3> QED BY <3>1, <3>2
  <2>4. CASE /\ \A u \in Threads : pc'[u] = "idle"
             /\ (\A u \in Threads : thread'[u] = 0) \/ (thread' = thread /\ server = "down")
    BY <1>2, <1>3, <2>4 DEF Attuned
  <2> QED BY <2>1, <2>2, <2>3, <2>4, ThreadSteps
<1> QED
  BY <1>1, <1>3 DEF Spent

(* The step to the flush spends the event.                                 *)
LEMMA StatementSpends ==
  ASSUME Base, NEW t \in Threads, Serves(t), Insert(t) \/ Update(t)
  PROVE  \E n \in DOMAIN Events : ~Spent(n) /\ Spent(n)' /\ req[t] = RequestOf(n)
<1> USE LinkTypes, LinkAssumption, Connections DEF Base
<1>1. pc[t] \in {"insert", "update"} /\ pc'[t] = "flush"
  BY DEF Insert, Update, Goto, TypeOK
<1>2. UNCHANGED linkvars /\ thread[t] # 0 /\ req[t] = RequestOf(thread[t])
  BY <1>1, ServesStep DEF Attuned
<1>3. thread[t] \in Way!EventIds /\ Way!EventIds = DOMAIN Events
  BY <1>2, ParkSystemAssumption DEF Way!EventIds
<1>4. <<t, thread[t]>> \in written /\ \A n \in Way!Members(wire[t]) : thread[t] < n
  BY <1>2 DEF Way!WireFits
<1>5. thread[t] \in Way!WrittenEvents
  <2>1. <<t, thread[t]>>[2] = thread[t]
    OBVIOUS
  <2> QED BY <1>4, <2>1 DEF Way!WrittenEvents
<1>6. ASSUME NEW c \in Threads, thread[t] \in Way!Members(wire[c]) \/ thread[c] = thread[t]
      PROVE  c = t
  <2>1. <<c, thread[t]>> \in written
    BY <1>2, <1>6 DEF Way!WireFits
  <2>2. <<c, thread[t]>>[1] = <<t, thread[t]>>[1]
    <3>1. <<c, thread[t]>>[2] = <<t, thread[t]>>[2]
      OBVIOUS
    <3> QED BY <1>4, <2>1, <3>1 DEF Way!Sockets
  <2> QED BY <2>2
<1>7. thread[t] \notin Way!Members(wire[t])
  <2>1. thread[t] \in Nat
    BY Way!WireNumbers
  <2> QED BY <1>4, <2>1
<1>8. ASSUME NEW n, n = thread[t] PROVE Spent(n)'
  <2>1. /\ Way!WrittenEvents' = Way!WrittenEvents
        /\ wire' = wire /\ thread' = thread
    BY <1>2 DEF linkvars, Way!WrittenEvents
  <2> QED BY <1>1, <1>5, <1>6, <1>7, <1>8, <2>1 DEF Spent
<1>9. ~Spent(thread[t])
  BY <1>1 DEF Spent
<1> QED
  BY <1>2, <1>3, <1>8, <1>9

(* Where the logs come from.                                               *)
LEMMA LogSteps ==
  ASSUME TypeOK, [SysNext]_sysvars
  PROVE  /\ disk' \in {disk, shm}
         /\ \/ shm'.log \in {shm.log, disk.log, <<>>}
            \/ \E t \in Threads : Serves(t) /\ disk' = disk /\ (Insert(t) \/ Update(t))
<1>1. CASE UNCHANGED vars
  BY <1>1 DEF vars, files
<1>2. ASSUME NEW t \in Threads, Receives(t) PROVE shm' = shm /\ disk' = disk
  BY <1>2 DEF Receives, Receive, files
<1>3. ASSUME NEW t \in Threads, Serves(t)
      PROVE  /\ disk' \in {disk, shm}
             /\ shm' = shm \/ (disk' = disk /\ (Insert(t) \/ Update(t)))
  <2>1. CASE FindLot(t) \/ Select(t) \/ Price(t)
    BY <2>1 DEF FindLot, Select, Price, files
  <2>2. CASE FindNoLot(t) \/ InsertFails(t) \/ SelectFails(t) \/ UpdateFails(t)
    BY <2>2 DEF FindNoLot, InsertFails, SelectFails, UpdateFails, Fail, files
  <2>3. CASE Insert(t) \/ Update(t)
    BY <2>3 DEF Insert, Update
  <2>4. CASE FlushAndAck(t)
    BY <2>4, FlushedIs DEF FlushAndAck
  <2> QED BY <1>3, <2>1, <2>2, <2>3, <2>4 DEF Serves, ThreadStep
<1>4. CASE ServerStarts
  <2>1. disk' = disk /\ Boot
    BY <1>4 DEF ServerStarts, Boot
  <2>2. PICK o \in Opened(IOFaults \/ \E u \in Tools : tpc[u] # "idle") : shm' = o.shm
    BY <2>1 DEF Boot
  <2>3. shm'.log \in {shm.log, disk.log}
    BY <2>2, OpenedType
  <2> QED BY <2>1, <2>3
<1>5. CASE ServerCrashes
  BY <1>5 DEF ServerCrashes, Crash, files
<1>6. CASE MachineReboots
  BY <1>6 DEF MachineReboots, Reboot, EmptyImage
<1> QED
  BY <1>1, <1>2, <1>3, <1>4, <1>5, <1>6 DEF SysNext, sysvars, OnTheWay

LEMMA SpentTimesGrow ==
  ASSUME Base, [SysNext]_sysvars
  PROVE  /\ SpentTimes("START") \subseteq SpentTimes("START")'
         /\ SpentTimes("STOP") \subseteq SpentTimes("STOP")'
  BY SpentStays DEF SpentTimes, RequestOf

(* The time of the event a statement is for is new.                        *)
LEMMA NewTime ==
  ASSUME DistinctTimes, Base, [SysNext]_sysvars, NEW t \in Threads, Serves(t),
         Insert(t) \/ Update(t), NEW type \in {"START", "STOP"}, req[t].type = type
  PROVE  /\ req[t].time \notin SpentTimes(type)
         /\ req[t].time \in SpentTimes(type)'
<1>1. PICK n \in DOMAIN Events :
        ~Spent(n) /\ Spent(n)' /\ req[t] = RequestOf(n)
  BY StatementSpends
<1>2. req[t].time = Events[n].utc_sec /\ RequestOf(n).type = type
  BY <1>1 DEF RequestOf
<1>3. ASSUME req[t].time \in SpentTimes(type) PROVE FALSE
  <2>1. PICK k \in DOMAIN Events :
          RequestOf(k).type = type /\ Spent(k) /\ req[t].time = Events[k].utc_sec
    BY <1>3 DEF SpentTimes
  <2>2. k = n
    BY <1>2, <2>1 DEF DistinctTimes
  <2> QED BY <1>1, <2>1, <2>2
<1>4. (RequestOf(n).type)' = type
  BY <1>2 DEF RequestOf
<1> QED
  BY <1>1, <1>2, <1>3, <1>4 DEF SpentTimes

LEMMA LogsTellStep ==
  ASSUME DistinctTimes, Base, LogsTell, [SysNext]_sysvars
  PROVE  LogsTell'
<1> DEFINE A == SpentTimes("START")
           B == SpentTimes("STOP")
<1>1. A \subseteq A' /\ B \subseteq B'
  BY SpentTimesGrow
<1>2. Tells(shm.log, A', B') /\ Tells(disk.log, A', B') /\ Tells(<<>>, A', B')
  <2>1. Tells(<<>>, A', B')
    BY DEF Tells
  <2> HIDE DEF A, B
  <2>2. Tells(shm.log, A, B) /\ Tells(disk.log, A, B)
    BY DEF LogsTell, A, B
  <2> QED BY <1>1, <2>1, <2>2, TellsMore
<1>3. Tells(disk'.log, A', B')
  BY <1>2, LogSteps DEF Base
<1>4. ASSUME NEW t \in Threads, Serves(t), Insert(t) PROVE Tells(shm'.log, A', B')
  <2> DEFINE s == OpenSession(req[t].cust, row[t].lot, req[t].time)
  <2>1. /\ s \in Session /\ s.open /\ s.start = req[t].time
        /\ shm.log \in Seq(Session) /\ shm'.log = Append(shm.log, s)
    <3>1. req[t] \in Request /\ row[t].lot \in Nat /\ shm \in Image
      BY <1>4 DEF Insert, Base, TypeOK, Row
    <3>2. s \in Session /\ s.open /\ s.start = req[t].time
      BY <3>1, RequestParts DEF OpenSession, Session
    <3>3. shm' = insertLog(shm, s)
      BY <1>4 DEF Insert
    <3> HIDE DEF s
    <3> QED BY <3>1, <3>2, <3>3, InsertLogType, ImageParts
  <2>2. req[t].type = "START"
    BY <1>4 DEF Insert, Base, StepFitsRequest
  <2>3. s.start \notin A /\ s.start \in A'
    BY <1>4, <2>1, <2>2, NewTime
  <2> HIDE DEF s, A, B
  <2>4. Tells(shm.log, A, B)
    BY DEF LogsTell, A, B
  <2>5. Tells(Append(shm.log, s), A \cup {s.start}, B)
    BY <2>1, <2>3, <2>4, TellsOpened
  <2>6. A \cup {s.start} \subseteq A'
    BY <1>1, <2>3
  <2> QED BY <1>1, <2>1, <2>5, <2>6, TellsMore
<1>5. ASSUME NEW t \in Threads, Serves(t), Update(t) PROVE Tells(shm'.log, A', B')
  <2>1. req[t].time \in Nat /\ row[t].total \in Int /\ req[t].type = "STOP"
    BY <1>5, RequestParts DEF Update, Base, TypeOK, Row, StepFitsRequest
  <2>2. req[t].time \notin B /\ req[t].time \in B'
    BY <1>5, <2>1, NewTime
  <2> HIDE DEF A, B
  <2>3. Tells(shm.log, A, B)
    BY DEF LogsTell, A, B
  <2>4. Tells(shm'.log, A, B \cup {req[t].time})
    <3>1. shm \in Image /\ shm' = updateLog(shm, row[t].id, req[t].time, row[t].total)
      BY <1>5 DEF Update, Base, TypeOK
    <3> QED BY <2>1, <2>2, <2>3, <3>1, TellsClosed
  <2>5. B \cup {req[t].time} \subseteq B'
    BY <1>1, <2>2
  <2> QED BY <1>1, <2>4, <2>5, TellsMore
<1>6. Tells(shm'.log, A', B')
  <2> HIDE DEF A, B
  <2>1. CASE shm'.log \in {shm.log, disk.log, <<>>}
    BY <1>2, <2>1
  <2>2. CASE \E t \in Threads : Serves(t) /\ (Insert(t) \/ Update(t))
    BY <1>4, <1>5, <2>2
  <2> QED BY <2>1, <2>2, LogSteps DEF Base
<1> QED
  BY <1>3, <1>6 DEF LogsTell

(* The server keeps no list of what it has seen and sends no answer; the   *)
(* vehicle writes again what a failing write has left in doubt             *)
(* (eth_process.c:91), threads of several connections share one runtime    *)
(* database, and statements, flushes and restores may fail.  Still each    *)
(* session, in memory and on disk, is the one of a START of its own and    *)
(* was closed, if at all, by a STOP of its own.                            *)
THEOREM SessionsOnlyForEvents ==
  ASSUME DistinctTimes, FirstDisk.log = <<>>
  PROVE  SysSpec => []SessionsAreEvents
<1>1. SysInit => LogsTell
  BY DEF SysInit, Init, EmptyImage, LogsTell, Tells
<1>2. Base /\ LogsTell /\ [SysNext]_sysvars => LogsTell'
  BY LogsTellStep
<1>3. LogsTell => SessionsAreEvents
  <2> DEFINE times(type) == {Events[n].utc_sec : n \in {k \in DOMAIN Events :
                                                          RequestOf(k).type = type}}
  <2>1. SpentTimes("START") \subseteq times("START") /\ SpentTimes("STOP") \subseteq times("STOP")
    BY DEF SpentTimes
  <2> HIDE DEF times
  <2>2. LogsTell => \A db \in {shm, disk} : Tells(db.log, times("START"), times("STOP"))
    BY <2>1, TellsMore DEF LogsTell
  <2> QED BY <2>2 DEF SessionsAreEvents, Tells, times
<1> QED
  BY <1>1, <1>2, <1>3, SystemBase, PTL DEF SysSpec

-----------------------------------------------------------------------------
(* Parkings are recorded as they were, while the first connection lasts.   *)
(* There is one thread then, so the runtime database is ahead of the       *)
(* backup by one request at most, and a STOP that comes through finds the  *)
(* session of the START before it as the last row of the table.            *)

OneVehicle == \A m, n \in DOMAIN Events : Events[m].license_id = Events[n].license_id

\* No input or output fails, there is one vehicle, and a lot to park in.
Sound == ~IOFaults /\ OneVehicle /\ LiveLots(FirstDisk) # {}

Nearest(place) == ClosestUpTo(FirstDisk, place, Len(FirstDisk.lots))

\* What a STOP at that time costs the session of that id.
Due(id, time) ==
  calculatePrice(FirstDisk, time - disk.log[id].start, disk.log[id].lot)

LotsAsFirst ==
  /\ disk.lots = FirstDisk.lots
  /\ server = "up" => diskOk /\ shm.schema /\ shm.lots = FirstDisk.lots

\* What the thread knows of its request, before the flush and at it.
Handling ==
  LET r == req[1]
      w == row[1]
  IN
  /\ server = "up" /\ pc[1] # "flush" => shm.log = disk.log
  /\ pc[1] = "insert" => w.lot \in Nearest(r.place)
  /\ pc[1] \in {"price", "update"} =>
       /\ w.id \in NewestOpen(disk, r.cust)
       /\ w.lot = disk.log[w.id].lot /\ w.start = disk.log[w.id].start
  /\ pc[1] = "update" => w.total = Due(w.id, r.time)
  /\ pc[1] = "flush" /\ r.type = "START" =>
       \E lot \in Nearest(r.place) :
         shm.log = Append(disk.log, OpenSession(r.cust, lot, r.time))
  /\ pc[1] = "flush" /\ r.type = "STOP" =>
       \E id \in NewestOpen(disk, r.cust) :
         shm.log = updateLog(disk, id, r.time, Due(id, r.time)).log

\* The session that request r opens, at one of the lots nearest to its place.
OpenedBy(r) == {OpenSession(r.cust, lot, r.time) : lot \in Nearest(r.place)}

\* After a START that says where, the last session of the backup is the one
\* it opened.
LastParked ==
  LET r == RequestOf(handled[Len(handled)][2]) IN
  handled # <<>> /\ r.type = "START" /\ r.place # Nowhere =>
    disk.log # <<>> /\ disk.log[Len(disk.log)] \in OpenedBy(r)

\* Recorded and ParkingAt, for any log and any course of requests.
RecordedIn(log, n) ==
  \E i \in DOMAIN log :
    /\ log[i].cust = RequestOf(n).cust /\ log[i].start = RequestOf(n).time
    /\ log[i].lot \in Nearest(RequestOf(n).place)
    /\ ~log[i].open /\ log[i].end = RequestOf(n + 1).time
    /\ log[i].total = calculatePrice(FirstDisk, RequestOf(n + 1).time - RequestOf(n).time,
                                     log[i].lot)

ParkingIn(h, k) ==
  /\ k + 1 \in DOMAIN h
  /\ h[k + 1][2] = h[k][2] + 1
  /\ RequestOf(h[k][2]).type = "START"
  /\ RequestOf(h[k + 1][2]).type = "STOP"
  /\ Nowhere \notin {RequestOf(h[k][2]).place, RequestOf(h[k + 1][2]).place}

AllRecorded(log, h) ==
  \A k \in DOMAIN h : ParkingIn(h, k) => RecordedIn(log, h[k][2])

OneByOne == conns <= 1 => Handling /\ LastParked /\ AllRecorded(disk.log, handled)

LEMMA SameRecorded ==
  AllRecorded(disk.log, handled)
    => \A k \in DOMAIN handled : ParkingAt(k) => Recorded(handled[k][2])
<1> SUFFICES ASSUME AllRecorded(disk.log, handled),
                    NEW k \in DOMAIN handled, ParkingAt(k)
             PROVE  Recorded(handled[k][2])
  OBVIOUS
<1> DEFINE n == handled[k][2]
<1>1. RecordedIn(disk.log, n)
  BY DEF AllRecorded, ParkingIn, ParkingAt
<1> HIDE DEF n
<1>2. Recorded(n)
  BY <1>1 DEF RecordedIn, Recorded, Nearest
<1> QED
  BY <1>2 DEF n

LEMMA RecordStays ==
  ASSUME NEW log, NEW new, NEW n, RecordedIn(log, n),
         \A i \in DOMAIN log : ~log[i].open => i \in DOMAIN new /\ new[i] = log[i]
  PROVE  RecordedIn(new, n)
<1>1. PICK i \in DOMAIN log :
    /\ log[i].cust = RequestOf(n).cust /\ log[i].start = RequestOf(n).time
    /\ log[i].lot \in Nearest(RequestOf(n).place)
    /\ ~log[i].open /\ log[i].end = RequestOf(n + 1).time
    /\ log[i].total = calculatePrice(FirstDisk, RequestOf(n + 1).time - RequestOf(n).time,
                                     log[i].lot)
  BY DEF RecordedIn
<1>2. i \in DOMAIN new /\ new[i] = log[i]
  BY <1>1
<1> QED
  BY <1>1, <1>2 DEF RecordedIn

(* One more request handled: the last two may be a parking.                *)
LEMMA OneMoreHandled ==
  ASSUME NEW T, NEW h \in Seq(T), NEW e \in T, NEW log, NEW new,
         AllRecorded(log, h),
         \A i \in DOMAIN log : ~log[i].open => i \in DOMAIN new /\ new[i] = log[i],
         /\ h # <<>> /\ e[2] = h[Len(h)][2] + 1
         /\ RequestOf(h[Len(h)][2]).type = "START" /\ RequestOf(e[2]).type = "STOP"
         /\ Nowhere \notin {RequestOf(h[Len(h)][2]).place, RequestOf(e[2]).place}
         => RecordedIn(new, h[Len(h)][2])
  PROVE  AllRecorded(new, Append(h, e))
<1> DEFINE g == Append(h, e)
<1>1. /\ DOMAIN g = 1 .. Len(h) + 1 /\ DOMAIN h = 1 .. Len(h) /\ Len(h) \in Nat
      /\ g[Len(h) + 1] = e /\ \A k \in DOMAIN h : g[k] = h[k]
      /\ h # <<>> <=> Len(h) # 0
  OBVIOUS
<1> HIDE DEF g
<1>2. ASSUME NEW k \in DOMAIN g, ParkingIn(g, k) PROVE RecordedIn(new, g[k][2])
  <2>1. k \in DOMAIN h /\ g[k] = h[k] /\ k + 1 \in 1 .. Len(h) + 1
    BY <1>1, <1>2 DEF ParkingIn
  <2>2. CASE k + 1 \in DOMAIN h
    <3>1. ParkingIn(h, k)
      BY <1>1, <1>2, <2>1, <2>2 DEF ParkingIn
    <3> QED BY <2>1, <3>1, RecordStays DEF AllRecorded
  <2>3. CASE k + 1 = Len(h) + 1
    <3>1. k = Len(h) /\ h # <<>> /\ g[k + 1] = e
      BY <1>1, <2>1, <2>3
    <3> QED BY <1>2, <2>1, <3>1 DEF ParkingIn
  <2> QED BY <1>1, <2>1, <2>2, <2>3
<1>3. AllRecorded(new, g)
  BY <1>2 DEF AllRecorded
<1> QED
  BY <1>3 DEF g

(* With one connection there is one thread at work.                        *)
LEMMA FirstOnly ==
  ASSUME Base, conns <= 1, NEW t \in Threads, t # 1
  PROVE  pc[t] = "idle" /\ wire[t] = <<>>
<1> USE LinkTypes, LinkAssumption, Connections DEF Base
<1>0. conns \in Nat /\ t \in Nat /\ t > 1 /\ \A w \in written : w[1] <= conns
  BY DEF Way!Sockets
<1>1. ASSUME NEW n, <<t, n>> \in written PROVE FALSE
  <2>1. <<t, n>>[1] = t
    OBVIOUS
  <2> QED BY <1>0, <1>1, <2>1
<1>2. thread[t] = 0
  BY <1>1 DEF Way!WireFits
<1>3. wire[t] = <<>>
  <2>1. \A n \in Way!Members(wire[t]) : <<t, n>> \in written
    BY DEF Way!WireFits
  <2>2. wire[t] # <<>> => Head(wire[t]) \in Way!Members(wire[t])
    BY Way!TailMembers
  <2> QED BY <1>1, <2>1, <2>2
<1> QED
  BY <1>2, <1>3 DEF Attuned

LEMMA ConnsGrow ==
  ASSUME Way!LinkInv, [SysNext]_sysvars
  PROVE  conns \in Nat /\ conns' \in Nat /\ conns <= conns'
<1>1. conns' = conns \/ conns' = conns + 1
  BY LinkStep DEF Way!Next, Way!vars, Way!Offer, Way!Expire, Way!I2CRead, Way!I2CWrite,
     Way!EthRead, Way!Connect, Way!Write, Way!WriteFails, Way!DaemonRestart, Way!Recv,
     Way!Handle, Way!EndThread, Way!Break, Way!Start, Way!Crash, Way!net, Way!daemon, Way!served
<1> QED
  BY <1>1, LinkTypes

(* A thread at work: the server is up, and nothing it does fails.          *)
LEMMA NothingFails ==
  ASSUME Base, ~IOFaults, NEW t \in Threads, pc[t] # "idle"
  PROVE  server = "up" /\ ~ThreadMayFail
  BY DEF Base, TypeOK, Attuned, ThreadMayFail

(* A statement of a thread touches the table Log only.                     *)
LEMMA LogOnly ==
  ASSUME TypeOK, NEW t \in Threads, Insert(t) \/ Update(t)
  PROVE  shm'.lots = shm.lots /\ shm'.schema = shm.schema
<1>1. shm \in Image
  BY DEF TypeOK
<1>2. CASE Insert(t)
  BY <1>1, <1>2 DEF Insert, insertLog, Image
<1>3. CASE Update(t)
  BY <1>1, <1>3 DEF Update, updateLog, Image
<1> QED
  BY <1>2, <1>3

LEMMA LotsAsFirstStep ==
  ASSUME Base, ~IOFaults, LotsAsFirst, [SysNext]_sysvars
  PROVE  LotsAsFirst'
<1> USE DEF LotsAsFirst
<1>1. CASE UNCHANGED vars
  BY <1>1 DEF vars, files
<1>2. ASSUME NEW t \in Threads, Receives(t) PROVE LotsAsFirst'
  BY <1>2 DEF Receives, Receive, files
<1>3. ASSUME NEW t \in Threads, Serves(t) PROVE LotsAsFirst'
  <2>1. server = "up" /\ ~ThreadMayFail /\ server' = server
    BY <1>3, ServesStep, NothingFails DEF Base
  <2>2. CASE FindLot(t) \/ Select(t) \/ Price(t)
    BY <2>2 DEF FindLot, Select, Price, files
  <2>3. CASE FindNoLot(t) \/ InsertFails(t) \/ SelectFails(t) \/ UpdateFails(t)
    BY <2>3 DEF FindNoLot, InsertFails, SelectFails, UpdateFails, Fail, files
  <2>4. CASE Insert(t) \/ Update(t)
    <3>1. disk' = disk /\ diskOk' = diskOk
      BY <2>4 DEF Insert, Update
    <3> QED BY <2>1, <2>4, <3>1, LogOnly DEF Base
  <2>5. CASE FlushAndAck(t)
    <3>1. disk' = shm /\ shm' = shm /\ diskOk' = diskOk
      BY <2>1, <2>5 DEF FlushAndAck, Flushed
    <3> QED BY <2>1, <3>1
  <2> QED BY <1>3, <2>2, <2>3, <2>4, <2>5 DEF Serves, ThreadStep
<1>4. CASE ServerStarts
  <2>1. shm' = [disk EXCEPT !.schema = TRUE] /\ diskOk' /\ disk' = disk
    BY <1>4, BootsAlone DEF ServerStarts, Boot, Base, Attuned
  <2>2. shm'.schema /\ shm'.lots = disk.lots
    BY <2>1 DEF Base, TypeOK, Image
  <2> QED BY <2>1, <2>2
<1>5. CASE ServerCrashes \/ MachineReboots
  BY <1>5 DEF ServerCrashes, Crash, MachineReboots, Reboot, ThreadsDie, files
<1> QED
  BY <1>1, <1>2, <1>3, <1>4, <1>5 DEF SysNext, sysvars, OnTheWay

(* Two databases with the same lots or logs answer alike.                  *)
LEMMA SameAnswers ==
  /\ \A a, b, place, n : a.lots = b.lots => ClosestUpTo(a, place, n) = ClosestUpTo(b, place, n)
  /\ \A a, b, cust : a.log = b.log => NewestOpen(a, cust) = NewestOpen(b, cust)
  BY DEF ClosestUpTo, LiveLots, NewestOpen, OpenIds

LEMMA SameUpdate ==
  ASSUME NEW a \in Image, NEW b \in Image, a.log = b.log, NEW id, NEW end, NEW total
  PROVE  updateLog(a, id, end, total).log = updateLog(b, id, end, total).log
<1> DEFINE closed(log) ==
             [i \in DOMAIN log |-> IF i = id THEN ClosedSession(log[i], end, total) ELSE log[i]]
<1>1. /\ updateLog(a, id, end, total).log = closed(a.log)
      /\ updateLog(b, id, end, total).log = closed(b.log)
  BY UpdateLogIs
<1> HIDE DEF closed
<1> QED
  BY <1>1

LEMMA SameLotsSamePrice ==
  ASSUME NEW a, NEW b, a.lots = b.lots, NEW d, NEW lot
  PROVE  calculatePrice(a, d, lot) = calculatePrice(b, d, lot)
  BY DEF calculatePrice, LiveLots

LEMMA FindingKeepsHandling ==
  ASSUME Base, Sound, LotsAsFirst, Handling, FindLot(1) \/ Select(1) \/ Price(1)
  PROVE  Handling'
<1> USE Connections
<1>0. /\ server = "up" /\ ~ThreadMayFail /\ shm.log = disk.log /\ shm.lots = FirstDisk.lots
      /\ shm' = shm /\ disk' = disk /\ server' = server /\ req' = req
  <2>1. pc[1] # "idle" /\ pc[1] # "flush"
    BY DEF FindLot, Select, Price
  <2>2. server = "up" /\ ~ThreadMayFail
    BY <2>1, NothingFails DEF Sound
  <2> QED BY <2>1, <2>2 DEF FindLot, Select, Price, files, LotsAsFirst, Handling
<1>1. row[1] \in Row /\ req[1].type \in {"START", "STOP", "IDLE"}
  <2>1. req[1] \in Request
    BY DEF FindLot, Select, Price, Base, TypeOK
  <2> QED BY <2>1, RequestParts DEF Base, TypeOK
<1>2. CASE FindLot(1)
  <2>1. pc'[1] \in {"insert", "select"} /\ row'[1].lot \in Nearest(req[1].place)
    <3>1. PICK n \in RowsScanned(shm) : \E l \in ClosestUpTo(shm, req[1].place, n) :
            row' = [row EXCEPT ![1].lot = l]
      BY <1>2 DEF FindLot
    <3>2. n = Len(FirstDisk.lots)
      BY <1>0, <3>1 DEF RowsScanned, Sound
    <3>3. PICK l \in ClosestUpTo(shm, req[1].place, n) : row' = [row EXCEPT ![1].lot = l]
      BY <3>1
    <3>4. l \in Nearest(req[1].place)
      BY <1>0, <3>2, <3>3, SameAnswers DEF Nearest
    <3>5. row'[1].lot = l
      BY <1>1, <3>3 DEF Base, TypeOK, Row
    <3>6. pc'[1] \in {"insert", "select"}
      BY <1>2 DEF FindLot, Goto, Base, TypeOK
    <3> QED BY <3>4, <3>5, <3>6
  <2> QED BY <1>0, <2>1 DEF Handling, Nearest
<1>3. CASE Select(1)
  <2>1. PICK id \in NewestOpen(shm, req[1].cust) :
          row' = [row EXCEPT ![1] = [id |-> id, lot |-> shm.log[id].lot,
                                     start |-> shm.log[id].start, total |-> 0]]
    BY <1>3 DEF Select
  <2>2. /\ row'[1].id = id /\ row'[1].lot = shm.log[id].lot
        /\ row'[1].start = shm.log[id].start
    BY <2>1 DEF Base, TypeOK
  <2>3. id \in NewestOpen(disk, req[1].cust)
    BY <1>0, <2>1, SameAnswers
  <2>4. pc'[1] = "price"
    BY <1>3 DEF Select, Goto, Base, TypeOK
  <2> QED BY <1>0, <2>2, <2>3, <2>4 DEF Handling, NewestOpen, OpenIds
<1>4. CASE Price(1)
  <2>1. row' = [row EXCEPT ![1].total =
                  calculatePrice(shm, req[1].time - row[1].start, row[1].lot)]
    BY <1>0, <1>4 DEF Price
  <2>2. /\ row'[1].id = row[1].id /\ row'[1].lot = row[1].lot
        /\ row'[1].start = row[1].start
        /\ row'[1].total = calculatePrice(shm, req[1].time - row[1].start, row[1].lot)
    BY <1>1, <2>1 DEF Base, TypeOK, Row
  <2>3. pc[1] = "price" /\ pc'[1] = "update"
    BY <1>4 DEF Price, Goto, Base, TypeOK
  <2>4. row'[1].total = Due(row[1].id, req[1].time)
    <3>1. row[1].start = disk.log[row[1].id].start /\ row[1].lot = disk.log[row[1].id].lot
      BY <2>3 DEF Handling
    <3> QED BY <1>0, <2>2, <3>1, SameLotsSamePrice DEF Due
  <2> QED BY <1>0, <2>2, <2>3, <2>4 DEF Handling, Due, NewestOpen, OpenIds
<1> QED
  BY <1>2, <1>3, <1>4

LEMMA WritingKeepsHandling ==
  ASSUME Base, Sound, LotsAsFirst, Handling, Insert(1) \/ Update(1)
  PROVE  Handling'
<1> USE Connections
<1>0. /\ shm.log = disk.log /\ disk' = disk /\ req' = req /\ pc'[1] = "flush"
      /\ shm \in Image /\ disk \in Image
  <2>1. pc[1] # "idle" /\ pc[1] # "flush"
    BY DEF Insert, Update
  <2>2. server = "up"
    BY <2>1, NothingFails DEF Sound
  <2> QED BY <2>1, <2>2 DEF Insert, Update, Goto, Base, TypeOK, Handling
<1>1. req[1] \in Request /\ row[1] \in Row
  BY DEF Insert, Update, Base, TypeOK
<1>2. CASE Insert(1)
  <2> DEFINE s == OpenSession(req[1].cust, row[1].lot, req[1].time)
  <2>1. s \in Session
    BY <1>1, RequestParts DEF OpenSession, Session, Row
  <2>2. shm' = insertLog(shm, s)
    BY <1>2 DEF Insert
  <2>3. shm'.log = Append(disk.log, s)
    <3> HIDE DEF s
    <3> QED BY <1>0, <2>1, <2>2, InsertLogType
  <2>4. row[1].lot \in Nearest(req[1].place) /\ req[1].type = "START"
    BY <1>2 DEF Insert, Handling, Base, StepFitsRequest
  <2> QED BY <1>0, <2>3, <2>4 DEF Handling, Nearest
<1>3. CASE Update(1)
  <2>1. /\ row[1].id \in NewestOpen(disk, req[1].cust)
        /\ row[1].total = Due(row[1].id, req[1].time) /\ req[1].type = "STOP"
    BY <1>3 DEF Update, Handling, Base, StepFitsRequest
  <2>2. shm' = updateLog(shm, row[1].id, req[1].time, row[1].total)
    BY <1>3 DEF Update
  <2>3. shm'.log = updateLog(disk, row[1].id, req[1].time, row[1].total).log
    BY <1>0, <2>2, SameUpdate
  <2> DEFINE r    == req[1]
             id   == row[1].id
             cost == Due(id, r.time)
  <2>4. r' = r /\ id' = id /\ id \in NewestOpen(disk, r.cust) /\ r.type = "STOP"
    BY <1>0, <1>3, <2>1 DEF Update
  <2>5. cost' = cost /\ NewestOpen(disk, r.cust)' = NewestOpen(disk, r.cust)
    BY <1>0, <2>4 DEF Due, NewestOpen, OpenIds
  <2>6. shm'.log = updateLog(disk', id, r.time, cost).log
    BY <1>0, <2>1, <2>3
  <2>7. (\E k \in NewestOpen(disk, r.cust) : shm.log = updateLog(disk, k, r.time, Due(k, r.time)).log)'
    <3> HIDE DEF r, id
    <3>1. (id \in NewestOpen(disk, r.cust) /\ shm.log = updateLog(disk, id, r.time, cost).log)'
      BY <2>4, <2>5, <2>6
    <3> HIDE DEF cost
    <3> QED BY <3>1 DEF cost
  <2> QED BY <1>0, <2>4, <2>7 DEF Handling
<1> QED
  BY <1>2, <1>3

(* The steps with which handle_request returns.                            *)
Returns(t) ==
  \/ FindNoLot(t) \/ InsertFails(t) \/ SelectFails(t) \/ UpdateFails(t)
  \/ FlushAndAck(t)

LEMMA ReturnsToIdle ==
  ASSUME TypeOK, NEW t \in Threads, ThreadStep(t)
  PROVE  pc'[t] = "idle" <=> Returns(t)
<1>1. CASE FindLot(t) \/ Insert(t) \/ Select(t) \/ Price(t) \/ Update(t)
  <2>1. pc'[t] # "idle" /\ pc[t] \in {"closest", "insert", "select", "price", "update"}
    BY <1>1 DEF FindLot, Insert, Select, Price, Update, Goto, TypeOK
  <2>2. ASSUME Returns(t) PROVE pc'[t] = "idle"
    BY <2>2 DEF Returns, FindNoLot, InsertFails, SelectFails, UpdateFails, FlushAndAck,
                Fail, Finish, Goto, TypeOK
  <2> QED BY <2>1, <2>2
<1>2. CASE Returns(t)
  BY <1>2 DEF Returns, FindNoLot, InsertFails, SelectFails, UpdateFails, FlushAndAck,
              Fail, Finish, Goto, TypeOK
<1> QED
  BY <1>1, <1>2 DEF ThreadStep, Returns

LEMMA HandlingStep ==
  ASSUME Base, Sound, LotsAsFirst, conns <= 1, Handling, [SysNext]_sysvars
  PROVE  Handling'
<1> USE Connections
<1>1. CASE UNCHANGED vars
  BY <1>1 DEF vars, files, locals, Handling, Due, NewestOpen, OpenIds
<1>2. ASSUME NEW t \in Threads, Receives(t) PROVE Handling'
  <2>1. t = 1 /\ server = "up"
    BY <1>2, FirstOnly DEF Receives, Receive
  <2>2. pc[1] = "idle" /\ pc'[1] = "closest" /\ shm' = shm /\ disk' = disk
    BY <1>2, <2>1 DEF Receives, Receive, Goto, files, Base, TypeOK
  <2> QED BY <2>1, <2>2 DEF Handling
<1>3. ASSUME NEW t \in Threads, Serves(t) PROVE Handling'
  <2>1. t = 1 /\ pc[1] # "idle" /\ server = "up" /\ ~ThreadMayFail /\ ThreadStep(1)
    <3>1. pc[t] # "idle" /\ ThreadStep(t)
      BY <1>3, ServesStep DEF Base, Serves
    <3>2. t = 1
      BY <3>1, FirstOnly
    <3> QED BY <3>1, <3>2, NothingFails DEF Sound
  <2>2. CASE FindLot(1) \/ Select(1) \/ Price(1)
    BY <2>2, FindingKeepsHandling
  <2>3. CASE Insert(1) \/ Update(1)
    BY <2>3, WritingKeepsHandling
  <2>4. CASE Returns(1)
    <3>1. pc'[1] = "idle"
      BY <2>1, <2>4, ReturnsToIdle DEF Base
    <3>2. shm'.log = disk'.log
      <4>1. CASE FlushAndAck(1)
        BY <2>1, <4>1 DEF FlushAndAck, Flushed, LotsAsFirst
      <4>2. CASE FindNoLot(1) \/ InsertFails(1) \/ SelectFails(1) \/ UpdateFails(1)
        BY <2>1, <4>2 DEF FindNoLot, InsertFails, SelectFails, UpdateFails, Fail, files, Handling
      <4> QED BY <2>4, <4>1, <4>2 DEF Returns
    <3> QED BY <3>1, <3>2 DEF Handling
  <2> QED BY <2>1, <2>2, <2>3, <2>4 DEF ThreadStep, Returns
<1>4. CASE ServerStarts
  <2>1. pc'[1] = "idle"
    BY <1>4 DEF ServerStarts, Boot, locals, Base, Attuned
  <2>2. shm' = [disk EXCEPT !.schema = TRUE] /\ disk' = disk
    BY <1>4, BootsAlone DEF ServerStarts, Boot, Base, Attuned, Sound
  <2>3. shm'.log = disk'.log
    BY <2>2, SchemaType DEF Base, TypeOK
  <2> QED BY <2>1, <2>3 DEF Handling
<1>5. CASE ServerCrashes \/ MachineReboots
  <2>1. server' = "down" /\ pc'[1] = "idle"
    BY <1>5 DEF ServerCrashes, Crash, MachineReboots, Reboot, ThreadsDie
  <2> QED BY <2>1 DEF Handling
<1> QED
  BY <1>1, <1>2, <1>3, <1>4, <1>5 DEF SysNext, sysvars, OnTheWay

(* Only when handle_request returns do the backup and what was handled     *)
(* change.                                                                 *)
LEMMA NothingHandled ==
  ASSUME Base, [SysNext]_sysvars, \A t \in Threads : ~(Serves(t) /\ Returns(t))
  PROVE  disk' = disk /\ handled' = handled
<1> USE SameLink, Connections
<1>1. CASE UNCHANGED sysvars
  BY <1>1 DEF sysvars, vars, files, linkvars
<1>2. CASE OnTheWay
  BY <1>2 DEF OnTheWay, vars, files, Way!Offer, Way!Expire, Way!I2CRead, Way!I2CWrite,
     Way!EthRead, Way!Connect, Way!Write, Way!WriteFails, Way!DaemonRestart,
     Way!EndThread, Way!Break, Way!served
<1>3. ASSUME NEW t \in Threads, Receives(t) PROVE disk' = disk /\ handled' = handled
  BY <1>3 DEF Receives, Receive, files, Way!Recv
<1>4. ASSUME NEW t \in Threads, Serves(t) PROVE disk' = disk /\ handled' = handled
  <2>1. ThreadStep(t) /\ ~Returns(t)
    BY <1>4 DEF Serves
  <2>2. pc'[t] # "idle"
    BY <2>1, ReturnsToIdle DEF Base
  <2>3. handled' = handled
    BY <1>4, <2>2 DEF Serves, linkvars
  <2>4. disk' = disk
    BY <2>1 DEF ThreadStep, Returns, FindLot, Insert, Select, Price, Update, files
  <2> QED BY <2>3, <2>4
<1>5. CASE ServerStarts
  BY <1>5 DEF ServerStarts, Boot, linkvars, Way!Start
<1>6. CASE ServerCrashes \/ MachineReboots
  BY <1>6 DEF ServerCrashes, Crash, MachineReboots, Reboot, files, linkvars, Way!Crash
<1> QED
  BY <1>1, <1>2, <1>3, <1>4, <1>5, <1>6 DEF SysNext

(* What a request leaves in the backup.  With its request a thread comes   *)
(* to one of these ends and to no other.                                   *)
LEMMA ReturnEffect ==
  ASSUME Base, Sound, LotsAsFirst, Handling, 1 \in Threads, Returns(1)
  PROVE  \/ (req[1].type = "IDLE" \/ req[1].place = Nowhere) /\ disk' = disk
         \/ /\ req[1].type = "START"
            /\ \E s \in OpenedBy(req[1]) : disk'.log = Append(disk.log, s)
         \/ req[1].type = "STOP" /\ OpenIds(disk, req[1].cust) = {} /\ disk' = disk
         \/ /\ req[1].type = "STOP"
            /\ \E id \in NewestOpen(disk, req[1].cust) :
                 disk'.log = updateLog(disk, id, req[1].time, Due(id, req[1].time)).log
<1>0. server = "up" /\ ~ThreadMayFail /\ shm.schema /\ diskOk /\ LiveLots(shm) # {}
  <2>1. pc[1] # "idle"
    BY DEF Returns, FindNoLot, InsertFails, SelectFails, UpdateFails, FlushAndAck
  <2>2. server = "up" /\ ~ThreadMayFail
    BY <2>1, NothingFails DEF Sound
  <2> QED BY <2>2 DEF LotsAsFirst, Sound, LiveLots
<1>1. ~InsertFails(1) /\ ~UpdateFails(1)
  BY <1>0 DEF InsertFails, UpdateFails
<1>2. CASE FindNoLot(1)
  BY <1>0, <1>2 DEF FindNoLot, Fail, files
<1>3. CASE SelectFails(1)
  <2>1. OpenIds(shm, req[1].cust) = {} /\ disk' = disk /\ pc[1] = "select"
    BY <1>0, <1>3 DEF SelectFails, Fail, files
  <2>2. req[1].type = "STOP" /\ shm.log = disk.log
    BY <1>0, <2>1 DEF Handling, Base, StepFitsRequest
  <2> QED BY <2>1, <2>2 DEF OpenIds
<1>4. CASE FlushAndAck(1)
  <2>1. disk' = shm /\ pc[1] = "flush" /\ req[1].type \in {"START", "STOP"}
    BY <1>0, <1>4 DEF FlushAndAck, Flushed, Base, StepFitsRequest
  <2> QED BY <2>1 DEF Handling, OpenedBy
<1> QED
  BY <1>1, <1>2, <1>3, <1>4 DEF Returns

(* The newest open session is the last row, when that one is open.         *)
LEMMA LastIsNewest ==
  ASSUME NEW db \in Image, NEW cust, db.log # <<>>,
         db.log[Len(db.log)].open, db.log[Len(db.log)].cust = cust
  PROVE  /\ Len(db.log) \in DOMAIN db.log /\ Len(db.log) \in OpenIds(db, cust)
         /\ \A id \in NewestOpen(db, cust) : id = Len(db.log)
<1>1. db.log \in Seq(Session)
  BY ImageParts
<1>2. Len(db.log) \in DOMAIN db.log /\ \A j \in DOMAIN db.log : j \in Nat /\ j <= Len(db.log)
  BY <1>1
<1>3. Len(db.log) \in OpenIds(db, cust)
  BY <1>2 DEF OpenIds
<1>4. ASSUME NEW id \in NewestOpen(db, cust) PROVE id = Len(db.log)
  <2>1. id \in DOMAIN db.log /\ Len(db.log) <= id
    BY <1>3 DEF NewestOpen, OpenIds
  <2> QED BY <1>1, <1>2, <2>1
<1> QED
  BY <1>2, <1>3, <1>4

(* A session that is closed stays as it is.                                *)
LEMMA ClosedStay ==
  ASSUME Base, Sound, LotsAsFirst, Handling, 1 \in Threads, Returns(1)
  PROVE  \A i \in DOMAIN disk.log :
           ~disk.log[i].open => i \in DOMAIN disk'.log /\ disk'.log[i] = disk.log[i]
<1>0. disk \in Image /\ disk.log \in Seq(Session) /\ req[1] \in Request
  BY ImageParts DEF Base, TypeOK, Returns, FindNoLot, InsertFails, SelectFails,
     UpdateFails, FlushAndAck
<1>1. CASE disk' = disk
  BY <1>1
<1>2. ASSUME NEW s \in OpenedBy(req[1]), disk'.log = Append(disk.log, s)
      PROVE  \A i \in DOMAIN disk.log : i \in DOMAIN disk'.log /\ disk'.log[i] = disk.log[i]
  BY <1>0, <1>2
<1>3. ASSUME NEW id \in NewestOpen(disk, req[1].cust),
             disk'.log = updateLog(disk, id, req[1].time, Due(id, req[1].time)).log,
             NEW i \in DOMAIN disk.log, ~disk.log[i].open
      PROVE  i \in DOMAIN disk'.log /\ disk'.log[i] = disk.log[i]
  <2>1. i # id
    BY <1>3 DEF NewestOpen, OpenIds
  <2> DEFINE cost == Due(id, req[1].time)
  <2>2. disk'.log = [j \in DOMAIN disk.log |->
          IF j = id THEN ClosedSession(disk.log[j], req[1].time, cost) ELSE disk.log[j]]
    <3> HIDE DEF cost
    <3>1. disk'.log = updateLog(disk, id, req[1].time, cost).log
      BY <1>3 DEF cost
    <3> QED BY <1>0, <3>1, UpdateLogIs
  <2> HIDE DEF cost
  <2> QED BY <1>3, <2>1, <2>2
<1> QED
  BY <1>1, <1>2, <1>3, ReturnEffect

LEMMA OpenedSessions ==
  ASSUME NEW r \in Request
  PROVE  OpenedBy(r) \subseteq Session
<1>1. ASSUME NEW lot \in Nearest(r.place) PROVE lot \in Nat
  BY ParksysDBAssumption, ImageParts DEF Nearest, ClosestUpTo, LiveLots
<1>2. ASSUME NEW lot \in Nearest(r.place)
      PROVE  OpenSession(r.cust, lot, r.time) \in Session
  BY <1>1, RequestParts DEF OpenSession, Session
<1> QED
  BY <1>2 DEF OpenedBy

LEMMA LastRow ==
  ASSUME NEW S, NEW s \in Seq(S), NEW e \in S
  PROVE  Append(s, e) # <<>> /\ Append(s, e)[Len(Append(s, e))] = e
  OBVIOUS

(* A STOP that is handled right after its START.                           *)
LEMMA ParkingEnds ==
  ASSUME Base, Sound, LotsAsFirst, Handling, 1 \in Threads, Returns(1),
         NEW m \in DOMAIN Events, m + 1 \in DOMAIN Events, req[1] = RequestOf(m + 1),
         RequestOf(m).type = "START", req[1].type = "STOP",
         req[1].place # Nowhere,
         disk.log # <<>>, disk.log[Len(disk.log)] \in OpenedBy(RequestOf(m))
  PROVE  RecordedIn(disk'.log, m)
<1> DEFINE id   == Len(disk.log)
           s    == disk.log[id]
           cost == Due(id, req[1].time)
<1>0. disk \in Image /\ disk.log \in Seq(Session) /\ req[1] \in Request
  BY ImageParts DEF Base, TypeOK, Returns, FindNoLot, InsertFails, SelectFails,
     UpdateFails, FlushAndAck
<1>1. /\ s.cust = RequestOf(m).cust /\ s.lot \in Nearest(RequestOf(m).place)
      /\ s.start = RequestOf(m).time /\ s.open
  BY DEF OpenedBy, OpenSession
<1>2. RequestOf(m).cust = req[1].cust
  BY DEF Sound, OneVehicle, RequestOf
<1>3. /\ id \in DOMAIN disk.log /\ OpenIds(disk, req[1].cust) # {}
      /\ \A k \in NewestOpen(disk, req[1].cust) : k = id
  BY <1>0, <1>1, <1>2, LastIsNewest
<1>4. disk'.log = updateLog(disk, id, req[1].time, cost).log
  BY <1>3, ReturnEffect
<1>5. cost = calculatePrice(FirstDisk, RequestOf(m + 1).time - RequestOf(m).time, s.lot)
  BY <1>1 DEF Due
<1> HIDE DEF cost
<1>6. disk'.log = [i \in DOMAIN disk.log |->
        IF i = id THEN ClosedSession(disk.log[i], req[1].time, cost) ELSE disk.log[i]]
  BY <1>0, <1>4, UpdateLogIs
<1>7. id \in DOMAIN disk'.log /\ disk'.log[id] = ClosedSession(s, req[1].time, cost)
  BY <1>3, <1>6
<1>8. s \in Session
  BY <1>0, <1>3, RowType
<1> HIDE DEF id, s
<1>9. LET c == disk'.log[id]
      IN  /\ ~c.open /\ c.end = req[1].time /\ c.total = cost
          /\ c.cust = s.cust /\ c.lot = s.lot /\ c.start = s.start
  BY <1>7, <1>8 DEF ClosedSession, Session
<1> QED
  BY <1>1, <1>5, <1>7, <1>9 DEF RecordedIn

LEMMA ReturnStep ==
  ASSUME Base, Sound, LotsAsFirst, conns <= 1, Handling, LastParked,
         AllRecorded(disk.log, handled), NEW t \in Threads, Serves(t), Returns(t)
  PROVE  LastParked' /\ AllRecorded(disk'.log, handled')
<1> DEFINE n == thread[1]
           e == <<1, n>>
           T == Threads \X Way!EventIds
<1> USE Connections
<1>0. t = 1
  BY ServesStep, FirstOnly DEF Base
<1>1. /\ handled' = Append(handled, e) /\ handled \in Seq(T) /\ e \in T
      /\ req[1] = RequestOf(n) /\ n \in DOMAIN Events /\ Way!EventIds = DOMAIN Events
  <2>1. Way!EventIds = DOMAIN Events
    BY ParkSystemAssumption DEF Way!EventIds
  <2>2. pc[1] # "idle" /\ Way!Handle(1)
    BY <1>0, ServesStep, ReturnsToIdle DEF Base, Serves
  <2>3. thread[1] # 0 /\ req[1] = RequestOf(thread[1])
    BY <2>2 DEF Base, Attuned
  <2> QED BY <2>1, <2>2, <2>3, LinkTypes DEF Base, Way!Handle
<1>2. /\ handled' # <<>> /\ handled'[Len(handled')] = e /\ e[2] = n /\ DOMAIN Events \subseteq Nat
      /\ handled # <<>> => handled[Len(handled)] \in T
  <2>1. DOMAIN Events \subseteq Nat
    BY ParkSystemAssumption
  <2> HIDE DEF e, T
  <2>2. /\ handled' # <<>> /\ handled'[Len(handled')] = e
        /\ handled # <<>> => handled[Len(handled)] \in T
    BY <1>1
  <2> QED BY <2>1, <2>2 DEF e
<1>3. disk \in Image /\ disk.log \in Seq(Session) /\ req[1] \in Request
  BY <1>0, ImageParts DEF Base, TypeOK, Returns, FindNoLot, InsertFails, SelectFails,
     UpdateFails, FlushAndAck
<1>4. LastParked'
  <2>1. ASSUME req[1].type = "START", req[1].place # Nowhere
        PROVE  disk'.log # <<>> /\ disk'.log[Len(disk'.log)] \in OpenedBy(req[1])
    <3>1. PICK s \in OpenedBy(req[1]) : disk'.log = Append(disk.log, s)
      BY <1>0, <2>1, ReturnEffect
    <3>2. s \in Session
      BY <1>3, OpenedSessions
    <3> QED BY <1>3, <3>1, <3>2, LastRow
  <2>2. RequestOf(handled'[Len(handled')][2]) = req[1]
    BY <1>1, <1>2
  <2>3. LastParked' <=>
          (handled' # <<>> /\ RequestOf(handled'[Len(handled')][2]).type = "START"
             /\ RequestOf(handled'[Len(handled')][2]).place # Nowhere =>
             /\ disk'.log # <<>>
             /\ disk'.log[Len(disk'.log)] \in OpenedBy(RequestOf(handled'[Len(handled')][2])))
    BY DEF LastParked, RequestOf, OpenedBy, Nearest
  <2> QED BY <2>1, <2>2, <2>3
<1>5. AllRecorded(disk'.log, handled')
  <2>1. \A i \in DOMAIN disk.log :
          ~disk.log[i].open => i \in DOMAIN disk'.log /\ disk'.log[i] = disk.log[i]
    BY <1>0, ClosedStay
  <2>2. ASSUME handled # <<>>, e[2] = handled[Len(handled)][2] + 1,
               RequestOf(handled[Len(handled)][2]).type = "START",
               RequestOf(e[2]).type = "STOP",
               Nowhere \notin {RequestOf(handled[Len(handled)][2]).place,
                               RequestOf(e[2]).place}
        PROVE  RecordedIn(disk'.log, handled[Len(handled)][2])
    <3> DEFINE m == handled[Len(handled)][2]
    <3>1. m \in DOMAIN Events /\ n = m + 1
      BY <1>1, <1>2, <2>2
    <3>2. disk.log # <<>> /\ disk.log[Len(disk.log)] \in OpenedBy(RequestOf(m))
      BY <2>2 DEF LastParked
    <3> HIDE DEF m
    <3>3. RequestOf(m).type = "START" /\ req[1].type = "STOP" /\ req[1] = RequestOf(m + 1)
          /\ m + 1 \in DOMAIN Events /\ req[1].place # Nowhere
          /\ RequestOf(m).place # Nowhere
      BY <1>1, <1>2, <2>2, <3>1 DEF m
    <3>4. RecordedIn(disk'.log, m)
      BY <1>0, <3>1, <3>2, <3>3, ParkingEnds
    <3> QED BY <3>4 DEF m
  <2> HIDE DEF e, T
  <2>3. AllRecorded(disk'.log, Append(handled, e))
    BY <1>1, <2>1, <2>2, OneMoreHandled
  <2> QED BY <1>1, <2>3
<1> QED
  BY <1>4, <1>5

LEMMA OneByOneStep ==
  ASSUME Base, Sound, LotsAsFirst, OneByOne, [SysNext]_sysvars
  PROVE  OneByOne'
<1> SUFFICES ASSUME conns' <= 1
             PROVE  Handling' /\ LastParked' /\ AllRecorded(disk'.log, handled')
  BY DEF OneByOne, AllRecorded, ParkingIn, RecordedIn, RequestOf, Nearest
<1>1. conns <= 1 /\ Handling /\ LastParked /\ AllRecorded(disk.log, handled)
  BY ConnsGrow DEF Base, OneByOne
<1>2. Handling'
  BY <1>1, HandlingStep
<1>3. LastParked' /\ AllRecorded(disk'.log, handled')
  <2>1. CASE \E t \in Threads : Serves(t) /\ Returns(t)
    BY <1>1, <2>1, ReturnStep
  <2>2. CASE \A t \in Threads : ~(Serves(t) /\ Returns(t))
    <3>1. disk' = disk /\ handled' = handled
      BY <2>2, NothingHandled
    <3> QED BY <1>1, <3>1 DEF LastParked, OpenedBy, RequestOf, Nearest
  <2> QED BY <2>1, <2>2
<1> QED
  BY <1>2, <1>3

(* The server matches a STOP with a session by the license alone           *)
(* (db.cpp, endParking) and bills by what it reads back.  While the first  *)
(* connection of the vehicle lasts - with the server dying, the machine    *)
(* rebooting or the daemon being restarted at any point of it - a STOP     *)
(* that follows its START closes and bills that START's session, at the    *)
(* lot nearest to where it began, and what is once recorded so stays so,   *)
(* whatever older sessions the first backup file may hold.                 *)
THEOREM RecordsParkings ==
  ASSUME Sound
  PROVE  SysSpec => []ParkingsRecorded
<1>1. SysInit => LotsAsFirst /\ OneByOne
  <2>1. SysInit => /\ server = "down" /\ disk = FirstDisk /\ pc = [t \in Threads |-> "idle"]
                   /\ handled = <<>>
    BY SameLink DEF SysInit, Init, Way!Init
  <2> QED BY <2>1, Connections DEF LotsAsFirst, OneByOne, Handling, LastParked, AllRecorded
<1>2. Base /\ LotsAsFirst /\ OneByOne /\ [SysNext]_sysvars => LotsAsFirst' /\ OneByOne'
  BY LotsAsFirstStep, OneByOneStep DEF Sound
<1>3. OneByOne => ParkingsRecorded
  BY SameRecorded DEF OneByOne, ParkingsRecorded
<1> QED
  BY <1>1, <1>2, <1>3, SystemBase, PTL DEF SysSpec
=============================================================================
