------------------------------ MODULE ParkSystem ------------------------------
(***************************************************************************)
(* The whole way of a parking: the link of one vehicle (VehicleLink) and   *)
(* the server with its database (ParksysDB).  The handler thread of a      *)
(* connection is a thread of the database module: it receives what is next *)
(* on the connection, and is free again when handle_request returns.       *)
(***************************************************************************)
EXTENDS ParksysDB, GpsMsg

CONSTANTS Events, ClockLag, PipeSize, MaxConns, MaxRestarts

VARIABLES sent, bus, i2c, pipe, eth, written, sockfd, restarts, conns, client,
          wire, alive, thread, handled

Link == INSTANCE VehicleLink WITH server <- (server = "up")

linkvars == <<sent, bus, i2c, pipe, eth, written, sockfd, restarts, conns,
              client, wire, alive, thread, handled>>
sysvars  == <<vars, linkvars>>

\* parse_request.  A type above MAX_MSGT, which it refuses, does not get here
\* (OnlyValidHandled) and would leave the tables alone like an IDLE.
RequestOf(n) ==
  LET m == Events[n] IN
  [type |-> IF m.msg_type = MSGT_START THEN "START"
            ELSE IF m.msg_type = MSGT_STOP THEN "STOP" ELSE "IDLE",
   cust |-> m.license_id,
   place |-> IF NaN \in {m.latitude, m.longitude} THEN Nowhere
             ELSE <<m.latitude, m.longitude>>,
   time |-> m.utc_sec]

ASSUME ParkSystemAssumption ==
  /\ Events \in Seq(GpsMessage) /\ ClockLag \subseteq Int
  /\ PipeSize \in Nat \ {0} /\ MaxConns \in Nat \ {0} /\ MaxRestarts \in Nat
  /\ Threads = 1 .. MaxConns
  /\ \A t \in Threads : Feed[t] = {RequestOf(n) : n \in 1 .. Len(Events)}

SysInit == Init /\ Link!Init

-----------------------------------------------------------------------------
\* The vehicle and the network: the database does not notice.
OnTheWay ==
  /\ UNCHANGED vars
  /\ \/ Link!Offer \/ Link!Expire \/ Link!I2CRead \/ Link!I2CWrite
     \/ Link!EthRead \/ Link!Connect \/ Link!Write \/ Link!WriteFails
     \/ Link!DaemonRestart
     \/ \E t \in Threads : Link!EndThread(t) \/ Link!Break(t)

\* handle_client: recv_request, parse_request.
Receives(t) ==
  /\ wire[t] # <<>>
  /\ Receive(t) /\ req'[t] = RequestOf(Head(wire[t]))
  /\ Link!Recv(t)

\* handle_request, and back to recv_request when it returns.
Serves(t) ==
  /\ ThreadStep(t)
  /\ IF pc'[t] = "idle" THEN Link!Handle(t) ELSE UNCHANGED linkvars

ServerStarts ==
  Boot /\ IF server' = "up" THEN Link!Start ELSE UNCHANGED linkvars

ServerCrashes == Crash /\ Link!Crash

MachineReboots ==
  Reboot /\ IF server = "up" THEN Link!Crash ELSE UNCHANGED linkvars

SysNext ==
  \/ OnTheWay
  \/ \E t \in Threads : Receives(t) \/ Serves(t)
  \/ ServerStarts \/ ServerCrashes \/ MachineReboots

SysSpec == SysInit /\ [][SysNext]_sysvars

\* The server's threads are scheduled.
SysFairSpec ==
  SysSpec /\ \A t \in Threads : WF_sysvars(Receives(t) \/ Serves(t))

-----------------------------------------------------------------------------
(* Safety                                                                  *)

\* A START opens one session at most and a STOP closes one at most, whatever
\* is retried, and no session opens or closes without one.
SessionsAreEvents ==
  LET times(type) == {Events[n].utc_sec : n \in {k \in DOMAIN Events :
                                                  RequestOf(k).type = type}}
  IN \A db \in {shm, disk} : \A i \in DOMAIN db.log :
       /\ db.log[i].start \in times("START")
       /\ ~db.log[i].open => db.log[i].end \in times("STOP")
       /\ \A j \in DOMAIN db.log \ {i} :
            /\ db.log[i].start # db.log[j].start
            /\ ~db.log[i].open /\ ~db.log[j].open => db.log[i].end # db.log[j].end

\* The backup has the parking that begins with event n and ends with the next
\* one, at the lot nearest to where it began and with that lot's price.
Recorded(n) ==
  LET begin == RequestOf(n)
      over  == RequestOf(n + 1)
  IN \E i \in DOMAIN disk.log :
       LET s == disk.log[i] IN
       /\ s.cust = begin.cust /\ s.start = begin.time
       /\ s.lot \in ClosestUpTo(FirstDisk, begin.place, Len(FirstDisk.lots))
       /\ ~s.open /\ s.end = over.time
       /\ s.total = calculatePrice(FirstDisk, over.time - begin.time, s.lot)

\* The k-th and the next request handled were a START and its STOP, and both
\* said where: without a lot near it a STOP ends no session either.
ParkingAt(k) ==
  /\ k + 1 \in DOMAIN handled
  /\ handled[k + 1][2] = handled[k][2] + 1
  /\ RequestOf(handled[k][2]).type = "START"
  /\ RequestOf(handled[k + 1][2]).type = "STOP"
  /\ Nowhere \notin {RequestOf(handled[k][2]).place, RequestOf(handled[k + 1][2]).place}

\* While the vehicle's first connection lasts, each parking whose START and
\* STOP came through is recorded as it was, whatever was lost of others.
ParkingsRecorded ==
  conns = 1 => \A k \in DOMAIN handled : ParkingAt(k) => Recorded(handled[k][2])

(* Liveness                                                                *)

\* A START that was written to a connection is in the backup in the end,
\* unless it is nowhere or one end of that connection dies first.
StartsReachBackup ==
  \A n \in {k \in DOMAIN Events : RequestOf(k).type = "START"
                                   /\ RequestOf(k).place # Nowhere}, t \in Threads :
    <<t, n>> \in written
      ~> \/ \E i \in DOMAIN disk.log : disk.log[i].start = RequestOf(n).time
         \/ client[t] = "broken" \/ ~alive[t]

(* What a document says and the code does not do (see README.md)           *)

\* README.md:63, "logs the event, and calculates parking duration and price":
\* at least of parkings that were handled in the order they happened in.
InOrderRecorded ==
  (\A k \in DOMAIN handled : handled[k][2] = k)
    => \A k \in DOMAIN handled : ParkingAt(k) => Recorded(handled[k][2])
=============================================================================
