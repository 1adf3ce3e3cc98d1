----------------------------- MODULE VehicleLink -----------------------------
(***************************************************************************)
(* The way of a parking event from the board of a vehicle to the server:   *)
(* the I2C bus, the I2C process and the Ethernet process of the vehicle's  *)
(* daemon (BBG/Src/i2c_process.c, eth_process.c) with the pipe between     *)
(* them (main.c), TCP connections, and a handler thread of the server for  *)
(* each connection (server/Src/server.cpp).                                *)
(*                                                                         *)
(* Event n is the n-th message of the board.  A TCP connection is the      *)
(* sequence of events that were written to it and not yet received; a      *)
(* write of 17 bytes either enters the sender's buffer whole or fails, and *)
(* when a connection breaks, what it holds is lost from some point on.     *)
(* A part of a message that arrives is thrown away with its connection.    *)
(* A process of the daemon that dies alone takes no more steps; when the   *)
(* daemon is restarted, what its processes and their pipe held is gone.    *)
(***************************************************************************)
EXTENDS GpsMsg, Sequences, FiniteSets

CONSTANTS
  Events,      (* what the board sends, one message after the other        *)
  ClockLag,    (* how far the daemon's clock may be ahead of the board's   *)
  PipeSize,    (* events the pipe holds                                    *)
  MaxConns,    (* bound: connections; nothing breaks the last one          *)
  MaxRestarts  (* bound: restarts of the daemon                            *)

ASSUME VehicleLinkAssumption ==
  /\ Events \in Seq(GpsMessage)
  /\ ClockLag \subseteq Int
  /\ PipeSize \in Nat \ {0}
  /\ MaxConns \in Nat \ {0}
  /\ MaxRestarts \in Nat

VARIABLES
  sent,        (* events the board has put on the bus                      *)
  bus,         (* the event it offers to the I2C master, 0 for none        *)
  i2c,         (* the event the I2C process is writing to the pipe, or 0   *)
  pipe,
  eth,         (* the event the Ethernet process is sending, or 0          *)
  written,     (* <<connection, event>>: the writes that succeeded         *)
  sockfd,      (* its connection, 0 for the -1 of the code                 *)
  restarts,    (* times the daemon was restarted                           *)
  conns,       (* connections made so far                                  *)
  client,      (* client[c]: what the vehicle knows of connection c        *)
  wire,        (* wire[c]: events written to c and not yet received        *)
  server,      (* is the server process up?                                *)
  alive,       (* alive[c]: does connection c have its handler thread?     *)
  thread,      (* thread[c]: the event it is handling, 0 when in recv      *)
  handled      (* <<connection, event>> in the order handle_request ran    *)

vars == <<sent, bus, i2c, pipe, eth, written, sockfd, restarts, conns, client,
          wire, server, alive, thread, handled>>

daemon == <<sent, bus, i2c, pipe, eth, written, sockfd, restarts>>
net    == <<conns, client, wire>>
served == <<server, alive, thread, handled>>

Conns == 1 .. MaxConns

EventIds == 1 .. Len(Events)

TypeOK ==
  /\ sent \in 0 .. Len(Events)
  /\ bus \in EventIds \cup {0}
  /\ i2c \in EventIds \cup {0}
  /\ pipe \in Seq(EventIds) /\ Len(pipe) <= PipeSize
  /\ eth \in EventIds \cup {0}
  /\ written \subseteq Conns \X EventIds
  /\ sockfd \in Conns \cup {0}
  /\ restarts \in 0 .. MaxRestarts
  /\ conns \in Conns \cup {0}
  /\ client \in [Conns -> {"none", "open", "broken"}]
  /\ wire \in [Conns -> Seq(EventIds)]
  /\ server \in BOOLEAN
  /\ alive \in [Conns -> BOOLEAN]
  /\ thread \in [Conns -> EventIds \cup {0}]
  /\ handled \in Seq(Conns \X EventIds)

Init ==
  /\ sent = 0 /\ bus = 0 /\ i2c = 0 /\ pipe = <<>>
  /\ eth = 0 /\ written = {} /\ sockfd = 0
  /\ restarts = 0 /\ conns = 0
  /\ client = [c \in Conns |-> "none"]
  /\ wire = [c \in Conns |-> <<>>]
  /\ server = FALSE
  /\ alive = [c \in Conns |-> FALSE]
  /\ thread = [c \in Conns |-> 0]
  /\ handled = <<>>

-----------------------------------------------------------------------------
(* The board and the I2C process                                           *)

\* HAL_I2C_Slave_Transmit offers the board's next message.
Offer ==
  /\ bus = 0 /\ sent < Len(Events)
  /\ sent' = sent + 1 /\ bus' = sent + 1
  /\ UNCHANGED <<i2c, pipe, eth, written, sockfd, restarts, net, served>>

\* The master does not read it for a second, or its transfer fails or falls
\* short: the message is dropped, by the board or by the I2C process.
Expire ==
  /\ bus # 0
  /\ bus' = 0
  /\ UNCHANGED <<sent, i2c, pipe, eth, written, sockfd, restarts, net, served>>

\* run_i2c_process reads a message, and keeps a valid START or STOP.  The
\* daemon's clock need not agree with the board's.
I2CRead ==
  /\ i2c = 0 /\ bus # 0
  /\ \E lag \in ClockLag :
       i2c' = IF Forwarded(Events[bus], Events[bus].utc_sec + lag) THEN bus ELSE 0
  /\ bus' = 0
  /\ UNCHANGED <<sent, pipe, eth, written, sockfd, restarts, net, served>>

\* Mutant: the event stays with the process and is written again.
I2CWrite_again ==
  /\ i2c # 0 /\ Len(pipe) < PipeSize
  /\ pipe' = Append(pipe, i2c)
  /\ UNCHANGED <<sent, bus, i2c, eth, written, sockfd, restarts, net, served>>

\* Mutant: the write does not wait for room.
I2CWrite_noWait ==
  /\ i2c # 0
  /\ pipe' = Append(pipe, i2c)
  /\ i2c' = 0
  /\ UNCHANGED <<sent, bus, eth, written, sockfd, restarts, net, served>>

\* Its write to the pipe blocks while the pipe is full.
I2CWrite ==
  /\ i2c # 0 /\ Len(pipe) < PipeSize
  /\ pipe' = Append(pipe, i2c)
  /\ i2c' = 0
  /\ UNCHANGED <<sent, bus, eth, written, sockfd, restarts, net, served>>

-----------------------------------------------------------------------------
(* The Ethernet process                                                    *)

EthRead ==
  /\ eth = 0 /\ pipe # <<>>
  /\ eth' = Head(pipe)
  /\ pipe' = Tail(pipe)
  /\ UNCHANGED <<sent, bus, i2c, written, sockfd, restarts, net, served>>

\* connect_to_server, and the server's accept, which starts a thread.  When
\* the server is down the process sleeps and tries again: nothing changes.
Connect ==
  /\ eth # 0 /\ sockfd = 0
  /\ server /\ conns < MaxConns
  /\ conns' = conns + 1
  /\ sockfd' = conns + 1
  /\ client' = [client EXCEPT ![conns + 1] = "open"]
  /\ alive' = [alive EXCEPT ![conns + 1] = TRUE]
  /\ UNCHANGED <<sent, bus, i2c, pipe, eth, written, restarts, wire, server,
                 thread, handled>>

\* Mutant: a write that falls short is taken for a success, and what the
\* server has of the message never completes.
Write_short ==
  /\ eth # 0 /\ sockfd # 0
  /\ client[sockfd] = "open"
  /\ written' = written \cup {<<sockfd, eth>>}
  /\ eth' = 0
  /\ UNCHANGED <<sent, bus, i2c, pipe, sockfd, restarts, net, served>>

\* write succeeds; when the server's end is closed and the vehicle has not
\* heard of it, the bytes go nowhere.
Write ==
  /\ eth # 0 /\ sockfd # 0
  /\ client[sockfd] = "open"
  /\ wire' = [wire EXCEPT ![sockfd] =
                IF alive[sockfd] THEN Append(@, eth) ELSE @]
  /\ written' = written \cup {<<sockfd, eth>>}
  /\ eth' = 0
  /\ UNCHANGED <<sent, bus, i2c, pipe, sockfd, restarts, conns, client, served>>

\* Mutant: the event is given up with the connection.
WriteFails_givesUp ==
  /\ eth # 0 /\ sockfd # 0
  /\ client[sockfd] = "broken"
  /\ sockfd' = 0 /\ eth' = 0
  /\ UNCHANGED <<sent, bus, i2c, pipe, written, restarts, net, served>>

\* write fails: the socket is closed, the event kept.
WriteFails ==
  /\ eth # 0 /\ sockfd # 0
  /\ client[sockfd] = "broken"
  /\ sockfd' = 0
  /\ UNCHANGED <<sent, bus, i2c, pipe, eth, written, restarts, net, served>>

\* The daemon dies with its processes and is started again.  Its kernel ends
\* the connection, after what was written to it.
DaemonRestart ==
  /\ restarts < MaxRestarts /\ conns < MaxConns
  /\ restarts' = restarts + 1
  /\ i2c' = 0 /\ pipe' = <<>> /\ eth' = 0 /\ sockfd' = 0
  /\ UNCHANGED <<sent, bus, written, net, served>>

-----------------------------------------------------------------------------
(* The server: one thread per connection                                   *)

\* Mutant: the newest message is taken first.
Recv_newest(c) ==
  /\ alive[c] /\ thread[c] = 0 /\ wire[c] # <<>>
  /\ thread' = [thread EXCEPT ![c] = wire[c][Len(wire[c])]]
  /\ wire' = [wire EXCEPT ![c] = SubSeq(@, 1, Len(@) - 1)]
  /\ UNCHANGED <<daemon, conns, client, server, alive, handled>>

\* Mutant: what was left of an earlier message eats the next one.
Recv_skips(c) ==
  /\ alive[c] /\ thread[c] = 0 /\ wire[c] # <<>>
  /\ \E n \in {1, Len(wire[c])} :
       /\ thread' = [thread EXCEPT ![c] = wire[c][n]]
       /\ wire' = [wire EXCEPT ![c] = SubSeq(@, n + 1, Len(@))]
  /\ UNCHANGED <<daemon, conns, client, server, alive, handled>>

\* recv_request
Recv(c) ==
  /\ alive[c] /\ thread[c] = 0 /\ wire[c] # <<>>
  /\ thread' = [thread EXCEPT ![c] = Head(wire[c])]
  /\ wire' = [wire EXCEPT ![c] = Tail(@)]
  /\ UNCHANGED <<daemon, conns, client, server, alive, handled>>

Handle(c) ==
  /\ thread[c] # 0
  /\ handled' = Append(handled, <<c, thread[c]>>)
  /\ thread' = [thread EXCEPT ![c] = 0]
  /\ UNCHANGED <<daemon, net, server, alive>>

\* Nothing came for a minute, or the vehicle closed the connection: the
\* thread closes its end; what is still under way to it is lost.
EndThread(c) ==
  /\ alive[c] /\ thread[c] = 0
  /\ c < MaxConns
  /\ alive' = [alive EXCEPT ![c] = FALSE]
  /\ wire' = [wire EXCEPT ![c] = <<>>]
  /\ UNCHANGED <<daemon, conns, client, server, thread, handled>>

Start ==
  /\ ~server
  /\ server' = TRUE
  /\ UNCHANGED <<daemon, net, alive, thread, handled>>

\* The server dies with its threads; its kernel forgets its connections.
Crash ==
  /\ server /\ conns < MaxConns
  /\ server' = FALSE
  /\ alive' = [c \in Conns |-> FALSE]
  /\ thread' = [c \in Conns |-> 0]
  /\ wire' = [c \in Conns |-> <<>>]
  /\ UNCHANGED <<daemon, conns, client, handled>>

-----------------------------------------------------------------------------
(* The network                                                             *)

\* The vehicle's kernel learns that connection c is dead: from a reset, or
\* because nothing is acknowledged any more.  In the second case the server
\* has received the events up to some point and its thread goes on.
Break(c) ==
  /\ client[c] = "open" /\ c < MaxConns
  /\ client' = [client EXCEPT ![c] = "broken"]
  /\ \E n \in 0 .. Len(wire[c]) : wire' = [wire EXCEPT ![c] = SubSeq(@, 1, n)]
  /\ UNCHANGED <<daemon, conns, served>>

-----------------------------------------------------------------------------
Next ==
  \/ Offer \/ Expire
  \/ I2CRead \/ I2CWrite \/ EthRead \/ Connect \/ Write \/ WriteFails
  \/ DaemonRestart
  \/ \E c \in Conns : Recv(c) \/ Handle(c) \/ EndThread(c) \/ Break(c)
  \/ Start \/ Crash

Spec == Init /\ [][Next]_vars

Eth == EthRead \/ Write \/ WriteFails

Thread(c) == Recv(c) \/ Handle(c)

\* The kernels schedule the vehicle's processes and the server's threads,
\* somebody starts the server again when it has died, and at some time it
\* stays up long enough to meet one of the vehicle's attempts to connect.
FairSpec ==
  /\ Spec
  /\ WF_vars(I2CWrite) /\ WF_vars(Eth) /\ SF_vars(Connect)
  /\ WF_vars(Start)
  /\ \A c \in Conns : WF_vars(Thread(c))

-----------------------------------------------------------------------------
(* Safety                                                                  *)

\* Where event n is: copies of it between the board and handle_request.
InPipe(n) == {k \in DOMAIN pipe : pipe[k] = n}
OnWire(n) == UNION {{c} \X {k \in DOMAIN wire[c] : wire[c][k] = n} : c \in Conns}
InHand(n) == {c \in Conns : thread[c] = n}
Done(n)   == {k \in DOMAIN handled : handled[k][2] = n}

\* Connections on which event n arrived or still may.
Arrives(n) == {c \in Conns : \/ \E k \in DOMAIN wire[c] : wire[c][k] = n
                             \/ thread[c] = n
                             \/ \E k \in Done(n) : handled[k][1] = c}

\* However often connections break and writes are repeated, there is never
\* a second copy of an event: the server handles it at most once.
AtMostOnce ==
  \A n \in EventIds :
    Cardinality(InPipe(n)) + Cardinality(OnWire(n)) + Cardinality(InHand(n))
      + Cardinality(Done(n)) + (IF bus = n THEN 1 ELSE 0)
      + (IF i2c = n THEN 1 ELSE 0) + (IF eth = n THEN 1 ELSE 0) <= 1

\* An event overtakes an earlier one only on a newer connection: while one
\* connection lasts, STARTs and STOPs are handled as they happened.
OvertakesOnNewConnection ==
  \A j, k \in DOMAIN handled :
    j < k /\ handled[j][2] > handled[k][2] => handled[j][1] > handled[k][1]

\* Of what was written to a connection a first part arrives: no event is
\* lost and a later one of the same connection handled.
ArrivesInFull ==
  \A e, f \in written :
    e[1] = f[1] /\ e[2] < f[2] /\ e[1] \in Arrives(f[2]) => e[1] \in Arrives(e[2])

\* The server checks nothing but the type: what it handles has a full
\* license number, is of its time and not outside the area, because the I2C
\* process let nothing else into the pipe.  It may be nowhere, though: a
\* coordinate that is NaN is not outside.
OnlyValidHandled ==
  \A k \in DOMAIN handled :
    LET m == Events[handled[k][2]] IN
    /\ m.msg_type \in {MSGT_START, MSGT_STOP}
    /\ m.license_id >= MIN_LICENSE /\ m.utc_sec >= MIN_UTC
    /\ m.latitude # NaN => m.latitude \in LAT_MIN .. LAT_MAX
    /\ m.longitude # NaN => m.longitude \in LON_MIN .. LON_MAX

(* What a comment says and the code does not do (see README.md)            *)

\* eth_process.c:65, "Send message to server with infinite retries": an
\* event is given up by nobody, the server has it or will.
NothingIsLost == \A e \in written : e[1] \in Arrives(e[2])

(* Liveness                                                                *)

\* An event that is in the pipe is written to a connection in the end, and
\* the ones behind it get their turn: the retries do not go on for ever.
\* Only a restart of the daemon may come in between.
EventuallyWritten ==
  \A n \in EventIds, r \in 0 .. MaxRestarts :
    InPipe(n) # {} /\ restarts = r
      ~> (\E c \in Conns : <<c, n>> \in written) \/ restarts # r

\* What was written to a connection is handled by the server, unless one end
\* of the connection dies first.
EventuallyHandled ==
  \A c \in Conns, n \in EventIds :
    <<c, n>> \in written
      ~> Done(n) # {} \/ client[c] = "broken" \/ ~alive[c]
=============================================================================
