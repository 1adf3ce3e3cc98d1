--------------------------- MODULE VehicleLink_proof ---------------------------
(***************************************************************************)
(* The way of an event to the server, for any events and clocks, any size  *)
(* of the pipe and any number of connections and restarts: nothing is ever *)
(* doubled, put in another order on one connection or lost from the middle *)
(* of it, and what the server handles has been checked.                    *)
(*                                                                         *)
(* The argument: numbers grow from the server to the board, whatever takes *)
(* a message a step on takes it into a gap, and a connection that lost     *)
(* something has lost the end of what was written to it.                   *)
(***************************************************************************)
EXTENDS VehicleLink, SequenceTheorems, FiniteSetTheorems, TLAPS

-----------------------------------------------------------------------------
(* Increasing sequences                                                    *)

Members(s)    == {s[k] : k \in DOMAIN s}
Below(S, x)   == \A m \in S : m < x
Increasing(s) == \A j, k \in DOMAIN s : j < k => s[j] < s[k]

LEMMA EmptyIncreases == Members(<<>>) = {} /\ Increasing(<<>>)
  BY DEF Members, Increasing

LEMMA AppendMembers ==
  ASSUME NEW T, NEW s \in Seq(T), NEW x \in T
  PROVE  Members(Append(s, x)) = Members(s) \cup {x}
<1>1. /\ DOMAIN s = 1 .. Len(s) /\ Len(s) \in Nat
      /\ DOMAIN Append(s, x) = 1 .. Len(s) + 1
      /\ \A k \in 1 .. Len(s) : Append(s, x)[k] = s[k]
      /\ Append(s, x)[Len(s) + 1] = x
  BY AppendProperties, LenProperties
<1> QED
  BY <1>1 DEF Members

LEMMA AppendIncreases ==
  ASSUME NEW s \in Seq(Nat), NEW x \in Nat, Increasing(s), Below(Members(s), x)
  PROVE  Increasing(Append(s, x))
<1>1. /\ DOMAIN s = 1 .. Len(s) /\ Len(s) \in Nat
      /\ DOMAIN Append(s, x) = 1 .. Len(s) + 1
      /\ \A k \in 1 .. Len(s) : Append(s, x)[k] = s[k]
      /\ Append(s, x)[Len(s) + 1] = x
  BY AppendProperties, LenProperties
<1>2. \A k \in 1 .. Len(s) : s[k] < x
  BY <1>1 DEF Below, Members
<1> QED
  BY <1>1, <1>2 DEF Increasing

LEMMA TailMembers ==
  ASSUME NEW T, NEW s \in Seq(T), s # <<>>
  PROVE  Members(s) = {Head(s)} \cup Members(Tail(s)) /\ Head(s) \in T
<1>1. /\ DOMAIN s = 1 .. Len(s) /\ Len(s) \in Nat /\ Len(s) # 0
      /\ DOMAIN Tail(s) = 1 .. Len(s) - 1
      /\ \A k \in 1 .. Len(s) - 1 : Tail(s)[k] = s[k + 1]
      /\ Head(s) = s[1] /\ Head(s) \in T
  BY HeadTailProperties, LenProperties, EmptySeq
<1>2. ASSUME NEW k \in 1 .. Len(s), k # 1
      PROVE  k - 1 \in 1 .. Len(s) - 1 /\ Tail(s)[k - 1] = s[k]
  <2>1. k - 1 \in 1 .. Len(s) - 1 /\ (k - 1) + 1 = k
    BY <1>1, <1>2
  <2> QED BY <1>1, <2>1
<1>3. ASSUME NEW y \in Members(s)
      PROVE  y \in {Head(s)} \cup Members(Tail(s))
  <2>1. PICK k \in 1 .. Len(s) : y = s[k]
    BY <1>1 DEF Members
  <2>2. CASE k = 1
    BY <1>1, <2>1, <2>2
  <2>3. CASE k # 1
    BY <1>1, <1>2, <2>1, <2>3 DEF Members
  <2> QED BY <2>2, <2>3
<1>4. ASSUME NEW y \in Members(Tail(s))
      PROVE  y \in Members(s)
  <2>1. PICK k \in 1 .. Len(s) - 1 : y = s[k + 1]
    BY <1>1 DEF Members
  <2>2. k + 1 \in 1 .. Len(s)
    BY <1>1
  <2> QED BY <1>1, <2>1, <2>2 DEF Members
<1>5. Head(s) \in Members(s)
  <2>1. 1 \in 1 .. Len(s)
    BY <1>1
  <2> QED BY <1>1, <2>1 DEF Members
<1> QED
  BY <1>1, <1>3, <1>4, <1>5

LEMMA TailIncreases ==
  ASSUME NEW s \in Seq(Nat), s # <<>>, Increasing(s)
  PROVE  Increasing(Tail(s)) /\ \A m \in Members(Tail(s)) : Head(s) < m
<1>1. /\ DOMAIN s = 1 .. Len(s) /\ Len(s) \in Nat /\ Len(s) # 0
      /\ DOMAIN Tail(s) = 1 .. Len(s) - 1
      /\ \A k \in 1 .. Len(s) - 1 : Tail(s)[k] = s[k + 1]
      /\ Head(s) = s[1]
  BY HeadTailProperties, LenProperties, EmptySeq
<1>2. Increasing(Tail(s))
  <2> DEFINE t == Tail(s)
  <2> HIDE DEF t
  <2>1. ASSUME NEW j \in DOMAIN t, NEW k \in DOMAIN t, j < k PROVE t[j] < t[k]
    <3>1. t[j] = s[j + 1] /\ t[k] = s[k + 1] /\ j + 1 < k + 1
      BY <1>1, <2>1 DEF t
    <3>2. j + 1 \in DOMAIN s /\ k + 1 \in DOMAIN s
      BY <1>1 DEF t
    <3> QED BY <3>1, <3>2 DEF Increasing
  <2> QED BY <2>1 DEF Increasing, t
<1>3. \A k \in 1 .. Len(s) - 1 : s[1] < s[k + 1]
  BY <1>1 DEF Increasing
<1> QED
  BY <1>1, <1>2, <1>3 DEF Members

(* A first part has lost only what is behind all of it.                    *)
LEMMA PrefixIncreases ==
  ASSUME NEW s \in Seq(Nat), NEW n \in 0 .. Len(s), Increasing(s)
  PROVE  /\ Increasing(SubSeq(s, 1, n))
         /\ Members(SubSeq(s, 1, n)) \subseteq Members(s)
         /\ \A x \in Members(SubSeq(s, 1, n)),
               y \in Members(s) \ Members(SubSeq(s, 1, n)) : x < y
<1> DEFINE t == SubSeq(s, 1, n)
<1>1. /\ DOMAIN s = 1 .. Len(s) /\ Len(s) \in Nat /\ n \in Nat
      /\ DOMAIN t = 1 .. n
      /\ \A k \in 1 .. n : t[k] = s[k]
  <2>1. DOMAIN s = 1 .. Len(s) /\ Len(s) \in Nat
    BY LenProperties
  <2> QED BY <2>1, SubSeqProperties
<1>2. Increasing(t) /\ Members(t) \subseteq Members(s)
  <2> HIDE DEF t
  <2> QED BY <1>1 DEF Increasing, Members
<1>3. ASSUME NEW x \in Members(t), NEW y \in Members(s) \ Members(t)
      PROVE  x < y
  <2> HIDE DEF t
  <2>1. PICK j \in 1 .. n : x = s[j]
    BY <1>1 DEF Members
  <2>2. PICK k \in 1 .. Len(s) : y = s[k]
    BY <1>1 DEF Members
  <2>3. ~ (k \in 1 .. n)
    BY <1>1, <2>2 DEF Members
  <2>4. j < k /\ j \in DOMAIN s /\ k \in DOMAIN s
    BY <1>1, <2>3
  <2> QED BY <2>1, <2>2, <2>4 DEF Increasing
<1> QED
  BY <1>2, <1>3

-----------------------------------------------------------------------------
(* The invariant                                                           *)

WrittenEvents == {w[2] : w \in written}

\* From the connections back to the board the numbers grow.
Upstream ==
  /\ \A m \in {bus, i2c, eth} \cup Members(pipe) \cup WrittenEvents : m <= sent
  /\ Increasing(pipe)
  /\ bus # 0 => Below({i2c, eth} \cup Members(pipe) \cup WrittenEvents, bus)
  /\ i2c # 0 => Below({eth} \cup Members(pipe) \cup WrittenEvents, i2c)
  /\ \A m \in Members(pipe) : Below({eth} \cup WrittenEvents, m)
  /\ eth # 0 => Below(WrittenEvents, eth)

\* An event is written to one connection, a later one to no older connection.
Sockets ==
  /\ sockfd # 0 => sockfd = conns
  /\ \A w \in written : w[1] <= conns
  /\ \A v, w \in written : /\ v[2] = w[2] => v[1] = w[1]
                           /\ v[2] < w[2] => v[1] <= w[1]

\* On a connection the numbers grow from handle_request to the vehicle.
WireFits ==
  \A c \in Conns :
    /\ Increasing(wire[c])
    /\ \A n \in Members(wire[c]) : <<c, n>> \in written
    /\ thread[c] # 0 =>
         <<c, thread[c]>> \in written /\ \A n \in Members(wire[c]) : thread[c] < n

HandledFits ==
  \A h \in Members(handled) :
    /\ h \in written
    /\ thread[h[1]] # 0 => h[2] < thread[h[1]]
    /\ \A n \in Members(wire[h[1]]) : h[2] < n

HandledInOrder ==
  \A j, k \in DOMAIN handled :
    j < k /\ handled[j][1] = handled[k][1] => handled[j][2] < handled[k][2]

Downstream == WireFits /\ HandledFits /\ HandledInOrder

\* <<connection, event>>: what has reached the server or is on its way.
Arrivals ==
  {e \in Conns \X EventIds :
     e[2] \in Members(wire[e[1]]) \/ thread[e[1]] = e[2] \/ e \in Members(handled)}

\* As long as nothing broke a connection it has lost nothing.
Complete ==
  /\ \A e \in written : client[e[1]] = "open" /\ alive[e[1]] => e \in Arrivals
  /\ \A e, f \in written :
       e[1] = f[1] /\ e[2] < f[2] /\ f \in Arrivals => e \in Arrivals

\* Behind the I2C process there are valid events alone.
ValidEvent(n) ==
  /\ Events[n].msg_type \in {MSGT_START, MSGT_STOP}
  /\ Events[n].license_id >= MIN_LICENSE /\ Events[n].utc_sec >= MIN_UTC
  /\ Events[n].latitude # NaN => Events[n].latitude \in LAT_MIN .. LAT_MAX
  /\ Events[n].longitude # NaN => Events[n].longitude \in LON_MIN .. LON_MAX

Checked ==
  \A n \in ({i2c, eth} \ {0}) \cup Members(pipe) \cup WrittenEvents : ValidEvent(n)

LinkInv == TypeOK /\ Upstream /\ Sockets /\ Downstream /\ Complete /\ Checked

USE DEF daemon, net, served

LEMMA Sizes ==
  /\ Len(Events) \in Nat /\ PipeSize \in Nat \ {0}
  /\ MaxConns \in Nat \ {0} /\ MaxRestarts \in Nat
  /\ EventIds = 1 .. Len(Events) /\ Conns = 1 .. MaxConns
  BY VehicleLinkAssumption, LenProperties DEF EventIds, Conns

-----------------------------------------------------------------------------
(* Types                                                                   *)

LEMMA TypeStep ==
  ASSUME TypeOK, [Next]_vars
  PROVE  TypeOK'
<1> USE DEF TypeOK
<1>1. CASE Offer
  <2>1. bus' \in EventIds \cup {0} /\ sent' \in 0 .. Len(Events)
    BY <1>1, Sizes DEF Offer
  <2> QED BY <1>1, <2>1 DEF Offer
<1>2. CASE Expire
  BY <1>2 DEF Expire
<1>3. CASE I2CRead
  <2>1. i2c' \in EventIds \cup {0}
    BY <1>3 DEF I2CRead
  <2> QED BY <1>3, <2>1 DEF I2CRead
<1>4. CASE I2CWrite
  <2>1. pipe' \in Seq(EventIds) /\ Len(pipe') = Len(pipe) + 1
    BY <1>4, AppendProperties DEF I2CWrite
  <2>2. Len(pipe') <= PipeSize
    BY <1>4, <2>1, Sizes, LenProperties DEF I2CWrite
  <2> QED BY <1>4, <2>1, <2>2 DEF I2CWrite
<1>5. CASE EthRead
  <2>1. pipe' \in Seq(EventIds) /\ Len(pipe') = Len(pipe) - 1 /\ eth' \in EventIds
    BY <1>5, HeadTailProperties DEF EthRead
  <2>2. Len(pipe') <= PipeSize
    BY <2>1, Sizes, LenProperties
  <2> QED BY <1>5, <2>1, <2>2 DEF EthRead
<1>6. CASE Connect
  <2>1. conns + 1 \in Conns
    BY <1>6, Sizes DEF Connect
  <2> QED BY <1>6, <2>1 DEF Connect
<1>7. CASE Write
  <2>1. sockfd \in Conns /\ eth \in EventIds
    BY <1>7 DEF Write
  <2>2. wire' \in [Conns -> Seq(EventIds)]
    BY <1>7, <2>1, AppendProperties DEF Write
  <2>3. written' \subseteq Conns \X EventIds
    BY <1>7, <2>1 DEF Write
  <2> QED BY <1>7, <2>2, <2>3 DEF Write
<1>8. CASE WriteFails
  BY <1>8 DEF WriteFails
<1>9. CASE DaemonRestart
  <2>1. <<>> \in Seq(EventIds) /\ Len(<<>>) <= PipeSize
    BY Sizes
  <2>2. restarts + 1 \in 0 .. MaxRestarts
    BY <1>9, Sizes DEF DaemonRestart
  <2> QED BY <1>9, <2>1, <2>2 DEF DaemonRestart
<1>10. ASSUME NEW c \in Conns, Recv(c)
       PROVE  TypeOK'
  <2>1. Head(wire[c]) \in EventIds /\ Tail(wire[c]) \in Seq(EventIds)
    BY <1>10, HeadTailProperties DEF Recv
  <2> QED BY <1>10, <2>1 DEF Recv
<1>11. ASSUME NEW c \in Conns, Handle(c)
       PROVE  TypeOK'
  <2>1. <<c, thread[c]>> \in Conns \X EventIds
    BY <1>11 DEF Handle
  <2>2. handled' \in Seq(Conns \X EventIds)
    BY <1>11, <2>1, AppendProperties DEF Handle
  <2> QED BY <1>11, <2>2 DEF Handle
<1>12. ASSUME NEW c \in Conns, EndThread(c)
       PROVE  TypeOK'
  <2>1. <<>> \in Seq(EventIds)
    OBVIOUS
  <2> QED BY <1>12, <2>1 DEF EndThread
<1>13. ASSUME NEW c \in Conns, Break(c)
       PROVE  TypeOK'
  <2>1. PICK n \in 0 .. Len(wire[c]) : wire' = [wire EXCEPT ![c] = SubSeq(@, 1, n)]
    BY <1>13 DEF Break
  <2>2. SubSeq(wire[c], 1, n) \in Seq(EventIds)
    <3>1. \A k \in 1 .. n : k \in 1 .. Len(wire[c])
      BY <2>1, LenProperties
    <3>2. \A k \in 1 .. n : wire[c][k] \in EventIds
      BY <3>1, ElementOfSeq
    <3> QED BY <2>1, <3>2, SubSeqProperties, LenProperties
  <2> QED BY <1>13, <2>1, <2>2 DEF Break
<1>14. CASE Start
  BY <1>14 DEF Start
<1>15. CASE Crash
  <2>1. <<>> \in Seq(EventIds)
    OBVIOUS
  <2> QED BY <1>15, <2>1 DEF Crash
<1>16. CASE UNCHANGED vars
  BY <1>16 DEF vars
<1> HIDE DEF TypeOK
<1> QED
  BY <1>1, <1>2, <1>3, <1>4, <1>5, <1>6, <1>7, <1>8, <1>9, <1>10, <1>11, <1>12,
     <1>13, <1>14, <1>15, <1>16 DEF Next

-----------------------------------------------------------------------------
(* From the board to the connections                                       *)

LEMMA EventNumbers ==
  /\ EventIds \subseteq Nat /\ 0 \notin EventIds
  /\ Seq(EventIds) \subseteq Seq(Nat)
<1>1. EventIds \subseteq Nat /\ 0 \notin EventIds
  BY Sizes
<1>2. Seq(EventIds) \subseteq Seq(Nat)
  BY <1>1, SeqMonotonic
<1> QED
  BY <1>1, <1>2

LEMMA Numbers ==
  ASSUME TypeOK
  PROVE  /\ sent \in Nat /\ bus \in Nat /\ i2c \in Nat /\ eth \in Nat
         /\ pipe \in Seq(Nat) /\ Members(pipe) \subseteq Nat \ {0}
         /\ WrittenEvents \subseteq Nat \ {0}
         /\ conns \in Nat /\ sockfd \in Nat
         /\ \A w \in written : w[1] \in Conns /\ w[2] \in EventIds /\ w = <<w[1], w[2]>>
<1>1. sent \in Nat /\ bus \in Nat /\ i2c \in Nat /\ eth \in Nat
      /\ conns \in Nat /\ sockfd \in Nat
  BY Sizes, EventNumbers DEF TypeOK
<1>2. pipe \in Seq(Nat) /\ Members(pipe) \subseteq Nat \ {0}
  <2>1. \A k \in DOMAIN pipe : pipe[k] \in EventIds
    BY ElementOfSeq, LenProperties DEF TypeOK
  <2> QED BY <2>1, EventNumbers DEF TypeOK, Members
<1>3. \A w \in written : w[1] \in Conns /\ w[2] \in EventIds /\ w = <<w[1], w[2]>>
  BY DEF TypeOK
<1>4. WrittenEvents \subseteq Nat \ {0}
  BY <1>3, EventNumbers DEF WrittenEvents
<1> QED
  BY <1>1, <1>2, <1>3, <1>4

(* What the steps do to the pipe and to what was written.                  *)
LEMMA PipeSteps ==
  ASSUME TypeOK, Upstream
  PROVE  /\ I2CWrite => /\ Members(pipe') = Members(pipe) \cup {i2c}
                        /\ Increasing(pipe')
         /\ EthRead => /\ Members(pipe) = {eth'} \cup Members(pipe')
                       /\ Increasing(pipe') /\ \A m \in Members(pipe') : eth' < m
         /\ DaemonRestart => Members(pipe') = {} /\ Increasing(pipe')
         /\ Write => /\ WrittenEvents' = WrittenEvents \cup {eth}
                     /\ written' = written \cup {<<sockfd, eth>>}
<1>1. pipe \in Seq(Nat) /\ i2c \in Nat /\ Increasing(pipe)
  BY Numbers DEF Upstream
<1>2. ASSUME I2CWrite
      PROVE  Members(pipe') = Members(pipe) \cup {i2c} /\ Increasing(pipe')
  <2>1. Below(Members(pipe), i2c)
    BY <1>2 DEF I2CWrite, Upstream, Below
  <2>2. pipe' = Append(pipe, i2c)
    BY <1>2 DEF I2CWrite
  <2> QED BY <1>1, <2>1, <2>2, AppendMembers, AppendIncreases
<1>3. ASSUME EthRead
      PROVE  /\ Members(pipe) = {eth'} \cup Members(pipe')
             /\ Increasing(pipe') /\ \A m \in Members(pipe') : eth' < m
  <2>1. pipe # <<>> /\ eth' = Head(pipe) /\ pipe' = Tail(pipe)
    BY <1>3 DEF EthRead
  <2> QED BY <1>1, <2>1, TailMembers, TailIncreases
<1>4. ASSUME DaemonRestart
      PROVE  Members(pipe') = {} /\ Increasing(pipe')
  BY <1>4, EmptyIncreases DEF DaemonRestart
<1>5. ASSUME Write
      PROVE  /\ WrittenEvents' = WrittenEvents \cup {eth}
             /\ written' = written \cup {<<sockfd, eth>>}
  <2>1. written' = written \cup {<<sockfd, eth>>}
    BY <1>5 DEF Write
  <2>2. \A w \in written : w \in written'
    BY <2>1
  <2>3. <<sockfd, eth>> \in written' /\ <<sockfd, eth>>[2] = eth
    BY <2>1
  <2>4. WrittenEvents \cup {eth} \subseteq WrittenEvents'
    BY <2>2, <2>3 DEF WrittenEvents
  <2>5. ASSUME NEW w \in written'
        PROVE  w[2] \in WrittenEvents \cup {eth}
    BY <2>1 DEF WrittenEvents
  <2>6. WrittenEvents' \subseteq WrittenEvents \cup {eth}
    BY <2>5 DEF WrittenEvents
  <2> QED BY <2>1, <2>4, <2>6
<1> QED
  BY <1>2, <1>3, <1>4, <1>5

LEMMA UpstreamStep ==
  ASSUME TypeOK, Upstream, [Next]_vars
  PROVE  Upstream'
<1> USE DEF Upstream, Below
<1>0. /\ sent \in Nat /\ bus \in Nat /\ i2c \in Nat /\ eth \in Nat
      /\ Members(pipe) \subseteq Nat \ {0} /\ WrittenEvents \subseteq Nat \ {0}
  BY Numbers
<1>1. CASE Offer
  <2>1. Members(pipe') = Members(pipe) /\ WrittenEvents' = WrittenEvents
    BY <1>1 DEF Offer, WrittenEvents
  <2> QED BY <1>0, <1>1, <2>1 DEF Offer
<1>2. CASE Expire
  <2>1. Members(pipe') = Members(pipe) /\ WrittenEvents' = WrittenEvents
    BY <1>2 DEF Expire, WrittenEvents
  <2> QED BY <1>0, <1>2, <2>1 DEF Expire
<1>3. CASE I2CRead
  <2>1. Members(pipe') = Members(pipe) /\ WrittenEvents' = WrittenEvents
    BY <1>3 DEF I2CRead, WrittenEvents
  <2>2. i2c' \in {bus, 0} /\ bus # 0 /\ bus' = 0
    BY <1>3 DEF I2CRead
  <2> QED BY <1>0, <1>3, <2>1, <2>2 DEF I2CRead
<1>4. CASE I2CWrite
  <2>1. WrittenEvents' = WrittenEvents
    BY <1>4 DEF I2CWrite, WrittenEvents
  <2>2. Members(pipe') = Members(pipe) \cup {i2c} /\ Increasing(pipe')
    BY <1>4, PipeSteps
  <2>3. i2c # 0 /\ i2c' = 0 /\ UNCHANGED <<sent, bus, eth>>
    BY <1>4 DEF I2CWrite
  <2>4. \A m \in {eth} \cup WrittenEvents : m < i2c
    BY <2>3
  <2>5. \A m \in Members(pipe') : m <= sent /\ Below({eth} \cup WrittenEvents, m)
    BY <2>2, <2>4
  <2>6. bus # 0 => i2c < bus /\ 0 < bus
    BY <1>0
  <2>7. bus # 0 => Below({0, eth} \cup Members(pipe') \cup WrittenEvents, bus)
    BY <2>2, <2>6
  <2> QED BY <1>0, <2>1, <2>2, <2>3, <2>5, <2>7
<1>5. CASE EthRead
  <2>1. WrittenEvents' = WrittenEvents
    BY <1>5 DEF EthRead, WrittenEvents
  <2>2. /\ Members(pipe) = {eth'} \cup Members(pipe')
        /\ Increasing(pipe') /\ \A m \in Members(pipe') : eth' < m
    BY <1>5, PipeSteps
  <2>3. UNCHANGED <<sent, bus, i2c>>
    BY <1>5 DEF EthRead
  <2> QED BY <1>0, <2>1, <2>2, <2>3
<1>6. CASE Write
  <2>1. Members(pipe') = Members(pipe)
    BY <1>6 DEF Write
  <2> QED BY <1>0, <1>6, <2>1, PipeSteps DEF Write
<1>7. CASE DaemonRestart
  <2>1. WrittenEvents' = WrittenEvents
    BY <1>7 DEF DaemonRestart, WrittenEvents
  <2> QED BY <1>0, <1>7, <2>1, PipeSteps DEF DaemonRestart
<1>8. CASE UNCHANGED <<sent, bus, i2c, pipe, eth, written>>
  <2>1. WrittenEvents' = WrittenEvents
    BY <1>8 DEF WrittenEvents
  <2> QED BY <1>8, <2>1
<1> HIDE DEF Upstream
<1> QED
  BY <1>1, <1>2, <1>3, <1>4, <1>5, <1>6, <1>7, <1>8
     DEF Next, Connect, WriteFails, Recv, Handle, EndThread, Break, Start, Crash, vars

LEMMA SocketsStep ==
  ASSUME TypeOK, Upstream, Sockets, [Next]_vars
  PROVE  Sockets'
<1> USE DEF Sockets
<1>0. /\ conns \in Nat /\ sockfd \in Nat /\ eth \in Nat
      /\ \A w \in written : w[1] \in Nat /\ w[2] \in Nat
  BY Numbers, EventNumbers, Sizes
<1>1. CASE Connect
  BY <1>0, <1>1 DEF Connect
<1>2. CASE Write
  <2>1. written' = written \cup {<<sockfd, eth>>} /\ sockfd' = sockfd /\ conns' = conns
    BY <1>2 DEF Write
  <2>2. \A w \in written : w[1] <= sockfd /\ w[2] < eth
    BY <1>0, <1>2 DEF Write, Upstream, Below, WrittenEvents
  <2>3. sockfd = conns
    BY <1>2 DEF Write
  <2> QED BY <1>0, <2>1, <2>2, <2>3
<1>3. CASE WriteFails \/ DaemonRestart
  BY <1>3 DEF WriteFails, DaemonRestart
<1>4. CASE UNCHANGED <<written, sockfd, conns>>
  BY <1>4
<1> HIDE DEF Sockets
<1> QED
  BY <1>1, <1>2, <1>3, <1>4
     DEF Next, Offer, Expire, I2CRead, I2CWrite, EthRead, Recv, Handle, EndThread,
         Break, Start, Crash, vars

LEMMA CheckedStep ==
  ASSUME TypeOK, Upstream, Checked, [Next]_vars
  PROVE  Checked'
<1> USE DEF Checked
<1>1. CASE I2CRead
  <2>1. WrittenEvents' = WrittenEvents /\ pipe' = pipe /\ eth' = eth
    BY <1>1 DEF I2CRead, WrittenEvents
  <2>2. i2c' # 0 => ValidEvent(i2c')
    <3>1. PICK lag \in ClockLag :
            i2c' = IF Forwarded(Events[bus], Events[bus].utc_sec + lag) THEN bus ELSE 0
      BY <1>1 DEF I2CRead
    <3> SUFFICES ASSUME i2c' # 0 PROVE ValidEvent(bus) /\ i2c' = bus
      OBVIOUS
    <3> DEFINE m == Events[bus]
    <3>2. bus \in EventIds /\ i2c' = bus /\ Forwarded(m, m.utc_sec + lag)
      BY <1>1, <3>1 DEF I2CRead, TypeOK
    <3>3. m \in GpsMessage
      BY <3>2, VehicleLinkAssumption, Sizes
    <3> HIDE DEF m
    <3>4. m.latitude \in Int \cup {NaN} /\ m.longitude \in Int \cup {NaN}
      BY <3>3 DEF GpsMessage
    <3>5. LAT_MIN \in Int /\ LAT_MAX \in Int /\ LON_MIN \in Int /\ LON_MAX \in Int
      BY DEF LAT_MIN, LAT_MAX, LON_MIN, LON_MAX, Double, TenthDegree
    <3>6. /\ m.latitude # NaN => m.latitude \in LAT_MIN .. LAT_MAX
          /\ m.longitude # NaN => m.longitude \in LON_MIN .. LON_MAX
      BY <3>2, <3>4, <3>5
         DEF Forwarded, memcpy_validate, OutOfArea, LessThan, GreaterThan
    <3>7. /\ m.msg_type \in {MSGT_START, MSGT_STOP}
          /\ m.license_id >= MIN_LICENSE /\ m.utc_sec >= MIN_UTC
      BY <3>2 DEF Forwarded, memcpy_validate
    <3> QED BY <3>2, <3>6, <3>7 DEF ValidEvent, m
  <2> QED BY <2>1, <2>2
<1>2. CASE I2CWrite
  <2>1. WrittenEvents' = WrittenEvents
    BY <1>2 DEF I2CWrite, WrittenEvents
  <2>2. Members(pipe') = Members(pipe) \cup {i2c} /\ i2c # 0 /\ i2c' = 0 /\ eth' = eth
    BY <1>2, PipeSteps DEF I2CWrite
  <2> QED BY <2>1, <2>2
<1>3. CASE EthRead
  <2>1. WrittenEvents' = WrittenEvents
    BY <1>3 DEF EthRead, WrittenEvents
  <2>2. Members(pipe) = {eth'} \cup Members(pipe') /\ i2c' = i2c
    BY <1>3, PipeSteps DEF EthRead
  <2> QED BY <2>1, <2>2
<1>4. CASE Write
  <2>1. WrittenEvents' = WrittenEvents \cup {eth}
    BY <1>4, PipeSteps
  <2>2. eth # 0 /\ eth' = 0 /\ i2c' = i2c /\ pipe' = pipe
    BY <1>4 DEF Write
  <2> QED BY <2>1, <2>2
<1>5. CASE DaemonRestart
  <2>1. WrittenEvents' = WrittenEvents
    BY <1>5 DEF DaemonRestart, WrittenEvents
  <2>2. Members(pipe') = {} /\ i2c' = 0 /\ eth' = 0
    BY <1>5, PipeSteps DEF DaemonRestart
  <2> QED BY <2>1, <2>2
<1>6. CASE UNCHANGED <<i2c, pipe, eth, written>>
  <2>1. WrittenEvents' = WrittenEvents
    BY <1>6 DEF WrittenEvents
  <2> QED BY <1>6, <2>1
<1> HIDE DEF Checked
<1> QED
  BY <1>1, <1>2, <1>3, <1>4, <1>5, <1>6
     DEF Next, Offer, Expire, Connect, WriteFails, Recv, Handle, EndThread, Break,
         Start, Crash, vars

-----------------------------------------------------------------------------
(* From the connections to handle_request                                  *)

LEMMA WireNumbers ==
  ASSUME TypeOK, NEW c \in Conns
  PROVE  /\ wire[c] \in Seq(Nat) /\ Members(wire[c]) \subseteq Nat \ {0}
         /\ thread[c] \in Nat
<1>1. wire[c] \in Seq(EventIds) /\ thread[c] \in EventIds \cup {0}
  BY DEF TypeOK
<1>2. \A k \in DOMAIN wire[c] : wire[c][k] \in EventIds
  BY <1>1, ElementOfSeq, LenProperties
<1>3. wire[c] \in Seq(Nat) /\ thread[c] \in Nat
  <2>1. \A s \in Seq(EventIds) : s \in Seq(Nat)
    BY EventNumbers
  <2>2. \A n \in EventIds \cup {0} : n \in Nat
    BY EventNumbers
  <2> QED BY <1>1, <2>1, <2>2
<1>4. Members(wire[c]) \subseteq EventIds
  BY <1>2 DEF Members
<1> QED
  BY <1>3, <1>4, EventNumbers

(* What a write adds is behind everything on its connection.               *)
LEMMA WriteGrows ==
  ASSUME TypeOK, Upstream, WireFits, Write
  PROVE  /\ wire' = [wire EXCEPT ![sockfd] = wire'[sockfd]] /\ sockfd \in Conns
         /\ Increasing(wire'[sockfd]) /\ eth \in Nat \ {0}
         /\ Members(wire'[sockfd]) =
              Members(wire[sockfd]) \cup (IF alive[sockfd] THEN {eth} ELSE {})
         /\ \A w \in written : w[2] < eth
         /\ \A n \in Members(wire[sockfd]) : n < eth
<1>1. sockfd \in Conns /\ eth \in Nat \ {0} /\ wire \in [Conns -> Seq(EventIds)]
  BY Numbers DEF TypeOK, Write
<1>2. \A w \in written : w[2] < eth
  BY <1>1 DEF Upstream, Below, WrittenEvents
<1>3. \A n \in Members(wire[sockfd]) : n < eth
  <2>1. \A n \in Members(wire[sockfd]) : <<sockfd, n>>[2] < eth
    BY <1>1, <1>2 DEF WireFits
  <2> QED BY <2>1
<1>4. /\ wire' = [wire EXCEPT ![sockfd] = wire'[sockfd]]
      /\ wire'[sockfd] = IF alive[sockfd] THEN Append(wire[sockfd], eth) ELSE wire[sockfd]
  BY <1>1 DEF Write
<1>5. wire[sockfd] \in Seq(Nat) /\ Increasing(wire[sockfd])
  BY <1>1, WireNumbers DEF WireFits
<1>6. Increasing(wire'[sockfd])
      /\ Members(wire'[sockfd]) =
           Members(wire[sockfd]) \cup (IF alive[sockfd] THEN {eth} ELSE {})
  <2>1. CASE alive[sockfd]
    <3>1. Below(Members(wire[sockfd]), eth)
      BY <1>3 DEF Below
    <3> DEFINE old == wire[sockfd]
    <3> HIDE DEF old
    <3>2. old \in Seq(Nat) /\ eth \in Nat /\ Increasing(old) /\ Below(Members(old), eth)
      BY <1>1, <1>5, <3>1 DEF old
    <3>3. Increasing(Append(old, eth))
      BY <3>2, AppendIncreases
    <3>4. Members(Append(old, eth)) = Members(old) \cup {eth}
      BY <3>2, AppendMembers
    <3>5. wire'[sockfd] = Append(old, eth)
      BY <1>4, <2>1 DEF old
    <3> QED BY <2>1, <3>3, <3>4, <3>5 DEF old
  <2>2. CASE ~ alive[sockfd]
    BY <1>4, <1>5, <2>2
  <2> QED BY <2>1, <2>2
<1> QED
  BY <1>1, <1>2, <1>3, <1>4, <1>6

LEMMA RecvTakes ==
  ASSUME TypeOK, WireFits, NEW c \in Conns, Recv(c)
  PROVE  /\ Members(wire[c]) = {thread'[c]} \cup Members(wire'[c])
         /\ Increasing(wire'[c]) /\ \A n \in Members(wire'[c]) : thread'[c] < n
         /\ thread[c] = 0 /\ thread'[c] # 0
         /\ \A d \in Conns : d # c => wire'[d] = wire[d] /\ thread'[d] = thread[d]
<1>1. /\ wire[c] # <<>> /\ thread[c] = 0
      /\ thread'[c] = Head(wire[c]) /\ wire'[c] = Tail(wire[c])
      /\ \A d \in Conns : d # c => wire'[d] = wire[d] /\ thread'[d] = thread[d]
  BY DEF Recv, TypeOK
<1>2. wire[c] \in Seq(Nat) /\ Increasing(wire[c]) /\ 0 \notin Members(wire[c])
  BY WireNumbers DEF WireFits
<1> QED
  BY <1>1, <1>2, TailMembers, TailIncreases

LEMMA HandleAppends ==
  ASSUME TypeOK, WireFits, NEW c \in Conns, Handle(c)
  PROVE  /\ <<c, thread[c]>> \in written /\ thread[c] # 0
         /\ Members(handled') = Members(handled) \cup {<<c, thread[c]>>}
         /\ \A d \in Conns : thread'[d] = IF d = c THEN 0 ELSE thread[d]
         /\ wire' = wire /\ written' = written
<1>1. <<c, thread[c]>> \in Conns \X EventIds /\ handled \in Seq(Conns \X EventIds)
  BY DEF Handle, TypeOK
<1>2. Members(handled') = Members(handled) \cup {<<c, thread[c]>>}
  <2>1. handled' = Append(handled, <<c, thread[c]>>)
    BY DEF Handle
  <2> DEFINE x == <<c, thread[c]>>
             T == Conns \X EventIds
  <2> HIDE DEF x, T
  <2> QED BY <1>1, <2>1, AppendMembers DEF x, T
<1> QED
  BY <1>2 DEF Handle, WireFits, TypeOK

LEMMA BreakKeepsFirst ==
  ASSUME TypeOK, WireFits, NEW c \in Conns, Break(c)
  PROVE  /\ Increasing(wire'[c]) /\ Members(wire'[c]) \subseteq Members(wire[c])
         /\ \A x \in Members(wire'[c]), y \in Members(wire[c]) \ Members(wire'[c]) :
              x < y
         /\ \A d \in Conns : d # c => wire'[d] = wire[d]
<1>1. PICK n \in 0 .. Len(wire[c]) : wire' = [wire EXCEPT ![c] = SubSeq(@, 1, n)]
  BY DEF Break
<1>2. wire'[c] = SubSeq(wire[c], 1, n) /\ \A d \in Conns : d # c => wire'[d] = wire[d]
  BY <1>1 DEF TypeOK
<1>3. wire[c] \in Seq(Nat) /\ Increasing(wire[c])
  BY WireNumbers DEF WireFits
<1> QED
  BY <1>1, <1>2, <1>3, PrefixIncreases

(* What a connection's end leaves of it: nothing on the wire.              *)
LEMMA EndEmpties ==
  ASSUME TypeOK, (\E c \in Conns : EndThread(c)) \/ Crash
  PROVE  /\ \A d \in Conns : /\ wire'[d] \in {wire[d], <<>>}
                             /\ thread'[d] \in {thread[d], 0}
                             /\ alive'[d] => wire'[d] = wire[d] /\ thread'[d] = thread[d]
                                             /\ alive[d]
         /\ \A d \in Conns : (wire'[d] # wire[d] \/ thread'[d] # thread[d])
                               => wire'[d] = <<>> /\ thread'[d] = 0
         /\ written' = written /\ handled' = handled /\ client' = client
<1>1. ASSUME NEW c \in Conns, EndThread(c)
      PROVE  \A d \in Conns : /\ thread'[d] = thread[d] /\ thread[c] = 0
                              /\ wire'[d] = IF d = c THEN <<>> ELSE wire[d]
                              /\ alive'[d] = IF d = c THEN FALSE ELSE alive[d]
  BY <1>1 DEF EndThread, TypeOK
<1>2. ASSUME Crash
      PROVE  \A d \in Conns : thread'[d] = 0 /\ wire'[d] = <<>> /\ alive'[d] = FALSE
  BY <1>2 DEF Crash
<1>3. written' = written /\ handled' = handled /\ client' = client
  BY DEF EndThread, Crash
<1> QED
  BY <1>1, <1>2, <1>3

LEMMA WireFitsStep ==
  ASSUME TypeOK, Upstream, WireFits, [Next]_vars
  PROVE  WireFits'
<1>1. CASE Write
  <2>1. thread' = thread /\ written \subseteq written' /\ <<sockfd, eth>> \in written'
    BY <1>1 DEF Write
  <2>2. \A d \in Conns : d # sockfd => wire'[d] = wire[d]
    BY <1>1, WriteGrows DEF TypeOK
  <2>3. ASSUME NEW d \in Conns, thread[d] # 0, d = sockfd
        PROVE  thread[d] < eth
    <3>1. \A w \in written : w[2] < eth
      BY <1>1, WriteGrows
    <3>2. <<d, thread[d]>> \in written
      BY <2>3 DEF WireFits
    <3> QED BY <3>1, <3>2
  <2>4. ASSUME NEW d \in Conns, d # sockfd
        PROVE  /\ Increasing(wire'[d])
               /\ \A n \in Members(wire'[d]) : <<d, n>> \in written'
               /\ thread'[d] # 0 => /\ <<d, thread'[d]>> \in written'
                                    /\ \A n \in Members(wire'[d]) : thread'[d] < n
    BY <2>1, <2>2, <2>4 DEF WireFits
  <2>5. ASSUME NEW d \in Conns, d = sockfd
        PROVE  /\ Increasing(wire'[d])
               /\ \A n \in Members(wire'[d]) : <<d, n>> \in written'
               /\ thread'[d] # 0 => /\ <<d, thread'[d]>> \in written'
                                    /\ \A n \in Members(wire'[d]) : thread'[d] < n
    <3>1. Increasing(wire'[d])
      BY <1>1, <2>5, WriteGrows
    <3>2. Members(wire'[d]) \subseteq Members(wire[d]) \cup {eth}
      BY <1>1, <2>5, WriteGrows
    <3> QED BY <2>1, <2>3, <2>5, <3>1, <3>2 DEF WireFits
  <2> QED BY <2>4, <2>5 DEF WireFits
<1>2. ASSUME NEW c \in Conns, Recv(c)
      PROVE  WireFits'
  <2>1. written' = written
    BY <1>2 DEF Recv
  <2> QED BY <1>2, <2>1, RecvTakes DEF WireFits
<1>3. ASSUME NEW c \in Conns, Handle(c)
      PROVE  WireFits'
  BY <1>3, HandleAppends DEF WireFits
<1>4. ASSUME NEW c \in Conns, Break(c)
      PROVE  WireFits'
  <2>1. written' = written /\ thread' = thread
    BY <1>4 DEF Break
  <2> QED BY <1>4, <2>1, BreakKeepsFirst DEF WireFits
<1>5. CASE (\E c \in Conns : EndThread(c)) \/ Crash
  <2>1. \A d \in Conns : wire'[d] \in {wire[d], <<>>} /\ thread'[d] \in {thread[d], 0}
    BY <1>5, EndEmpties
  <2>2. written' = written
    BY <1>5, EndEmpties
  <2>3. ASSUME NEW d \in Conns
        PROVE  Increasing(wire'[d]) /\ Members(wire'[d]) \subseteq Members(wire[d])
    BY <2>1, EmptyIncreases DEF WireFits
  <2> QED BY <2>1, <2>2, <2>3 DEF WireFits
<1>6. CASE UNCHANGED <<written, wire, thread>>
  BY <1>6 DEF WireFits
<1> QED
  BY <1>1, <1>2, <1>3, <1>4, <1>5, <1>6
     DEF Next, Offer, Expire, I2CRead, I2CWrite, EthRead, Connect, WriteFails,
         DaemonRestart, Start, vars

LEMMA HandledFitsStep ==
  ASSUME TypeOK, Upstream, WireFits, HandledFits, [Next]_vars
  PROVE  HandledFits'
<1>0. \A h \in Members(handled) : h[1] \in Conns /\ h[2] \in EventIds /\ h = <<h[1], h[2]>>
  BY Numbers DEF HandledFits
<1>1. CASE Write
  <2>1. thread' = thread /\ handled' = handled /\ written \subseteq written'
    BY <1>1 DEF Write
  <2>2. ASSUME NEW h \in Members(handled), NEW n \in Members(wire'[h[1]])
        PROVE  h[2] < n
    <3>1. \A w \in written : w[2] < eth
      BY <1>1, WriteGrows
    <3>2. h[2] < eth
      BY <3>1 DEF HandledFits
    <3>3. wire' = [wire EXCEPT ![sockfd] = wire'[sockfd]]
      BY <1>1, WriteGrows
    <3>4. Members(wire'[sockfd]) \subseteq Members(wire[sockfd]) \cup {eth}
      BY <1>1, WriteGrows
    <3>5. CASE h[1] = sockfd
      BY <3>2, <3>4, <3>5 DEF HandledFits
    <3>6. CASE h[1] # sockfd
      <4>1. wire'[h[1]] = wire[h[1]]
        BY <1>0, <3>3, <3>6 DEF TypeOK
      <4> QED BY <4>1 DEF HandledFits
    <3> QED BY <3>5, <3>6
  <2> QED BY <2>1, <2>2 DEF HandledFits
<1>2. ASSUME NEW c \in Conns, Recv(c)
      PROVE  HandledFits'
  <2>1. written' = written /\ handled' = handled
    BY <1>2 DEF Recv
  <2>2. ASSUME NEW h \in Members(handled)
        PROVE  /\ thread'[h[1]] # 0 => h[2] < thread'[h[1]]
               /\ \A n \in Members(wire'[h[1]]) : h[2] < n
    <3>1. CASE h[1] = c
      <4>1. Members(wire[c]) = {thread'[c]} \cup Members(wire'[c])
        BY <1>2, RecvTakes
      <4> QED BY <3>1, <4>1 DEF HandledFits
    <3>2. CASE h[1] # c
      <4>1. wire'[h[1]] = wire[h[1]] /\ thread'[h[1]] = thread[h[1]]
        BY <1>0, <1>2, <3>2, RecvTakes
      <4> QED BY <4>1 DEF HandledFits
    <3> QED BY <3>1, <3>2
  <2> QED BY <2>1, <2>2 DEF HandledFits
<1>3. ASSUME NEW c \in Conns, Handle(c)
      PROVE  HandledFits'
  <2>1. /\ <<c, thread[c]>> \in written /\ thread[c] # 0
        /\ Members(handled') = Members(handled) \cup {<<c, thread[c]>>}
        /\ \A d \in Conns : thread'[d] = IF d = c THEN 0 ELSE thread[d]
        /\ wire' = wire /\ written' = written
    BY <1>3, HandleAppends
  <2>2. ASSUME NEW h \in Members(handled)
        PROVE  /\ h \in written'
               /\ thread'[h[1]] # 0 => h[2] < thread'[h[1]]
               /\ \A n \in Members(wire'[h[1]]) : h[2] < n
    BY <1>0, <2>1 DEF HandledFits
  <2>3. ASSUME NEW h, h = <<c, thread[c]>>
        PROVE  /\ h \in written'
               /\ thread'[h[1]] # 0 => h[2] < thread'[h[1]]
               /\ \A n \in Members(wire'[h[1]]) : h[2] < n
    BY <2>1, <2>3 DEF WireFits
  <2> QED BY <2>1, <2>2, <2>3 DEF HandledFits
<1>4. ASSUME NEW c \in Conns, Break(c)
      PROVE  HandledFits'
  <2>1. written' = written /\ thread' = thread /\ handled' = handled
    BY <1>4 DEF Break
  <2>2. \A d \in Conns : Members(wire'[d]) \subseteq Members(wire[d])
    <3>1. /\ Members(wire'[c]) \subseteq Members(wire[c])
          /\ \A d \in Conns : d # c => wire'[d] = wire[d]
      BY <1>4, BreakKeepsFirst
    <3> QED BY <3>1
  <2> QED BY <1>0, <2>1, <2>2 DEF HandledFits
<1>5. CASE (\E c \in Conns : EndThread(c)) \/ Crash
  <2>1. \A d \in Conns : wire'[d] \in {wire[d], <<>>} /\ thread'[d] \in {thread[d], 0}
    BY <1>5, EndEmpties
  <2>2. written' = written /\ handled' = handled
    BY <1>5, EndEmpties
  <2>3. ASSUME NEW d \in Conns
        PROVE  Members(wire'[d]) \subseteq Members(wire[d])
    BY <2>1, EmptyIncreases
  <2> QED BY <1>0, <2>1, <2>2, <2>3 DEF HandledFits
<1>6. CASE UNCHANGED <<written, wire, thread, handled>>
  BY <1>6 DEF HandledFits
<1> QED
  BY <1>1, <1>2, <1>3, <1>4, <1>5, <1>6
     DEF Next, Offer, Expire, I2CRead, I2CWrite, EthRead, Connect, WriteFails,
         DaemonRestart, Start, vars

LEMMA HandledInOrderStep ==
  ASSUME TypeOK, HandledFits, HandledInOrder, [Next]_vars
  PROVE  HandledInOrder'
<1>1. ASSUME NEW c \in Conns, Handle(c)
      PROVE  HandledInOrder'
  <2>1. handled' = Append(handled, <<c, thread[c]>>) /\ thread[c] # 0
    BY <1>1 DEF Handle
  <2>2. <<c, thread[c]>> \in Conns \X EventIds /\ handled \in Seq(Conns \X EventIds)
    BY <1>1 DEF Handle, TypeOK
  <2>3. /\ DOMAIN handled = 1 .. Len(handled) /\ Len(handled) \in Nat
        /\ DOMAIN handled' = 1 .. Len(handled) + 1
        /\ \A k \in 1 .. Len(handled) : handled'[k] = handled[k]
        /\ handled'[Len(handled) + 1] = <<c, thread[c]>>
    <3> DEFINE x == <<c, thread[c]>>
               T == Conns \X EventIds
    <3> HIDE DEF x, T
    <3> QED BY <2>1, <2>2, AppendProperties, LenProperties DEF x, T
  <2>4. ASSUME NEW j \in 1 .. Len(handled), handled[j][1] = c
        PROVE  handled[j][2] < thread[c]
    <3>1. handled[j] \in Members(handled)
      BY <2>3 DEF Members
    <3> QED BY <2>1, <2>4, <3>1 DEF HandledFits
  <2>5. ASSUME NEW j \in DOMAIN handled', NEW k \in DOMAIN handled', j < k,
               handled'[j][1] = handled'[k][1]
        PROVE  handled'[j][2] < handled'[k][2]
    <3>1. j \in 1 .. Len(handled)
      BY <2>3, <2>5
    <3>2. CASE k \in 1 .. Len(handled)
      BY <2>3, <2>5, <3>1, <3>2 DEF HandledInOrder
    <3>3. CASE k = Len(handled) + 1
      BY <2>3, <2>4, <2>5, <3>1, <3>3
    <3> QED BY <2>3, <3>2, <3>3
  <2> QED BY <2>5 DEF HandledInOrder
<1>2. CASE UNCHANGED handled
  BY <1>2 DEF HandledInOrder
<1> QED
  BY <1>1, <1>2
     DEF Next, Offer, Expire, I2CRead, I2CWrite, EthRead, Connect, Write, WriteFails,
         DaemonRestart, Recv, EndThread, Break, Start, Crash, vars

LEMMA ArrivalsAre ==
  ASSUME NEW c \in Conns, NEW n \in EventIds
  PROVE  /\ <<c, n>> \in Arrivals <=> \/ n \in Members(wire[c]) \/ thread[c] = n
                                      \/ <<c, n>> \in Members(handled)
         /\ <<c, n>> \in Arrivals' <=> \/ n \in Members(wire'[c]) \/ thread'[c] = n
                                       \/ <<c, n>> \in Members(handled')
<1>1. <<c, n>> \in Conns \X EventIds /\ <<c, n>>[1] = c /\ <<c, n>>[2] = n
  OBVIOUS
<1> QED
  BY <1>1 DEF Arrivals

LEMMA ArrivedWasWritten ==
  ASSUME TypeOK, WireFits, HandledFits, NEW c \in Conns, NEW n \in EventIds,
         <<c, n>> \in Arrivals
  PROVE  <<c, n>> \in written
<1>1. n # 0
  BY EventNumbers
<1> QED
  BY <1>1, ArrivalsAre DEF WireFits, HandledFits

(* A step that writes nothing and moves what arrives, or drops the end of  *)
(* it, leaves connections complete.                                        *)
LEMMA KeptComplete ==
  ASSUME TypeOK, Complete, written' = written,
         \A c \in Conns : client'[c] = "open" /\ alive'[c] =>
           /\ client[c] = "open" /\ alive[c]
           /\ \A n \in EventIds : <<c, n>> \in Arrivals => <<c, n>> \in Arrivals',
         \A c \in Conns : \A n \in EventIds : <<c, n>> \in Arrivals' => <<c, n>> \in Arrivals,
         \A c \in Conns : \A m, n \in EventIds :
           m < n /\ <<c, m>> \in Arrivals /\ <<c, n>> \in Arrivals' => <<c, m>> \in Arrivals'
  PROVE  Complete'
<1>1. \A w \in written : w[1] \in Conns /\ w[2] \in EventIds /\ w = <<w[1], w[2]>>
  BY Numbers
<1>2. ASSUME NEW e \in written, client'[e[1]] = "open", alive'[e[1]]
      PROVE  e \in Arrivals'
  <2>1. client[e[1]] = "open" /\ alive[e[1]]
    BY <1>1, <1>2
  <2>2. <<e[1], e[2]>> \in Arrivals
    BY <1>1, <2>1 DEF Complete
  <2>3. <<e[1], e[2]>> \in Arrivals'
    BY <1>1, <1>2, <2>2
  <2> QED BY <1>1, <2>3
<1>3. ASSUME NEW e \in written, NEW f \in written, e[1] = f[1], e[2] < f[2],
             f \in Arrivals'
      PROVE  e \in Arrivals'
  <2>1. e = <<e[1], e[2]>> /\ f = <<e[1], f[2]>> /\ e[1] \in Conns
        /\ e[2] \in EventIds /\ f[2] \in EventIds
    BY <1>1, <1>3
  <2>2. f \in Arrivals
    <3>1. <<e[1], f[2]>> \in Arrivals'
      BY <1>3, <2>1
    <3>2. <<e[1], f[2]>> \in Arrivals
      BY <2>1, <3>1
    <3> QED BY <2>1, <3>2
  <2>3. e \in Arrivals
    BY <1>3, <2>2 DEF Complete
  <2>4. <<e[1], e[2]>> \in Arrivals /\ <<e[1], f[2]>> \in Arrivals'
    BY <1>3, <2>1, <2>3
  <2>5. <<e[1], e[2]>> \in Arrivals'
    BY <1>3, <2>1, <2>4
  <2> QED BY <2>1, <2>5
<1> QED
  BY <1>2, <1>3 DEF Complete

LEMMA WriteKeepsComplete ==
  ASSUME TypeOK, Upstream, WireFits, HandledFits, Complete, Write
  PROVE  Complete'
<1>1. /\ written' = written \cup {<<sockfd, eth>>}
      /\ UNCHANGED <<client, alive, thread, handled>> /\ client[sockfd] = "open"
  BY DEF Write
<1>2. /\ sockfd \in Conns /\ eth \in EventIds
      /\ \A w \in written : w[2] < eth /\ w[1] \in Conns /\ w[2] \in EventIds
                            /\ w = <<w[1], w[2]>>
  <2>1. eth \in EventIds
    BY DEF Write, TypeOK
  <2> QED BY <2>1, WriteGrows, Numbers
<1>3. /\ \A d \in Conns : d # sockfd => wire'[d] = wire[d]
      /\ Members(wire'[sockfd]) =
           Members(wire[sockfd]) \cup (IF alive[sockfd] THEN {eth} ELSE {})
  BY <1>2, WriteGrows DEF TypeOK
<1>4. \A c \in Conns : \A n \in EventIds : <<c, n>> \in Arrivals => <<c, n>> \in Arrivals'
  BY <1>1, <1>3, ArrivalsAre
<1>5. \A c \in Conns : \A n \in EventIds : n # eth /\ <<c, n>> \in Arrivals' => <<c, n>> \in Arrivals
  <2>1. \A c \in Conns : Members(wire'[c]) \subseteq Members(wire[c]) \cup {eth}
    BY <1>3
  <2>2. ASSUME NEW c \in Conns, NEW n \in EventIds, n # eth, <<c, n>> \in Arrivals'
        PROVE  <<c, n>> \in Arrivals
    <3>1. \/ n \in Members(wire'[c]) \/ thread'[c] = n
          \/ <<c, n>> \in Members(handled')
      BY <2>2, ArrivalsAre
    <3>2. \/ n \in Members(wire[c]) \/ thread[c] = n
          \/ <<c, n>> \in Members(handled)
      BY <1>1, <2>1, <2>2, <3>1
    <3> QED BY <3>2, ArrivalsAre
  <2> QED BY <2>2
<1>6. alive[sockfd] => <<sockfd, eth>> \in Arrivals'
  <2>1. alive[sockfd] => eth \in Members(wire'[sockfd])
    BY <1>3
  <2> QED BY <1>2, <2>1, ArrivalsAre
<1>7. <<sockfd, eth>> \in Arrivals' => alive[sockfd]
  <2>1. ~ <<sockfd, eth>> \in Arrivals
    <3>1. <<sockfd, eth>> \notin written
      <4>1. eth \in Nat /\ <<sockfd, eth>>[2] = eth
        BY <1>2, EventNumbers
      <4> QED BY <1>2, <4>1
    <3> QED BY <1>2, <3>1, ArrivedWasWritten
  <2>2. ASSUME ~ alive[sockfd], <<sockfd, eth>> \in Arrivals'
        PROVE  FALSE
    <3>1. Members(wire'[sockfd]) = Members(wire[sockfd])
      BY <1>3, <2>2
    <3>2. \/ eth \in Members(wire'[sockfd]) \/ thread'[sockfd] = eth
          \/ <<sockfd, eth>> \in Members(handled')
      BY <1>2, <2>2, ArrivalsAre
    <3>3. \/ eth \in Members(wire[sockfd]) \/ thread[sockfd] = eth
          \/ <<sockfd, eth>> \in Members(handled)
      BY <1>1, <3>1, <3>2
    <3> QED BY <1>2, <2>1, <3>3, ArrivalsAre
  <2> QED BY <2>2
<1>8. \A w \in written : w[2] # eth
  BY <1>2, EventNumbers
<1>9. ASSUME NEW e \in written', client'[e[1]] = "open", alive'[e[1]]
      PROVE  e \in Arrivals'
  <2>1. CASE e \in written
    <3>1. e[1] \in Conns /\ e[2] \in EventIds /\ e = <<e[1], e[2]>>
      BY <1>2, <2>1
    <3>2. e \in Arrivals
      BY <1>1, <1>9, <2>1 DEF Complete
    <3>3. <<e[1], e[2]>> \in Arrivals
      BY <3>1, <3>2
    <3>4. <<e[1], e[2]>> \in Arrivals'
      BY <1>4, <3>1, <3>3
    <3> QED BY <3>1, <3>4
  <2>2. CASE e = <<sockfd, eth>>
    BY <1>1, <1>6, <1>9, <2>2
  <2> QED BY <1>1, <2>1, <2>2
<1>10. ASSUME NEW e \in written', NEW f \in written', e[1] = f[1], e[2] < f[2],
              f \in Arrivals'
       PROVE  e \in Arrivals'
  <2>1. CASE e \in written /\ f \in written
    <3>1. f \in Arrivals
      <4>1. f[1] \in Conns /\ f[2] \in EventIds /\ f = <<f[1], f[2]>> /\ f[2] # eth
        BY <1>2, <1>8, <2>1
      <4>2. <<f[1], f[2]>> \in Arrivals'
        BY <1>10, <4>1
      <4>3. <<f[1], f[2]>> \in Arrivals
        BY <1>5, <4>1, <4>2
      <4> QED BY <4>1, <4>3
    <3>2. e \in Arrivals
      BY <1>10, <2>1, <3>1 DEF Complete
    <3>3. e[1] \in Conns /\ e[2] \in EventIds /\ e = <<e[1], e[2]>>
      BY <1>2, <2>1
    <3>4. <<e[1], e[2]>> \in Arrivals
      BY <3>2, <3>3
    <3>5. <<e[1], e[2]>> \in Arrivals'
      BY <1>4, <3>3, <3>4
    <3> QED BY <3>3, <3>5
  <2>2. CASE e \in written /\ f = <<sockfd, eth>>
    <3>1. alive[sockfd] /\ e[1] = sockfd
      BY <1>7, <1>10, <2>2
    <3>2. e \in Arrivals
      BY <1>1, <2>2, <3>1 DEF Complete
    <3>3. e[1] \in Conns /\ e[2] \in EventIds /\ e = <<e[1], e[2]>>
      BY <1>2, <2>2
    <3>4. <<e[1], e[2]>> \in Arrivals
      BY <3>2, <3>3
    <3>5. <<e[1], e[2]>> \in Arrivals'
      BY <1>4, <3>3, <3>4
    <3> QED BY <3>3, <3>5
  <2>3. CASE e = <<sockfd, eth>>
    <3>1. \A n \in EventIds : ~ (n < n) /\ \A m \in EventIds : n < m => ~ (m < n)
      BY EventNumbers
    <3>2. e[2] = eth
      BY <2>3
    <3>3. f[2] = eth \/ (f[2] < eth /\ f[2] \in EventIds)
      BY <1>1, <1>2
    <3> QED BY <1>2, <1>10, <3>1, <3>2, <3>3
  <2> QED BY <1>1, <2>1, <2>2, <2>3
<1> QED
  BY <1>9, <1>10 DEF Complete

LEMMA CompleteStep ==
  ASSUME TypeOK, Upstream, Sockets, WireFits, HandledFits, Complete, [Next]_vars
  PROVE  Complete'
<1>1. CASE Write
  BY <1>1, WriteKeepsComplete
<1>2. CASE Connect
  <2>1. \A w \in written : w[1] \in Conns /\ w[1] # conns + 1
    BY Numbers, Sizes DEF Sockets
  <2>2. \A w \in written : client'[w[1]] = client[w[1]] /\ alive'[w[1]] = alive[w[1]]
    BY <1>2, <2>1 DEF Connect, TypeOK
  <2>3. UNCHANGED <<written, wire, thread, handled>>
    BY <1>2 DEF Connect
  <2> QED BY <2>2, <2>3 DEF Complete, Arrivals
<1>3. ASSUME NEW c \in Conns, Recv(c)
      PROVE  Complete'
  <2>1. UNCHANGED <<written, handled, client, alive>>
    BY <1>3 DEF Recv
  <2>2. /\ Members(wire[c]) = {thread'[c]} \cup Members(wire'[c]) /\ thread[c] = 0
        /\ \A d \in Conns : d # c => wire'[d] = wire[d] /\ thread'[d] = thread[d]
    BY <1>3, RecvTakes
  <2>3. \A d \in Conns, n \in EventIds : <<d, n>> \in Arrivals' <=> <<d, n>> \in Arrivals
    BY <2>1, <2>2, EventNumbers, ArrivalsAre
  <2> QED BY <2>1, <2>3, KeptComplete
<1>4. ASSUME NEW c \in Conns, Handle(c)
      PROVE  Complete'
  <2>1. UNCHANGED <<written, client, alive>>
    BY <1>4 DEF Handle
  <2>2. /\ Members(handled') = Members(handled) \cup {<<c, thread[c]>>}
        /\ \A d \in Conns : thread'[d] = IF d = c THEN 0 ELSE thread[d]
        /\ wire' = wire
    BY <1>4, HandleAppends
  <2>3. ASSUME NEW d \in Conns, NEW n \in EventIds
        PROVE  <<d, n>> \in Arrivals' <=> <<d, n>> \in Arrivals
    <3>1. n # 0
      BY EventNumbers
    <3>2. CASE d = c
      BY <2>2, <3>1, <3>2, ArrivalsAre
    <3>3. CASE d # c
      BY <2>2, <3>1, <3>3, ArrivalsAre
    <3> QED BY <3>2, <3>3
  <2> QED BY <2>1, <2>3, KeptComplete
<1>5. ASSUME NEW c \in Conns, Break(c)
      PROVE  Complete'
  <2>1. /\ UNCHANGED <<written, handled, thread, alive>>
        /\ \A d \in Conns : client'[d] = IF d = c THEN "broken" ELSE client[d]
    BY <1>5 DEF Break, TypeOK
  <2>2. /\ Members(wire'[c]) \subseteq Members(wire[c])
        /\ \A x \in Members(wire'[c]), y \in Members(wire[c]) \ Members(wire'[c]) :
             x < y
        /\ \A d \in Conns : d # c => wire'[d] = wire[d]
    BY <1>5, BreakKeepsFirst
  <2>3. \A d \in Conns, n \in EventIds : <<d, n>> \in Arrivals' => <<d, n>> \in Arrivals
    BY <2>1, <2>2, ArrivalsAre
  <2>4. ASSUME NEW m \in EventIds, NEW n \in EventIds, m < n,
               <<c, m>> \in Arrivals, <<c, n>> \in Arrivals'
        PROVE  <<c, m>> \in Arrivals'
    <3>1. CASE m \in Members(wire[c]) \ Members(wire'[c])
      <4>1. n < m
        <5>1. CASE n \in Members(wire'[c])
          BY <2>2, <3>1, <5>1
        <5>2. CASE thread[c] = n
          BY <3>1, <5>2, EventNumbers DEF WireFits
        <5>3. CASE <<c, n>> \in Members(handled)
          BY <3>1, <5>3 DEF HandledFits
        <5> QED BY <2>1, <2>4, <5>1, <5>2, <5>3, ArrivalsAre
      <4> QED BY <2>4, <4>1, EventNumbers
    <3>2. CASE m \notin Members(wire[c]) \ Members(wire'[c])
      BY <2>1, <2>4, <3>2, ArrivalsAre
    <3> QED BY <3>1, <3>2
  <2>5. \A d \in Conns : d # c => \A n \in EventIds : <<d, n>> \in Arrivals' <=> <<d, n>> \in Arrivals
    BY <2>1, <2>2, ArrivalsAre
  <2> QED BY <2>1, <2>3, <2>4, <2>5, KeptComplete
<1>6. CASE (\E c \in Conns : EndThread(c)) \/ Crash
  <2>1. /\ \A d \in Conns : alive'[d] => wire'[d] = wire[d] /\ thread'[d] = thread[d]
                                         /\ alive[d]
        /\ \A d \in Conns : (wire'[d] # wire[d] \/ thread'[d] # thread[d])
                              => wire'[d] = <<>> /\ thread'[d] = 0
        /\ UNCHANGED <<written, handled, client>>
    BY <1>6, EndEmpties
  <2>2. ASSUME NEW d \in Conns
        PROVE  /\ \A n \in EventIds : <<d, n>> \in Arrivals' => <<d, n>> \in Arrivals
               /\ \A m, n \in EventIds :
                    m < n /\ <<d, m>> \in Arrivals /\ <<d, n>> \in Arrivals' => <<d, m>> \in Arrivals'
    <3>1. CASE wire'[d] = wire[d] /\ thread'[d] = thread[d]
      BY <2>1, <3>1, ArrivalsAre
    <3>2. CASE wire'[d] = <<>> /\ thread'[d] = 0
      <4>1. \A n \in EventIds : <<d, n>> \in Arrivals' => <<d, n>> \in Members(handled)
        BY <2>1, <3>2, EmptyIncreases, EventNumbers, ArrivalsAre
      <4>2. ASSUME NEW m \in EventIds, NEW n \in EventIds, m < n,
                   <<d, m>> \in Arrivals, <<d, n>> \in Members(handled)
            PROVE  <<d, m>> \in Members(handled)
        <5>1. m # 0 /\ ~ (n < m)
          BY <4>2, EventNumbers
        <5>2. ~ (m \in Members(wire[d])) /\ thread[d] # m
          BY <4>2, <5>1 DEF HandledFits
        <5> QED BY <4>2, <5>2, ArrivalsAre
      <4>3. \A n \in EventIds : <<d, n>> \in Members(handled)
                                  => <<d, n>> \in Arrivals /\ <<d, n>> \in Arrivals'
        BY <2>1, ArrivalsAre
      <4> QED BY <4>1, <4>2, <4>3
    <3> QED BY <2>1, <3>1, <3>2
  <2>3. \A d \in Conns : alive'[d] => \A n \in EventIds : <<d, n>> \in Arrivals => <<d, n>> \in Arrivals'
    BY <2>1, ArrivalsAre
  <2> QED BY <2>1, <2>2, <2>3, KeptComplete
<1>7. CASE UNCHANGED <<written, wire, thread, handled, client, alive>>
  BY <1>7 DEF Complete, Arrivals
<1> QED
  BY <1>1, <1>2, <1>3, <1>4, <1>5, <1>6, <1>7
     DEF Next, Offer, Expire, I2CRead, I2CWrite, EthRead, WriteFails, DaemonRestart,
         Start, vars

-----------------------------------------------------------------------------
(* The invariant holds                                                     *)

LEMMA LinkInit ==
  ASSUME Init
  PROVE  LinkInv
<1> USE DEF Init
<1>1. Members(pipe) = {} /\ Increasing(pipe) /\ Members(handled) = {}
      /\ \A c \in Conns : Members(wire[c]) = {} /\ Increasing(wire[c])
  BY EmptyIncreases
<1>2. TypeOK
  <2>1. 0 \in 0 .. Len(Events) /\ 0 \in 0 .. MaxRestarts /\ Len(<<>>) <= PipeSize
    BY Sizes
  <2>2. <<>> \in Seq(EventIds) /\ <<>> \in Seq(Conns \X EventIds)
    OBVIOUS
  <2> QED BY <2>1, <2>2 DEF TypeOK
<1>3. WrittenEvents = {}
  BY DEF WrittenEvents
<1>4. Upstream /\ Checked
  BY <1>1, <1>3 DEF Upstream, Checked, Below
<1>5. Sockets /\ Complete
  BY DEF Sockets, Complete
<1>6. Downstream
  BY <1>1 DEF Downstream, WireFits, HandledFits, HandledInOrder
<1> QED
  BY <1>2, <1>4, <1>5, <1>6 DEF LinkInv

LEMMA LinkStep ==
  ASSUME LinkInv, [Next]_vars
  PROVE  LinkInv'
  BY TypeStep, UpstreamStep, SocketsStep, CheckedStep, WireFitsStep, HandledFitsStep,
     HandledInOrderStep, CompleteStep DEF LinkInv, Downstream

(* Between the board and handle_request an event is in one place at most,  *)
(* in order, and what a connection delivers has no gaps (i2c_process.c,    *)
(* eth_process.c, server.cpp): the invariant the theorems below rest on.   *)
THEOREM LinkInvariant == Spec => []LinkInv
<1>1. Init => LinkInv
  BY LinkInit
<1>2. LinkInv /\ [Next]_vars => LinkInv'
  BY LinkStep
<1> QED
  BY <1>1, <1>2, PTL DEF Spec

-----------------------------------------------------------------------------
(* What follows from it                                                    *)

LEMMA ZeroOrOne ==
  ASSUME NEW S, \A x, y \in S : x = y
  PROVE  Cardinality(S) = IF S = {} THEN 0 ELSE 1
<1>1. CASE S = {}
  BY <1>1, FS_EmptySet
<1>2. CASE S # {}
  <2>1. PICK x \in S : TRUE
    BY <1>2
  <2>2. S = {x}
    BY <2>1
  <2> QED BY <1>2, <2>2, FS_Singleton
<1> QED
  BY <1>1, <1>2

LEMMA InvImpliesInOrder == LinkInv => OvertakesOnNewConnection
<1> SUFFICES ASSUME LinkInv, NEW j \in DOMAIN handled, NEW k \in DOMAIN handled,
                    j < k, handled[j][2] > handled[k][2]
             PROVE  handled[j][1] > handled[k][1]
  BY DEF OvertakesOnNewConnection
<1>1. handled[j] \in written /\ handled[k] \in written
  BY DEF LinkInv, Downstream, HandledFits, Members
<1>2. /\ handled[j][1] \in Nat /\ handled[k][1] \in Nat
      /\ handled[j][2] \in Nat /\ handled[k][2] \in Nat
  <2>1. \A w \in written : w[1] \in Conns /\ w[2] \in EventIds
    BY Numbers DEF LinkInv
  <2>2. Conns \subseteq Nat /\ EventIds \subseteq Nat
    BY Sizes, EventNumbers
  <2> QED BY <1>1, <2>1, <2>2
<1>3. handled[k][1] <= handled[j][1]
  <2>1. \A v, w \in written : v[2] < w[2] => v[1] <= w[1]
    BY DEF LinkInv, Sockets
  <2>2. handled[k][2] < handled[j][2]
    BY <1>2
  <2> QED BY <1>1, <2>1, <2>2
<1>4. handled[j][1] # handled[k][1]
  BY <1>2 DEF LinkInv, Downstream, HandledInOrder
<1> QED
  BY <1>2, <1>3, <1>4

LEMMA InvImpliesFull == LinkInv => ArrivesInFull
<1> SUFFICES ASSUME LinkInv, NEW e \in written, NEW f \in written,
                    e[1] = f[1], e[2] < f[2], e[1] \in Arrives(f[2])
             PROVE  e[1] \in Arrives(e[2])
  BY DEF ArrivesInFull
<1>1. /\ e[1] \in Conns /\ e[2] \in EventIds /\ f[2] \in EventIds
      /\ e = <<e[1], e[2]>> /\ f = <<e[1], f[2]>>
  BY Numbers DEF LinkInv
<1>2. \A k \in DOMAIN handled : handled[k] = <<handled[k][1], handled[k][2]>>
  BY ElementOfSeq, LenProperties DEF LinkInv, TypeOK
<1>3. ASSUME NEW n \in EventIds
      PROVE  e[1] \in Arrives(n) <=> <<e[1], n>> \in Arrivals
  <2>1. (\E k \in Done(n) : handled[k][1] = e[1]) <=> <<e[1], n>> \in Members(handled)
    BY <1>2 DEF Done, Members
  <2>2. (\E k \in DOMAIN wire[e[1]] : wire[e[1]][k] = n) <=> n \in Members(wire[e[1]])
    BY DEF Members
  <2> QED BY <1>1, <2>1, <2>2, ArrivalsAre DEF Arrives
<1>4. f \in Arrivals
  BY <1>1, <1>3
<1>5. e \in Arrivals
  BY <1>4 DEF LinkInv, Complete
<1> QED
  BY <1>1, <1>3, <1>5

LEMMA InvImpliesValid == LinkInv => OnlyValidHandled
<1> SUFFICES ASSUME LinkInv, NEW k \in DOMAIN handled
             PROVE  ValidEvent(handled[k][2])
  BY DEF OnlyValidHandled, ValidEvent
<1>1. handled[k] \in written
  BY DEF LinkInv, Downstream, HandledFits, Members
<1> QED
  BY <1>1 DEF LinkInv, Checked, WrittenEvents

(* Where copies of an event are, no two of these can be true.              *)
LEMMA OnePlace ==
  ASSUME LinkInv, NEW n \in EventIds
  PROVE  /\ InPipe(n) # {} => bus # n /\ i2c # n /\ eth # n /\ n \notin WrittenEvents
         /\ bus = n => i2c # n /\ eth # n /\ n \notin WrittenEvents
         /\ i2c = n => eth # n /\ n \notin WrittenEvents
         /\ eth = n => n \notin WrittenEvents
         /\ OnWire(n) # {} \/ InHand(n) # {} \/ Done(n) # {} => n \in WrittenEvents
         /\ OnWire(n) # {} => InHand(n) = {} /\ Done(n) = {}
         /\ InHand(n) # {} => Done(n) = {}
<1>0. /\ n \in Nat \ {0} /\ ~ (n < n)
      /\ Members(pipe) \subseteq Nat \ {0} /\ WrittenEvents \subseteq Nat \ {0}
  BY Numbers, EventNumbers DEF LinkInv
<1>1. InPipe(n) # {} => bus # n /\ i2c # n /\ eth # n /\ n \notin WrittenEvents
  <2>1. InPipe(n) # {} => n \in Members(pipe)
    BY DEF InPipe, Members
  <2> QED BY <1>0, <2>1 DEF LinkInv, Upstream, Below
<1>2. /\ bus = n => i2c # n /\ eth # n /\ n \notin WrittenEvents
      /\ i2c = n => eth # n /\ n \notin WrittenEvents
      /\ eth = n => n \notin WrittenEvents
  BY <1>0 DEF LinkInv, Upstream, Below
<1>3. ASSUME NEW x \in OnWire(n)
      PROVE  \E c \in Conns : <<c, n>> \in written /\ n \in Members(wire[c])
  <2>1. PICK c \in Conns : \E k \in DOMAIN wire[c] : wire[c][k] = n
    BY DEF OnWire
  <2>2. n \in Members(wire[c])
    BY <2>1 DEF Members
  <2> QED BY <2>2 DEF LinkInv, Downstream, WireFits
<1>4. ASSUME NEW c \in InHand(n)
      PROVE  c \in Conns /\ <<c, n>> \in written /\ thread[c] = n
  BY <1>0 DEF InHand, LinkInv, Downstream, WireFits
<1>5. ASSUME NEW k \in Done(n)
      PROVE  \E c \in Conns : <<c, n>> \in written /\ <<c, n>> \in Members(handled)
  <2>1. handled[k] \in Members(handled) /\ handled[k][2] = n
    BY DEF Done, Members
  <2>2. handled[k] \in written
    BY <2>1 DEF LinkInv, Downstream, HandledFits
  <2> QED BY <2>1, <2>2, Numbers DEF LinkInv
<1>6. \A c, d : <<c, n>> \in written /\ <<d, n>> \in written => c = d
  <2>1. \A c, d : <<c, n>>[2] = <<d, n>>[2] /\ <<c, n>>[1] = c /\ <<d, n>>[1] = d
    OBVIOUS
  <2> QED BY <2>1 DEF LinkInv, Sockets
<1>7. \A c : <<c, n>> \in written => n \in WrittenEvents
  BY DEF WrittenEvents
<1>8. ASSUME NEW c \in Conns, thread[c] = n
      PROVE  n \notin Members(wire[c]) /\ <<c, n>> \notin Members(handled)
  BY <1>0, <1>8 DEF LinkInv, Downstream, WireFits, HandledFits
<1>9. ASSUME NEW c \in Conns, n \in Members(wire[c])
      PROVE  <<c, n>> \notin Members(handled)
  BY <1>0, <1>9 DEF LinkInv, Downstream, HandledFits
<1>10. OnWire(n) # {} \/ InHand(n) # {} \/ Done(n) # {} => n \in WrittenEvents
  BY <1>3, <1>4, <1>5, <1>7
<1>11. OnWire(n) # {} => InHand(n) = {}
  BY <1>3, <1>4, <1>6, <1>8
<1>12. OnWire(n) # {} => Done(n) = {}
  BY <1>3, <1>5, <1>6, <1>9
<1>13. InHand(n) # {} => Done(n) = {}
  BY <1>4, <1>5, <1>6, <1>8
<1> QED
  BY <1>1, <1>2, <1>10, <1>11, <1>12, <1>13

(* And there is one copy in each.                                          *)
LEMMA OneCopy ==
  ASSUME LinkInv, NEW n \in EventIds
  PROVE  /\ Cardinality(InPipe(n)) = IF InPipe(n) = {} THEN 0 ELSE 1
         /\ Cardinality(OnWire(n)) = IF OnWire(n) = {} THEN 0 ELSE 1
         /\ Cardinality(InHand(n)) = IF InHand(n) = {} THEN 0 ELSE 1
         /\ Cardinality(Done(n)) = IF Done(n) = {} THEN 0 ELSE 1
<1>0. n \in Nat /\ ~ (n < n)
  BY EventNumbers
<1>1. ASSUME NEW T, NEW s \in Seq(T), Increasing(s), NEW j \in DOMAIN s, NEW k \in DOMAIN s,
             s[j] = n, s[k] = n
      PROVE  j = k
  <2>1. j \in Nat /\ k \in Nat
    BY LenProperties
  <2> QED BY <1>0, <1>1, <2>1 DEF Increasing
<1>2. \A x, y \in InPipe(n) : x = y
  BY <1>1 DEF InPipe, LinkInv, TypeOK, Upstream
<1>3. \A c, d : <<c, n>> \in written /\ <<d, n>> \in written => c = d
  <2>1. \A c, d : <<c, n>>[2] = <<d, n>>[2] /\ <<c, n>>[1] = c /\ <<d, n>>[1] = d
    OBVIOUS
  <2> QED BY <2>1 DEF LinkInv, Sockets
<1>4. ASSUME NEW x \in OnWire(n), NEW y \in OnWire(n)
      PROVE  x = y
  <2>1. PICK c \in Conns : x \in {c} \X {k \in DOMAIN wire[c] : wire[c][k] = n}
    BY DEF OnWire
  <2>2. PICK d \in Conns : y \in {d} \X {k \in DOMAIN wire[d] : wire[d][k] = n}
    BY DEF OnWire
  <2>3. PICK j \in DOMAIN wire[c] : x = <<c, j>> /\ wire[c][j] = n
    BY <2>1
  <2>4. PICK k \in DOMAIN wire[d] : y = <<d, k>> /\ wire[d][k] = n
    BY <2>2
  <2>5. <<c, n>> \in written /\ <<d, n>> \in written
    BY <2>3, <2>4 DEF LinkInv, Downstream, WireFits, Members
  <2>6. c = d
    BY <1>3, <2>5
  <2>7. wire[c] \in Seq(EventIds) /\ Increasing(wire[c])
    BY DEF LinkInv, TypeOK, Downstream, WireFits
  <2>8. j = k
    BY <1>1, <2>3, <2>4, <2>6, <2>7
  <2> QED BY <2>3, <2>4, <2>6, <2>8
<1>5. \A x, y \in InHand(n) : x = y
  <2>1. \A x \in InHand(n) : <<x, n>> \in written
    BY EventNumbers DEF InHand, LinkInv, Downstream, WireFits
  <2> QED BY <1>3, <2>1
<1>6. ASSUME NEW x \in Done(n), NEW y \in Done(n)
      PROVE  x = y
  <2>1. x \in DOMAIN handled /\ y \in DOMAIN handled
        /\ handled[x][2] = n /\ handled[y][2] = n
    BY DEF Done
  <2>2. handled[x] \in written /\ handled[y] \in written
    BY <2>1 DEF LinkInv, Downstream, HandledFits, Members
  <2>3. handled[x][1] = handled[y][1]
    BY <2>1, <2>2 DEF LinkInv, Sockets
  <2>4. ~ (x < y) /\ ~ (y < x)
    <3>1. \A j, k \in DOMAIN handled :
            j < k /\ handled[j][1] = handled[k][1] => handled[j][2] < handled[k][2]
      BY DEF LinkInv, Downstream, HandledInOrder
    <3>2. ~ (n < n)
      BY <1>0
    <3> QED BY <2>1, <2>3, <3>1, <3>2
  <2>5. x \in Nat /\ y \in Nat
    <3>1. handled \in Seq(Conns \X EventIds)
      BY DEF LinkInv, TypeOK
    <3>2. DOMAIN handled \subseteq Nat
      BY <3>1, LenProperties
    <3> QED BY <2>1, <3>2
  <2> QED BY <2>4, <2>5
<1> QED
  BY <1>2, <1>4, <1>5, <1>6, ZeroOrOne

LEMMA InvImpliesOnce == LinkInv => AtMostOnce
<1> SUFFICES ASSUME LinkInv, NEW n \in EventIds
             PROVE  Cardinality(InPipe(n)) + Cardinality(OnWire(n))
                      + Cardinality(InHand(n)) + Cardinality(Done(n))
                      + (IF bus = n THEN 1 ELSE 0) + (IF i2c = n THEN 1 ELSE 0)
                      + (IF eth = n THEN 1 ELSE 0) <= 1
  BY DEF AtMostOnce
<1> DEFINE p == Cardinality(InPipe(n))
           w == Cardinality(OnWire(n))
           h == Cardinality(InHand(n))
           d == Cardinality(Done(n))
<1>1. /\ p = IF InPipe(n) = {} THEN 0 ELSE 1
      /\ w = IF OnWire(n) = {} THEN 0 ELSE 1
      /\ h = IF InHand(n) = {} THEN 0 ELSE 1
      /\ d = IF Done(n) = {} THEN 0 ELSE 1
  BY OneCopy
<1> HIDE DEF p, w, h, d
<1>2. p + w + h + d + (IF bus = n THEN 1 ELSE 0) + (IF i2c = n THEN 1 ELSE 0)
        + (IF eth = n THEN 1 ELSE 0) <= 1
  BY <1>1, OnePlace
<1> QED
  BY <1>2 DEF p, w, h, d

-----------------------------------------------------------------------------
(* The theorems                                                            *)

(* Every variable keeps its type, the pipe within its capacity.            *)
THEOREM TypeCorrect == Spec => []TypeOK
<1>1. LinkInv => TypeOK
  BY DEF LinkInv
<1> QED
  BY <1>1, LinkInvariant, PTL

(* The retries of run_eth_process never make a second copy of an event:    *)
(* handle_request has it once at the most.                                 *)
THEOREM HandledAtMostOnce == Spec => []AtMostOnce
  BY InvImpliesOnce, LinkInvariant, PTL

(* handle_request has an earlier event after a later one only on an older  *)
(* connection than that one's (handle_client, a thread per connection).    *)
THEOREM OrderedPerConnection == Spec => []OvertakesOnNewConnection
  BY InvImpliesInOrder, LinkInvariant, PTL

(* What a connection loses is the end of what was written to it (write,    *)
(* recv_request).                                                          *)
THEOREM ConnectionsArriveInFull == Spec => []ArrivesInFull
  BY InvImpliesFull, LinkInvariant, PTL

(* The server checks nothing of a message but its type.  What reaches      *)
(* handle_request has all the same a full license number, is of its time,  *)
(* and is in the area unless a coordinate is not a number: on whichever    *)
(* connection, after any restart, the check of the I2C process was passed. *)
THEOREM HandlesValidOnly == Spec => []OnlyValidHandled
  BY InvImpliesValid, LinkInvariant, PTL
=============================================================================
