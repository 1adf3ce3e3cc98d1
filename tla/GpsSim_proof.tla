---------------------------- MODULE GpsSim_proof ----------------------------
(***************************************************************************)
(* The board's tasks, for any intervals, durations and queue: STARTs and   *)
(* STOPs alternate, and the queue is never a message behind.               *)
(***************************************************************************)
EXTENDS GpsSim, SequenceTheorems, TLAPS

LEMMA Ranges ==
  /\ PARK_INTERVAL_MIN \in Nat /\ PARK_INTERVAL_MIN > 0 /\ PARK_INTERVAL_MAX \in Nat
  /\ PARK_DURATION_MIN \in Nat /\ PARK_DURATION_MIN > 0 /\ PARK_DURATION_MAX \in Nat
  /\ PARK_INTERVAL_MIN <= PARK_INTERVAL_MAX
  /\ PARK_DURATION_MIN <= PARK_DURATION_MAX
  /\ MaxUtc \in Nat /\ START_UTC \in 0 .. MaxUtc
  /\ MaxLoop \in Nat /\ MaxLoop > 0
  BY GpsSimAssumption

(* Taking the only element of a queue.                                     *)
LEMMA OnlyElement ==
  ASSUME NEW S, NEW q \in Seq(S), Len(q) <= 1, q # <<>>
  PROVE  Len(q) = 1 /\ Head(q) \in S /\ Tail(q) = <<>>
<1>1. Len(q) \in Nat /\ Len(q) # 0
  BY EmptySeq
<1>2. Tail(q) \in Seq(S) /\ Len(Tail(q)) = Len(q) - 1 /\ Head(q) \in S
  BY HeadTailProperties
<1> QED
  BY <1>1, <1>2, EmptySeq

-----------------------------------------------------------------------------
(* The scheduler                                                           *)

\* Where the message is: it leaves the GPS task only when it is put, and the
\* GPS task goes on only when the sender is rid of it.
OneMessage ==
  /\ Len(queue) <= 1
  /\ sending # Nothing => queue = <<>>
  /\ ~GpsRuns => gps = "after"

\* What the counters say, at the beginning of a turn, of the last event.
CountersFit ==
  /\ ~is_parking => event.type = "STOP" /\ until_next_park > 0
  /\ is_parking =>
       /\ park_duration \in Durations
       /\ park_counter <= park_duration
       /\ event.type = IF park_counter = 0 THEN "STOP" ELSE "START"

\* And in the middle of one, when the message is made.
MessageFits ==
  /\ msg.type = MessageType
  /\ ~is_parking => event.type = "STOP" /\ until_next_park > 0
  /\ is_parking =>
       /\ park_duration \in Durations
       /\ park_counter <= park_duration
       /\ event.type = IF msg.type = "STOP" THEN "STOP" ELSE "START"

BoardInv ==
  /\ TypeOK
  /\ OneMessage
  /\ gps \in {"turn", "delay"} => CountersFit
  /\ gps \in {"put", "after"} => MessageFits

LEMMA BoardInit ==
  ASSUME Init
  PROVE  BoardInv
<1>1. TypeOK
  <2>1. until_next_park \in 0 .. PARK_INTERVAL_MAX
    BY Ranges DEF Init, Intervals
  <2>2. msg \in Message /\ event \in [type : {"START", "STOP"}, utc : 0 .. MaxUtc]
    BY Ranges DEF Init, Message, Types
  <2>3. queue \in Seq(Message) /\ sending \in Message \cup {Nothing}
    BY DEF Init
  <2>4. /\ utc_seconds \in 0 .. MaxUtc
        /\ park_counter \in 0 .. PARK_DURATION_MAX
        /\ elapsed \in 0 .. MaxLoop
    <3>1. utc_seconds = START_UTC /\ park_counter = 0 /\ elapsed = 0
      BY DEF Init
    <3> QED
      BY <3>1, Ranges
  <2>6. is_parking \in BOOLEAN
    BY DEF Init
  <2>5. park_duration \in Durations \cup {0}
        /\ gps \in {"turn", "put", "after", "delay"}
    BY DEF Init
  <2> QED
    BY <2>1, <2>2, <2>3, <2>4, <2>5, <2>6 DEF TypeOK
<1>2. OneMessage
  BY DEF Init, OneMessage, GpsRuns
<1>3. CountersFit
  BY Ranges DEF Init, CountersFit, Intervals
<1> QED
  BY <1>1, <1>2, <1>3 DEF BoardInv, Init

LEMMA MessageTypes == MessageType \in Types
  BY DEF MessageType, Types

(* The queue and the sender's message, under the steps that move them.     *)
LEMMA QueueStep ==
  ASSUME TypeOK, OneMessage, Next
  PROVE  OneMessage'
<1>1. queue \in Seq(Message) /\ Nothing \notin Message
  BY DEF TypeOK, Message, Types, Nothing
<1>2. CASE Put
  BY <1>1, <1>2 DEF Put, OneMessage, GpsRuns, TypeOK
<1>3. CASE Get
  <2>1. Len(queue) = 1 /\ queue' = <<>>
    BY <1>1, <1>3, OnlyElement DEF Get, OneMessage
  <2> QED
    BY <2>1, <1>3 DEF Get, OneMessage, GpsRuns
<1>4. CASE Sent
  BY <1>4 DEF Sent, OneMessage, GpsRuns
<1>5. CASE Tick \/ Compose \/ Continue \/ Wake
  BY <1>5 DEF Tick, Compose, Continue, Wake, OneMessage, GpsRuns
<1> QED
  BY <1>2, <1>3, <1>4, <1>5 DEF Next, Gps, Sender

(* One step of a turn: the counters and the message stay in step.          *)
LEMMA TurnStep ==
  ASSUME BoardInv, Continue
  PROVE  /\ CountersFit'
         /\ is_parking' \in BOOLEAN
         /\ park_counter' \in 0 .. PARK_DURATION_MAX
         /\ park_duration' \in Durations \cup {0}
         /\ until_next_park' \in 0 .. PARK_INTERVAL_MAX
<1>1. TypeOK /\ MessageFits /\ event' = event
  BY DEF BoardInv, Continue
<1>0. /\ is_parking \in BOOLEAN
      /\ park_counter \in 0 .. PARK_DURATION_MAX
      /\ park_duration \in Durations \cup {0}
      /\ until_next_park \in 0 .. PARK_INTERVAL_MAX
  BY <1>1 DEF TypeOK
<1>2. CASE Parked
  <2>1. is_parking /\ event.type = "STOP" /\ park_duration \in Durations
    BY <1>1, <1>2 DEF Parked, MessageFits, MessageType, TypeOK
  <2>2. until_next_park' \in Nat /\ until_next_park' > 0
        /\ until_next_park' <= PARK_INTERVAL_MAX
    BY <1>2, Ranges DEF Parked, Intervals
  <2>3. is_parking' = FALSE /\ park_counter' = 1 /\ park_duration' = park_duration
    BY <1>2 DEF Parked
  <2>4. CountersFit'
    BY <1>1, <2>1, <2>2, <2>3 DEF CountersFit
  <2>5. is_parking' \in BOOLEAN /\ park_duration' \in Durations \cup {0}
    BY <1>0, <2>3
  <2>6. 1 \in 0 .. PARK_DURATION_MAX
    BY Ranges
  <2>7. /\ park_counter' \in 0 .. PARK_DURATION_MAX
        /\ until_next_park' \in 0 .. PARK_INTERVAL_MAX
    BY <2>2, <2>3, <2>6, Ranges
  <2> QED
    BY <2>4, <2>5, <2>7
<1>3. CASE Parking
  <2>1. /\ park_counter \in Nat /\ park_duration \in Nat /\ park_duration > 0
        /\ park_duration <= PARK_DURATION_MAX
        /\ park_counter <= park_duration
        /\ park_counter = 0 \/ park_counter < park_duration
        /\ event.type = "START"
        /\ park_duration \in Durations
    BY <1>1, <1>3, Ranges
       DEF Parking, MessageFits, MessageType, TypeOK, Durations
  <2>2. /\ is_parking /\ is_parking' = is_parking
        /\ park_counter' = park_counter + 1
        /\ park_duration' = park_duration
        /\ until_next_park' = until_next_park
    BY <1>3 DEF Parking
  <2>3. /\ park_counter' \in Nat /\ park_counter' # 0
        /\ park_counter' <= park_duration
        /\ park_counter' <= PARK_DURATION_MAX
    BY <2>1, <2>2, Ranges
  <2>4. CountersFit'
    BY <1>1, <2>1, <2>2, <2>3 DEF CountersFit
  <2> QED
    BY <1>0, <2>2, <2>3, <2>4
<1>4. CASE Driving
  <2>1. /\ until_next_park \in Nat /\ until_next_park > 0
        /\ until_next_park <= PARK_INTERVAL_MAX
        /\ event.type = "STOP" /\ ~is_parking
    BY <1>1, <1>4, Ranges DEF Driving, MessageFits, TypeOK
  <2>2. until_next_park' \in 0 .. PARK_INTERVAL_MAX
    BY <1>4, <2>1, Ranges DEF Driving
  <2>3. CASE until_next_park' = 0
    <3>1. is_parking' = TRUE /\ park_duration' \in Durations /\ park_counter' = 0
      BY <1>4, <2>3 DEF Driving
    <3>2. park_counter' <= park_duration'
      BY <3>1, Ranges DEF Durations
    <3>3. CountersFit'
      BY <1>1, <2>1, <3>1, <3>2 DEF CountersFit
    <3> QED
      BY <2>2, <3>1, <3>3, Ranges
  <2>4. CASE until_next_park' # 0
    <3>1. UNCHANGED <<is_parking, park_duration, park_counter>>
      BY <1>4, <2>4 DEF Driving
    <3>2. until_next_park' > 0
      BY <2>2, <2>4, Ranges
    <3>3. CountersFit'
      BY <1>1, <2>1, <3>1, <3>2 DEF CountersFit
    <3> QED
      BY <1>0, <2>2, <3>1, <3>3
  <2> QED
    BY <2>3, <2>4
<1> QED
  BY <1>2, <1>3, <1>4 DEF Continue

LEMMA BoardStep ==
  ASSUME BoardInv, [Next]_vars
  PROVE  BoardInv'
<1>1. TypeOK /\ OneMessage
  BY DEF BoardInv
<1>2. CASE Tick
  <2>1. TypeOK'
    BY <1>1, <1>2, Ranges DEF Tick, TypeOK, counters
  <2> QED
    BY <1>1, <1>2, <2>1, QueueStep
       DEF Tick, counters, BoardInv, CountersFit, MessageFits, MessageType, Next
<1>3. CASE Compose
  <2>1. msg'.type = MessageType /\ msg' \in Message /\ msg'.utc = utc_seconds
    BY <1>1, <1>3, MessageTypes DEF Compose, TypeOK, Message
  <2>2. event' \in [type : {"START", "STOP"}, utc : 0 .. MaxUtc]
    <3>1. CASE MessageType = "IDLE"
      BY <1>1, <1>3, <3>1 DEF Compose, TypeOK
    <3>2. CASE MessageType # "IDLE"
      <4>1. MessageType \in {"START", "STOP"}
        BY <3>2, MessageTypes DEF Types
      <4> QED
        BY <1>1, <1>3, <3>2, <4>1 DEF Compose, TypeOK
    <3> QED
      BY <3>1, <3>2
  <2>3. TypeOK'
    BY <1>1, <1>3, <2>1, <2>2, Ranges DEF Compose, TypeOK, counters
  <2>4. MessageType' = MessageType
    BY <1>3 DEF Compose, counters, MessageType
  <2>5. CountersFit
    BY <1>3 DEF BoardInv, Compose
  <2>6. event'.type = IF MessageType = "IDLE" THEN event.type ELSE MessageType
    BY <1>3 DEF Compose
  <2>7. MessageFits'
    BY <1>1, <1>3, <2>1, <2>4, <2>5, <2>6, Ranges
       DEF Compose, counters, CountersFit, MessageFits, MessageType, TypeOK, Durations
  <2> QED
    BY <1>1, <1>3, <2>3, <2>7, QueueStep DEF BoardInv, Compose, Next, Gps
<1>4. CASE Put
  <2>1. TypeOK'
    BY <1>1, <1>4 DEF Put, TypeOK, counters
  <2> QED
    BY <1>1, <1>4, <2>1, QueueStep
       DEF Put, counters, BoardInv, CountersFit, MessageFits, MessageType, Next, Gps
<1>5. CASE Continue
  <2>1. TypeOK'
    BY <1>1, <1>5, TurnStep DEF Continue, TypeOK
  <2> QED
    BY <1>1, <1>5, <2>1, TurnStep, QueueStep DEF Continue, BoardInv, Next, Gps
<1>6. CASE Wake
  <2>1. TypeOK'
    BY <1>1, <1>6 DEF Wake, TypeOK, counters
  <2> QED
    BY <1>1, <1>6, <2>1, QueueStep
       DEF Wake, counters, BoardInv, CountersFit, MessageFits, MessageType, Next, Gps
<1>7. CASE Get \/ Sent
  <2>1. queue' \in Seq(Message) /\ sending' \in Message \cup {Nothing}
    <3>1. CASE Get
      <4>1. sending' \in Message /\ queue' = <<>>
        BY <1>1, <3>1, OnlyElement DEF Get, TypeOK, OneMessage
      <4> QED
        BY <4>1
    <3>2. CASE Sent
      BY <1>1, <3>2 DEF Sent, TypeOK
    <3> QED
      BY <1>7, <3>1, <3>2
  <2>2. TypeOK'
    BY <1>1, <1>7, <2>1 DEF Get, Sent, TypeOK, counters
  <2> QED
    BY <1>1, <1>7, <2>2, QueueStep
       DEF Get, Sent, counters, BoardInv, CountersFit, MessageFits, MessageType,
           Next, Sender
<1>8. CASE UNCHANGED vars
  BY <1>1, <1>8
     DEF vars, BoardInv, TypeOK, OneMessage, GpsRuns, CountersFit, MessageFits,
         MessageType
<1> QED
  BY <1>2, <1>3, <1>4, <1>5, <1>6, <1>7, <1>8 DEF Next, Gps, Sender

-----------------------------------------------------------------------------
LEMMA AlwaysBoardInv == Spec => []BoardInv
  BY BoardInit, BoardStep, PTL DEF Spec

(* The counters of gps_sim.c stay in their ranges: until_next_park is never *)
(* decremented below 0, where the uint32_t would wrap.                     *)
THEOREM CountersInRange == Spec => []TypeOK
<1>1. BoardInv => TypeOK
  BY DEF BoardInv
<1> QED
  BY <1>1, AlwaysBoardInv, PTL

(* Between two STARTs of the board there is a STOP, and the reverse, for   *)
(* any intervals and durations.                                            *)
THEOREM StartsAndStopsAlternate == Spec => Alternates
<1> DEFINE Fine == event' # event => event'.type # event.type
<1>1. ASSUME BoardInv, [Next]_vars
      PROVE  [Fine]_vars
  <2>1. CASE Compose
    <3>1. TypeOK /\ CountersFit
      BY <1>1, <2>1 DEF BoardInv, Compose
    <3>2. event'.type = IF MessageType = "IDLE" THEN event.type ELSE MessageType
      BY <2>1 DEF Compose
    <3>3. MessageType = "IDLE" => event' = event
      BY <2>1 DEF Compose
    <3> QED
      BY <3>1, <3>2, <3>3, Ranges DEF CountersFit, MessageType, TypeOK, Durations
  <2>2. CASE Tick \/ Put \/ Continue \/ Wake \/ Get \/ Sent \/ UNCHANGED vars
    BY <2>2 DEF Tick, Put, Continue, Wake, Get, Sent, vars
  <2> QED
    BY <1>1, <2>1, <2>2 DEF Next, Gps, Sender
<1>2. Alternates <=> [][Fine]_vars
  BY DEF Alternates
<1> QED
  BY <1>1, <1>2, AlwaysBoardInv, PTL DEF Spec

-----------------------------------------------------------------------------
(* The age of what is offered                                              *)

\* The message on its way is the one the GPS task has made this turn.
Fresh ==
  /\ gps \in {"put", "after"} => Since(msg.utc, utc_seconds) <= elapsed
  /\ queue # <<>> => Head(queue) = msg
  /\ sending # Nothing => sending = msg

(* A message that has left the GPS task waits for nobody.                  *)
LEMMA FreshStep ==
  ASSUME BoardInv, Fresh, [Next]_vars
  PROVE  Fresh'
<1>1. /\ TypeOK /\ OneMessage /\ elapsed \in Int /\ utc_seconds \in 0 .. MaxUtc
      /\ msg.utc \in 0 .. MaxUtc /\ queue \in Seq(Message)
  BY Ranges DEF BoardInv, TypeOK, Message
<1>2. CASE Tick
  <2>0. /\ msg.utc \in Int /\ utc_seconds \in Int /\ MaxUtc \in Int /\ 0 <= msg.utc
        /\ utc_seconds <= MaxUtc /\ msg.utc <= MaxUtc
        /\ utc_seconds' = IF utc_seconds = MaxUtc THEN 0 ELSE utc_seconds + 1
    BY <1>1, <1>2, Ranges DEF Tick
  <2>1. Since(msg.utc, utc_seconds') <= Since(msg.utc, utc_seconds) + 1
    BY <2>0 DEF Since
  <2>2. Since(msg.utc, utc_seconds) \in Int /\ Since(msg.utc, utc_seconds') \in Int
    <3>1. utc_seconds' \in Int
      BY <2>0
    <3>2. \A from, to \in Int : Since(from, to) \in Int
      BY <2>0 DEF Since
    <3> QED BY <2>0, <3>1, <3>2
  <2>3. /\ elapsed' = elapsed + 1
        /\ UNCHANGED <<gps, msg, queue, sending>>
    BY <1>2 DEF Tick
  <2>4. gps \in {"put", "after"} => Since(msg.utc, utc_seconds') <= elapsed'
    BY <1>1, <2>1, <2>2, <2>3 DEF Fresh
  <2> QED
    BY <2>3, <2>4 DEF Fresh
<1>3. CASE Compose
  <2>1. Since(utc_seconds, utc_seconds) = 0
    BY <1>1, Ranges DEF Since
  <2>2. /\ msg'.utc = utc_seconds /\ utc_seconds' = utc_seconds /\ elapsed' = 0
        /\ queue' = <<>> /\ sending' = Nothing
    BY <1>3 DEF Compose, GpsRuns
  <2> QED
    BY <2>1, <2>2 DEF Fresh
<1>4. CASE Put
  <2>1. /\ queue' = Append(queue, msg) /\ queue = <<>>
        /\ sending' = Nothing /\ sending = Nothing /\ gps = "put"
        /\ UNCHANGED <<utc_seconds, msg, elapsed>>
    BY <1>4 DEF Put, GpsRuns
  <2>2. Append(<<>>, msg) = <<msg>>
    BY <2>1
  <2>3. Head(queue') = msg'
    BY <2>1, <2>2
  <2> QED
    BY <2>1, <2>3 DEF Fresh
<1>5. CASE Continue \/ Wake
  BY <1>5 DEF Continue, Wake, Fresh
<1>6. CASE Get
  <2>1. queue' = <<>>
    BY <1>1, <1>6, OnlyElement DEF Get, OneMessage
  <2> QED
    BY <1>6, <2>1 DEF Get, Fresh
<1>7. CASE Sent
  BY <1>7 DEF Sent, Fresh
<1>8. CASE UNCHANGED vars
  BY <1>8 DEF vars, Fresh
<1> QED
  BY <1>2, <1>3, <1>4, <1>5, <1>6, <1>7, <1>8 DEF Next, Gps, Sender

(* By its priority the sender takes a message at once, and the GPS task    *)
(* waits until it is rid of it: what is offered on the bus is never older  *)
(* than the turn of the loop, also when the clock wraps.                   *)
THEOREM NeverOffersStale == Spec => []OffersAreFresh
<1>1. Init => Fresh
  BY DEF Init, Fresh
<1>2. BoardInv /\ Fresh => OffersAreFresh
  <2> SUFFICES ASSUME BoardInv, Fresh, sending # Nothing
               PROVE  Since(sending.utc, utc_seconds) <= elapsed
    BY DEF OffersAreFresh
  <2>1. gps = "after" /\ sending = msg
    BY DEF BoardInv, OneMessage, GpsRuns, Fresh
  <2> QED
    BY <2>1 DEF Fresh
<1> QED
  BY <1>1, <1>2, FreshStep, AlwaysBoardInv, PTL DEF Spec

-----------------------------------------------------------------------------
(* The length of a parking                                                 *)

\* The clock does not come round during the longest parking.
ClockOutlastsParking == PARK_DURATION_MAX * MaxLoop <= MaxUtc

\* Turns of the loop since the START that are over: the counter moves on in
\* the middle of a turn.
TurnsOver == IF gps \in {"put", "after"} THEN park_counter ELSE park_counter - 1

\* During a parking the clock tells what the counter does: each turn that is
\* over took one second at least and MaxLoop at most, the present one so far
\* took "elapsed".
ClockFitsCounter ==
  is_parking /\ event.type = "START" =>
    /\ Since(event.utc, utc_seconds)
         \in TurnsOver + elapsed .. TurnsOver * MaxLoop + elapsed
    /\ gps = "turn" => elapsed > 0

LEMMA TimesMonotonic ==
  ASSUME NEW a \in Int, NEW b \in Int, NEW m \in Nat, a <= b
  PROVE  /\ a * m \in Int /\ b * m \in Int /\ a * m <= b * m
         /\ (a + 1) * m = a * m + m
  OBVIOUS

(* During a parking the turns that are over are fewer than the duration.   *)
LEMMA TurnsFitDuration ==
  ASSUME BoardInv, is_parking, event.type = "START"
  PROVE  /\ TurnsOver \in Nat /\ TurnsOver + 1 <= park_duration
         /\ park_duration \in Nat /\ park_duration <= PARK_DURATION_MAX
         /\ gps \in {"turn", "delay"} => park_counter = TurnsOver + 1
         /\ gps \in {"put", "after"} => park_counter = TurnsOver
<1>1. park_counter \in Nat /\ gps \in {"turn", "put", "after", "delay"}
  BY Ranges DEF BoardInv, TypeOK
<1>2. CASE gps \in {"turn", "delay"}
  <2>1. park_counter # 0 /\ park_counter <= park_duration /\ park_duration \in Durations
    BY <1>2 DEF BoardInv, CountersFit
  <2> QED BY <1>1, <1>2, <2>1, Ranges DEF TurnsOver, Durations
<1>3. CASE gps \in {"put", "after"}
  <2>1. /\ park_counter <= park_duration /\ park_duration \in Durations
        /\ MessageType # "STOP"
    BY <1>3 DEF BoardInv, MessageFits
  <2>2. park_counter = 0 \/ park_counter < park_duration
    BY <1>1, <2>1, Ranges DEF MessageType, Durations
  <2> QED BY <1>1, <1>3, <2>1, <2>2, Ranges DEF TurnsOver, Durations
<1> QED
  BY <1>1, <1>2, <1>3

(* A second passes.                                                        *)
LEMMA SinceTick ==
  ASSUME NEW e \in 0 .. MaxUtc, NEW t \in 0 .. MaxUtc, Since(e, t) < MaxUtc
  PROVE  Since(e, IF t = MaxUtc THEN 0 ELSE t + 1) = Since(e, t) + 1
  BY Ranges DEF Since

LEMMA ClockFitsStep ==
  ASSUME ClockOutlastsParking, BoardInv, BoardInv', ClockFitsCounter, [Next]_vars
  PROVE  ClockFitsCounter'
<1> SUFFICES ASSUME is_parking', event'.type = "START"
             PROVE  /\ Since(event'.utc, utc_seconds')
                         \in TurnsOver' + elapsed' .. TurnsOver' * MaxLoop + elapsed'
                    /\ gps' = "turn" => elapsed' > 0
  BY DEF ClockFitsCounter
<1> DEFINE now  == Since(event.utc, utc_seconds)
<1>1. /\ elapsed \in 0 .. MaxLoop /\ utc_seconds \in 0 .. MaxUtc
      /\ event.utc \in 0 .. MaxUtc
      /\ MaxLoop \in Nat /\ MaxUtc \in Nat /\ PARK_DURATION_MAX \in Nat
  BY Ranges DEF BoardInv, TypeOK
<1>2. now \in Int
  BY <1>1 DEF Since
<1>3. is_parking /\ event.type = "START" =>
        now \in TurnsOver + elapsed .. TurnsOver * MaxLoop + elapsed
  BY DEF ClockFitsCounter
<1>4. CASE Tick
  <2>1. /\ UNCHANGED <<event, gps, park_counter, is_parking, park_duration>>
        /\ elapsed' = elapsed + 1 /\ elapsed < MaxLoop
        /\ utc_seconds' = IF utc_seconds = MaxUtc THEN 0 ELSE utc_seconds + 1
    BY <1>4 DEF Tick, counters
  <2>2. is_parking /\ event.type = "START" /\ TurnsOver' = TurnsOver
    BY <2>1 DEF TurnsOver
  <2>3. /\ TurnsOver \in Nat /\ TurnsOver + 1 <= park_duration
        /\ park_duration \in Nat /\ park_duration <= PARK_DURATION_MAX
    BY <2>2, TurnsFitDuration
  <2>4. TurnsOver + 1 \in Int /\ TurnsOver + 1 <= PARK_DURATION_MAX
    BY <1>1, <2>3
  <2>5. /\ TurnsOver * MaxLoop \in Int
        /\ (TurnsOver + 1) * MaxLoop = TurnsOver * MaxLoop + MaxLoop
        /\ (TurnsOver + 1) * MaxLoop <= PARK_DURATION_MAX * MaxLoop
        /\ PARK_DURATION_MAX * MaxLoop \in Int
    BY <1>1, <2>3, <2>4, TimesMonotonic
  <2>6. now < MaxUtc
    BY <1>1, <1>2, <1>3, <2>1, <2>2, <2>3, <2>5 DEF ClockOutlastsParking
  <2>7. Since(event'.utc, utc_seconds') = now + 1
    BY <1>1, <2>1, <2>6, SinceTick
  <2> HIDE DEF now
  <2> QED BY <1>1, <1>2, <1>3, <2>1, <2>2, <2>3, <2>5, <2>7
<1>5. CASE Compose
  <2>1. /\ gps = "turn" /\ gps' = "put" /\ elapsed' = 0
        /\ UNCHANGED <<utc_seconds, is_parking, park_counter, park_duration>>
        /\ event' = IF MessageType = "IDLE" THEN event ELSE msg'
        /\ msg' = [type |-> MessageType, utc |-> utc_seconds]
    BY <1>5 DEF Compose, counters
  <2>2. park_counter \in Nat /\ TurnsOver' = park_counter
    BY <2>1, Ranges DEF TurnsOver, BoardInv, TypeOK
  <2>3. CASE MessageType = "IDLE"
    <3>1. is_parking /\ event.type = "START" /\ event' = event
      BY <2>1, <2>3
    <3>2. TurnsOver \in Nat /\ park_counter = TurnsOver + 1
      BY <2>1, <3>1, TurnsFitDuration
    <3>3. /\ TurnsOver * MaxLoop \in Int
          /\ (TurnsOver + 1) * MaxLoop = TurnsOver * MaxLoop + MaxLoop
      BY <1>1, <3>2, TimesMonotonic
    <3>4. elapsed > 0
      BY <2>1, <3>1 DEF ClockFitsCounter
    <3>5. Since(event'.utc, utc_seconds') = now
      BY <2>1, <3>1
    <3> HIDE DEF now
    <3> QED BY <1>1, <1>2, <1>3, <2>1, <2>2, <3>1, <3>2, <3>3, <3>4, <3>5
  <2>4. CASE MessageType # "IDLE"
    <3>1. event'.utc = utc_seconds /\ MessageType = "START"
      BY <2>1, <2>4
    <3>2. park_counter = 0 /\ 0 * MaxLoop = 0
      BY <1>1, <3>1 DEF MessageType
    <3>3. Since(event'.utc, utc_seconds') = 0
      BY <1>1, <2>1, <3>1 DEF Since
    <3> QED BY <2>1, <2>2, <3>2, <3>3
  <2> QED BY <2>3, <2>4
<1>6. CASE Put
  <2>1. /\ UNCHANGED <<event, utc_seconds, park_counter, is_parking, elapsed>>
        /\ gps = "put" /\ gps' = "after"
    BY <1>6 DEF Put, counters
  <2>2. TurnsOver' = TurnsOver
    BY <2>1 DEF TurnsOver
  <2> QED BY <1>3, <2>1, <2>2
<1>7. CASE Continue
  <2>1. /\ UNCHANGED <<event, utc_seconds, elapsed>>
        /\ gps = "after" /\ gps' = "delay"
    BY <1>7 DEF Continue
  <2>2. CASE Parked
    BY <2>2 DEF Parked
  <2>3. CASE Parking
    <3>1. is_parking /\ park_counter' = park_counter + 1 /\ park_counter \in Nat
      BY <2>3, Ranges DEF Parking, BoardInv, TypeOK
    <3>2. TurnsOver' = TurnsOver
      BY <2>1, <3>1 DEF TurnsOver
    <3> QED BY <1>3, <2>1, <3>1, <3>2
  <2>4. CASE Driving
    <3>1. ~is_parking /\ event.type = "STOP"
      BY <2>1, <2>4 DEF Driving, BoardInv, MessageFits
    <3> QED BY <2>1, <3>1
  <2> QED BY <1>7, <2>2, <2>3, <2>4 DEF Continue
<1>8. CASE Wake
  <2>1. /\ UNCHANGED <<event, utc_seconds, elapsed, is_parking, park_counter>>
        /\ gps = "delay" /\ gps' = "turn" /\ elapsed > 0
    BY <1>8 DEF Wake, counters
  <2>2. TurnsOver' = TurnsOver
    BY <2>1 DEF TurnsOver
  <2> QED BY <1>3, <2>1, <2>2
<1>9. CASE Get \/ Sent \/ UNCHANGED vars
  <2>1. UNCHANGED <<event, utc_seconds, elapsed, is_parking, park_counter, gps>>
    BY <1>9 DEF Get, Sent, vars, counters
  <2>2. TurnsOver' = TurnsOver
    BY <2>1 DEF TurnsOver
  <2> QED BY <1>3, <2>1, <2>2 DEF ClockFitsCounter
<1> QED
  BY <1>4, <1>5, <1>6, <1>7, <1>8, <1>9 DEF Next, Gps, Sender

(* What the time stamps of a START and its STOP say of the parking: as     *)
(* long as it was drawn, up to the length of the loop's turns, also when   *)
(* the clock starts again at 0 in between.                                 *)
THEOREM ParksAsLongAsDrawn ==
  ASSUME ClockOutlastsParking
  PROVE  Spec => DurationAsDrawn
<1> DEFINE Fine == event'.type = "STOP" /\ event.type = "START" =>
                     Since(event.utc, event'.utc)
                       \in park_duration .. park_duration * MaxLoop
<1>1. Init => ClockFitsCounter
  BY DEF Init, ClockFitsCounter
<1>2. ASSUME BoardInv, ClockFitsCounter, [Next]_vars
      PROVE  [Fine]_vars
  <2> SUFFICES ASSUME event'.type = "STOP", event.type = "START"
               PROVE  Since(event.utc, event'.utc)
                        \in park_duration .. park_duration * MaxLoop
    BY DEF Fine
  <2>1. Compose
    BY <1>2 DEF Next, Gps, Sender, Tick, Put, Continue, Wake, Get, Sent, vars
  <2>2. gps = "turn" /\ MessageType = "STOP" /\ event'.utc = utc_seconds
    BY <2>1 DEF Compose
  <2>3. is_parking /\ park_counter >= park_duration
    BY <2>2 DEF MessageType
  <2>4. /\ TurnsOver \in Nat /\ TurnsOver + 1 <= park_duration
        /\ park_duration \in Nat /\ park_counter = TurnsOver + 1
    BY <1>2, <2>2, <2>3, TurnsFitDuration
  <2>5. /\ elapsed \in 0 .. MaxLoop /\ MaxLoop \in Nat
        /\ utc_seconds \in 0 .. MaxUtc /\ event.utc \in 0 .. MaxUtc /\ MaxUtc \in Nat
    BY <1>2, Ranges DEF BoardInv, TypeOK
  <2>6. /\ TurnsOver * MaxLoop \in Int
        /\ (TurnsOver + 1) * MaxLoop = TurnsOver * MaxLoop + MaxLoop
    BY <2>4, <2>5, TimesMonotonic
  <2>7. /\ Since(event.utc, utc_seconds)
             \in TurnsOver + elapsed .. TurnsOver * MaxLoop + elapsed
        /\ elapsed > 0
    BY <1>2, <2>2, <2>3 DEF ClockFitsCounter
  <2>8. TurnsOver + 1 = park_duration
    BY <2>3, <2>4
  <2> QED BY <2>2, <2>4, <2>5, <2>6, <2>7, <2>8
<1>3. DurationAsDrawn <=> [][Fine]_vars
  BY DEF DurationAsDrawn
<1>4. BoardInv /\ BoardInv' /\ ClockFitsCounter /\ [Next]_vars => ClockFitsCounter'
  BY ClockFitsStep
<1> QED
  BY <1>1, <1>2, <1>3, <1>4, AlwaysBoardInv, PTL DEF Spec
=============================================================================
