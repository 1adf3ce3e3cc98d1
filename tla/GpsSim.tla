-------------------------------- MODULE GpsSim --------------------------------
(***************************************************************************)
(* The board of a vehicle: the GPS task (STM32/GPS_sim/Src/gps_sim.c), the *)
(* I2C sender task (i2c_send.c), the queue between them and the interrupt  *)
(* of TIM7 that counts the seconds (STM32/Core/Src/main.c).                *)
(*                                                                         *)
(* FreeRTOS preempts: the sender has the higher priority, and does not     *)
(* yield while it prints and waits for the I2C master.  The GPS task runs  *)
(* only while the sender waits for a message; the interrupt comes any time.*)
(***************************************************************************)
EXTENDS Integers, Sequences

CONSTANTS
  PARK_INTERVAL_MIN, PARK_INTERVAL_MAX,
  PARK_DURATION_MIN, PARK_DURATION_MAX,
  QueueSize,   (* messages gpsMsgQueue holds; 16 in the code               *)
  MaxUtc,      (* the last value of utc_seconds before it is 0 again       *)
  START_UTC,
  MaxLoop      (* bound: ticks of TIM7 in one turn of the GPS task's loop; *)
               (* osDelay(1000), one I2C_TIMO and printing see 3 at most   *)

ASSUME GpsSimAssumption ==
  /\ PARK_INTERVAL_MIN \in Nat \ {0} /\ PARK_INTERVAL_MAX \in Nat
  /\ PARK_DURATION_MIN \in Nat \ {0} /\ PARK_DURATION_MAX \in Nat
  /\ PARK_INTERVAL_MIN <= PARK_INTERVAL_MAX
  /\ PARK_DURATION_MIN <= PARK_DURATION_MAX
  /\ QueueSize \in Nat \ {0}
  /\ MaxUtc \in Nat /\ START_UTC \in 0 .. MaxUtc
  /\ MaxLoop \in Nat \ {0}

VARIABLES
  utc_seconds,
  is_parking, park_counter, park_duration, until_next_park,
  gps,         (* the GPS task is at "turn", "put", "after" or "delay"     *)
  msg,         (* its message                                              *)
  queue,       (* gpsMsgQueue                                              *)
  sending,     (* the sender's message while it has one                    *)
  elapsed,     (* seconds in this turn of the loop                         *)
  event        (* the last START or STOP the GPS task has made             *)

vars == <<utc_seconds, is_parking, park_counter, park_duration,
          until_next_park, gps, msg, queue, sending, elapsed, event>>

counters == <<is_parking, park_counter, park_duration, until_next_park>>

Types   == {"IDLE", "START", "STOP"}
Message == [type : Types, utc : 0 .. MaxUtc]
Nothing == [type |-> "nothing", utc |-> 0]

Intervals == PARK_INTERVAL_MIN .. PARK_INTERVAL_MAX
Durations == PARK_DURATION_MIN .. PARK_DURATION_MAX

TypeOK ==
  /\ utc_seconds \in 0 .. MaxUtc
  /\ is_parking \in BOOLEAN
  /\ park_counter \in 0 .. PARK_DURATION_MAX
  /\ park_duration \in Durations \cup {0}
  /\ until_next_park \in 0 .. PARK_INTERVAL_MAX
  /\ gps \in {"turn", "put", "after", "delay"}
  /\ msg \in Message
  /\ queue \in Seq(Message)
  /\ sending \in Message \cup {Nothing}
  /\ elapsed \in 0 .. MaxLoop
  /\ event \in [type : {"START", "STOP"}, utc : 0 .. MaxUtc]

Init ==
  /\ utc_seconds = START_UTC
  /\ is_parking = FALSE /\ park_counter = 0 /\ park_duration = 0
  /\ until_next_park \in Intervals
  /\ gps = "turn"
  /\ msg = [type |-> "IDLE", utc |-> START_UTC]
  /\ queue = <<>>
  /\ sending = Nothing
  /\ elapsed = 0
  /\ event = [type |-> "STOP", utc |-> START_UTC]

\* HAL_TIM_PeriodElapsedCallback for TIM7.
Tick ==
  /\ elapsed < MaxLoop
  /\ utc_seconds' = IF utc_seconds = MaxUtc THEN 0 ELSE utc_seconds + 1
  /\ elapsed' = elapsed + 1
  /\ UNCHANGED <<counters, gps, msg, queue, sending, event>>

-----------------------------------------------------------------------------
(* The GPS task                                                            *)

\* Mutant: both tasks have one priority, and either may run.
GpsRuns_always == TRUE

GpsRuns == sending = Nothing /\ queue = <<>>

\* Mutant: the duration is compared without the case of equality.
MessageType_later ==
  IF ~is_parking THEN "IDLE"
  ELSE IF park_counter = 0 THEN "START"
  ELSE IF park_counter > park_duration THEN "STOP" ELSE "IDLE"

MessageType ==
  IF ~is_parking THEN "IDLE"
  ELSE IF park_counter = 0 THEN "START"
  ELSE IF park_counter >= park_duration THEN "STOP" ELSE "IDLE"

\* send_gps_msg, up to the queue.
Compose ==
  /\ GpsRuns /\ gps = "turn"
  /\ msg' = [type |-> MessageType, utc |-> utc_seconds]
  /\ event' = IF MessageType = "IDLE" THEN event ELSE msg'
  /\ elapsed' = 0
  /\ gps' = "put"
  /\ UNCHANGED <<utc_seconds, counters, queue, sending>>

\* osMessageQueuePut, which waits for room.
Put ==
  /\ GpsRuns /\ gps = "put"
  /\ Len(queue) < QueueSize
  /\ queue' = Append(queue, msg)
  /\ gps' = "after"
  /\ UNCHANGED <<utc_seconds, counters, msg, sending, elapsed, event>>

\* Mutant: the interval until the next parking is not drawn anew.
Parked_noInterval ==
  /\ msg.type = "STOP"
  /\ is_parking' = FALSE
  /\ park_counter' = 1
  /\ UNCHANGED <<park_duration, until_next_park>>

\* Mutant: is_parking stays set after the STOP.
Parked_on ==
  /\ msg.type = "STOP"
  /\ until_next_park' \in Intervals
  /\ park_counter' = 1
  /\ UNCHANGED <<is_parking, park_duration>>

\* The rest of the turn after a STOP ...
Parked ==
  /\ msg.type = "STOP"
  /\ is_parking' = FALSE
  /\ until_next_park' \in Intervals
  /\ park_counter' = 1
  /\ UNCHANGED park_duration

\* ... during a parking ...
Parking ==
  /\ is_parking /\ msg.type # "STOP"
  /\ park_counter' = park_counter + 1
  /\ UNCHANGED <<is_parking, park_duration, until_next_park>>

\* Mutant: the counter of the last parking is not reset.
Driving_keepsCounter ==
  /\ ~is_parking
  /\ until_next_park' = until_next_park - 1
  /\ IF until_next_park' = 0
       THEN is_parking' = TRUE /\ park_duration' \in Durations
       ELSE UNCHANGED <<is_parking, park_duration>>
  /\ UNCHANGED park_counter

\* ... and between parkings.
Driving ==
  /\ ~is_parking
  /\ until_next_park' = until_next_park - 1
  /\ IF until_next_park' = 0
       THEN is_parking' = TRUE /\ park_duration' \in Durations /\ park_counter' = 0
       ELSE UNCHANGED <<is_parking, park_duration, park_counter>>

Continue ==
  /\ GpsRuns /\ gps = "after"
  /\ Parked \/ Parking \/ Driving
  /\ gps' = "delay"
  /\ UNCHANGED <<utc_seconds, msg, queue, sending, elapsed, event>>

\* osDelay(1000) is over: the turn has taken a second or more.
Wake ==
  /\ GpsRuns /\ gps = "delay"
  /\ elapsed > 0
  /\ gps' = "turn"
  /\ UNCHANGED <<utc_seconds, counters, msg, queue, sending, elapsed, event>>

Gps == Compose \/ Put \/ Continue \/ Wake

-----------------------------------------------------------------------------
(* The I2C sender                                                          *)

Get ==
  /\ sending = Nothing /\ queue # <<>>
  /\ sending' = Head(queue)
  /\ queue' = Tail(queue)
  /\ UNCHANGED <<utc_seconds, counters, gps, msg, elapsed, event>>

\* HAL_I2C_Slave_Transmit ends, with the message read or after I2C_TIMO:
\* what it answers is printed, and the message forgotten.
Sent ==
  /\ sending # Nothing
  /\ sending' = Nothing
  /\ UNCHANGED <<utc_seconds, counters, gps, msg, queue, elapsed, event>>

Sender == Get \/ Sent

-----------------------------------------------------------------------------
Next == Tick \/ Gps \/ Sender

Spec == Init /\ [][Next]_vars

\* The timer runs, and the scheduler runs the tasks: the sender whenever it
\* can, the GPS task because the sender waits for the I2C master a second at
\* most.
FairSpec == Spec /\ WF_vars(Tick) /\ WF_vars(Gps) /\ WF_vars(Sender)

-----------------------------------------------------------------------------
(* Safety                                                                  *)

\* Seconds from one time stamp to a later one.
Since(from, to) == IF to < from THEN to - from + MaxUtc + 1 ELSE to - from

\* The tasks never make two STARTs without a STOP between them, nor two
\* STOPs without a START.
Alternates == [][event' # event => event'.type # event.type]_vars

\* From START to STOP the time stamps tell the duration that was drawn, or
\* more when turns of the loop last longer: never less, and no more than
\* MaxLoop for each second.
DurationAsDrawn ==
  [][ event'.type = "STOP" /\ event.type = "START" =>
        Since(event.utc, event'.utc)
          \in park_duration .. park_duration * MaxLoop ]_vars

\* What the sender offers to the master is not older than a turn.
OffersAreFresh ==
  sending # Nothing => Since(sending.utc, utc_seconds) <= elapsed

(* Liveness                                                                *)

\* Every parking ends, and another one follows.
ParksAgain ==
  /\ event.type = "START" ~> event.type = "STOP"
  /\ event.type = "STOP" ~> event.type = "START"
=============================================================================
