---------------------------- MODULE SessionStore -----------------------------
(***************************************************************************)
(* What the parking database promises its clients, without threads, files  *)
(* or statements: a log of sessions that is answered from (live), a copy   *)
(* that survives (saved), and the STARTs and STOPs that were acknowledged  *)
(* (acked).  Sessions are opened, closed once, and saved; live falls back  *)
(* to saved at any time; nothing is acknowledged before it is saved.       *)
(*                                                                         *)
(* ParksysDB implements this under the refinement mapping given there.     *)
(***************************************************************************)
EXTENDS ParkingData

CONSTANT FirstLog

VARIABLES live, saved, acked

svars == <<live, saved, acked>>

\* Acknowledgement a says what log s holds.
TrueOf(a, s) ==
  /\ a.id \in DOMAIN s
  /\ s[a.id].cust = a.cust
  /\ a.type = "START" => s[a.id].start = a.time
  /\ a.type = "STOP" => ~s[a.id].open /\ s[a.id].end = a.time

Init == live = FirstLog /\ saved = FirstLog /\ acked = {}

\* A session is opened.
Start ==
  /\ Len(live') = Len(live) + 1
  /\ live'[Len(live) + 1].open
  /\ live' = Append(live, live'[Len(live) + 1])
  /\ UNCHANGED <<saved, acked>>

\* An open session is closed.
Stop ==
  /\ DOMAIN live' = DOMAIN live
  /\ \E i \in DOMAIN live :
       /\ live[i].open
       /\ live' = [live EXCEPT ![i] =
                     ClosedSession(live[i], live'[i].end, live'[i].total)]
  /\ UNCHANGED <<saved, acked>>

\* The log is saved, and then something it says is acknowledged.
SaveAndAck ==
  /\ saved' = live
  /\ \E a \in acked' : TrueOf(a, live) /\ acked' = acked \cup {a}
  /\ UNCHANGED live

\* What was not saved is lost.
Lose == live' = saved /\ UNCHANGED <<saved, acked>>

Next == Start \/ Stop \/ SaveAndAck \/ Lose

Spec == Init /\ [][Next]_svars

\* The sessions of log a, later: none is missing, a closed one is unchanged,
\* an open one keeps its customer, lot and start.
Advanced(a, b) ==
  \A i \in DOMAIN b :
    /\ i \in DOMAIN a
    /\ \/ a[i] = b[i]
       \/ /\ b[i].open
          /\ a[i].cust = b[i].cust
          /\ a[i].lot = b[i].lot
          /\ a[i].start = b[i].start

\* Every acknowledgement stays true of the saved log.
AcksHold == \A a \in acked : TrueOf(a, saved)

\* The live log is ahead of the saved one, or equal to it.
LiveIsAhead == Advanced(live, saved)

\* The saved log only advances.
SavedAdvances == [][Advanced(saved', saved)]_svars
=============================================================================
