----------------------------- MODULE MCParksysDB -----------------------------
(***************************************************************************)
(* Small instances of ParksysDB: two connections, two customers, one city  *)
(* with an hourly and a daily lot, billing hours of three time units.      *)
(***************************************************************************)
EXTENDS ParksysDB, TLC

CONSTANTS t1, t2, u1, u2, c1, c2, haifa, yafo

MCPlaces == {<<0, 0>>, <<3, 0>>}

Hourly == [city |-> 1, place |-> <<0, 0>>, hourly |-> TRUE, price |-> 2,
           max |-> 5, live |-> TRUE]
Daily  == [city |-> 1, place |-> <<3, 0>>, hourly |-> FALSE, price |-> 4,
           max |-> 0, live |-> TRUE]

\* What init_db_example.sh leaves, in small.
MCFirstDisk ==
  [schema |-> TRUE, cities |-> <<[name |-> haifa, live |-> TRUE]>>,
   lots |-> <<Hourly, Daily>>, log |-> <<>>]

Req(type, c, p, time) ==
  [type |-> type, cust |-> c, place |-> p, time |-> time]

\* One customer's START and STOPs.  The clock of a vehicle's board starts
\* again at START_UTC when it is reset: the second STOP is before the START.
Trip(c, p) ==
  {Req("START", c, p, 4), Req("STOP", c, p, 8), Req("STOP", c, p, 0)}

\* Every connection serves one vehicle, as a BeagleBone does.
FeedTwo  == (t1 :> Trip(c1, <<0, 0>>)) @@ (t2 :> Trip(c2, <<3, 0>>)
                                           \cup {Req("IDLE", c2, <<0, 0>>, 1),
                                                 Req("START", c2, Nowhere, 4)})
\* A vehicle that reconnects is served by two threads for a while.
FeedSame == (t1 :> Trip(c1, <<0, 0>>)) @@ (t2 :> Trip(c1, <<0, 0>>))
\* One of them serves another vehicle as well.
FeedMixed == (t1 :> {Req("START", c1, <<0, 0>>, 4), Req("STOP", c1, <<0, 0>>, 8)})
          @@ (t2 :> {Req("STOP", c1, <<0, 0>>, 0), Req("START", c2, <<3, 0>>, 4)})
FeedOne  == t1 :> Trip(c1, <<0, 0>>)

NoCommands == {}

\* The maintenance an operator does while the server is stopped.  A price
\* below 0 is taken as it is.
UpkeepCommands ==
  {[op |-> "addCity", name |-> yafo],
   [op |-> "removeCity", city |-> 1],
   [op |-> "addLot", city |-> 1, place |-> <<0, 0>>, hourly |-> TRUE,
    price |-> 1, max |-> 4],
   [op |-> "removeLot", lot |-> 1],
   [op |-> "updateLotPrice", lot |-> 1, price |-> 3, max |-> 4],
   [op |-> "updateLotPrice", lot |-> 1, price |-> 3, max |-> 1],
   [op |-> "updateLotPrice", lot |-> 2, price |-> -1, max |-> 0],
   [op |-> "setLotType", lot |-> 2, hourly |-> TRUE]}

\* Any command will do for what opening the database does to a live server.
OneCommand == {[op |-> "updateLotPrice", lot |-> 1, price |-> 3, max |-> 5]}
=============================================================================
