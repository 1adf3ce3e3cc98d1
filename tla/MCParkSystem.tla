----------------------------- MODULE MCParkSystem -----------------------------
(***************************************************************************)
(* Two parkings of one vehicle near two lots of one city.  The STOP of the *)
(* first one has a coordinate that is NaN: it passes all checks and ends   *)
(* nothing, so that the second parking begins with a session still open.   *)
(***************************************************************************)
EXTENDS ParkSystem

CONSTANTS haifa

License == 12345678

Lat == Float(320)
Lon == Float(348)

Msg(type, hour, lat) ==
  [msg_type |-> type, license_id |-> License,
   utc_sec |-> MIN_UTC + 3600 * hour, latitude |-> lat, longitude |-> Lon]

MCEvents ==
  << Msg(MSGT_START, 1, Lat + 10), Msg(MSGT_STOP, 2, NaN),
     Msg(MSGT_START, 3, Lat + 90), Msg(MSGT_STOP, 6, Lat + 90) >>

\* The same with a STOP that is where its START was.
CrossedEvents == [MCEvents EXCEPT ![2] = Msg(MSGT_STOP, 2, Lat + 10)]

MCCustomers == {License}
MCPlaces == {<<Lat, Lon>>, <<Lat + 100, Lon>>, <<Lat + 10, Lon>>, <<Lat + 90, Lon>>}

MCFirstDisk ==
  [schema |-> TRUE, cities |-> <<[name |-> haifa, live |-> TRUE]>>,
   lots |-> << [city |-> 1, place |-> <<Lat, Lon>>, hourly |-> FALSE,
                price |-> 4, max |-> 0, live |-> TRUE],
               [city |-> 1, place |-> <<Lat + 100, Lon>>, hourly |-> TRUE,
                price |-> 2, max |-> 7, live |-> TRUE] >>,
   log |-> <<>>]

MCFeed == [t \in 1 .. MaxConns |-> {RequestOf(n) : n \in DOMAIN Events}]

MCClockLag == {5}
NoCommands == {}
=============================================================================
