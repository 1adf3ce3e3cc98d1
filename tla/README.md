# Verification of the embedded parking system

TLA+ models of the parking system in `src/`, TLC configurations that check them on small
instances, and TLAPS proofs of what matters most for every instance. A vehicle (an STM32 board
and a BeagleBone) reports STARTs and STOPs of parkings; a server keeps them in a SQLite database
that lives in shared memory and is backed up on disk; a command line tool maintains cities, lots
and prices in the same database.

## 1. The system

```
 STM32 board               BeagleBone daemon                     Linux server
 GPS task -> queue -> I2C  -> I2C process -> pipe -> Ethernet  -> TCP -> accept loop
 TIM7 interrupt    sender     (child 1)              process            thread per connection
 (clock)                                             (child 2)            |  findClosestLot
                              parent: waitpid                             |  startParking/endParking
                                                                          v
                                            parksys-price-updater -> Database (SQLite)
                                            (one process per command)  /dev/shm/parksys.db  runtime
                                                                       ~/parksys/parksys.db backup
                                                                       parksys.log
```

| Component | State | Operations | What is hard | What makes it correct |
|---|---|---|---|---|
| Database (`server/Src/db.cpp`) | two files of three tables each, `disk_ok` | constructor (restore, create tables), `startParking`, `endParking`, `findClosestLot`, `calculatePrice`, the updater's statements, `flushToDisk`, destructor | several threads on one connection; several processes on the files; a SELECT whose answer is used in a later UPDATE; a write and its flush are two steps; every one of them may fail; crash and reboot | an acknowledged START or STOP survives; a session is closed by its own customer, and once if no two threads serve one; nothing recorded is undone; it is billed by its lot's tariff |
| Server (`server.cpp`, `main.cpp`) | connections, one thread each, the request it works on | accept, receive, parse, handle | interleaving of threads, idle timeout, two threads for one vehicle after a reconnection | the above, and each message is handled at most once and in order per connection |
| Price updater (`price_updater.cpp`) | one command | seven commands, each between a constructor and a destructor of Database | runs beside the server or another updater; killed at a prompt; removeCity is two statements | maintenance loses no session and does not stop half-way |
| Log files (`logs.cpp`) | `parksys.log`, a mutex per object | `threadsafe_log` | several objects for one file | an acknowledgement in it stands for something recorded |
| I2C process (`i2c_process.c`) | the message read | open the bus, read, validate, write to the pipe | blocks while the pipe is full; the bus that does not open | forwards every valid START and STOP it read, once, and nothing else |
| Ethernet process (`eth_process.c`) | the message read, `sockfd` | read pipe, connect, write, retry | write succeeds before anything arrives; connections break; the server closes idle ones | gives nothing up, repeats nothing, comes to an end with each message |
| Daemon parent (`BBG/Src/main.c`) | installed files, pid file, pipe, two children | install, load the configuration, daemonise, fork, wait, uninstall | every process may die at any point; systemd knows only the pid file; the pipe's ends the parent keeps open; installation and removal are several steps | one daemon at a time; what systemd starts installs nothing; a service both of whose children have died is started again |
| GPS task (`gps_sim.c`) | position, `is_parking`, counters | one step a second | the clock ticks in an interrupt; a full queue blocks the task | START and STOP alternate; durations are in their range |
| I2C sender (`i2c_send.c`) | the message taken from the queue | offer it for a second | dropped if nobody reads | |
| Vehicle configuration (`config.c`) | seven keys | `load_config` | ranges, repeated keys, refused values | whatever the file says, address and port can be used |

`PROJECT.json` lists every component with its state of modelling, and under "hazards" each place in
the code where something can go wrong that a test would hardly reach.

## 2. The modules

| Module | Models | Role |
|---|---|---|
| `ParkingData` | the tables and the statements of `db.cpp` on them, the closest lot, the tariff | pure operators |
| `SessionStore` | nothing of the code: what the database promises | abstract specification |
| `ParksysDB` | server threads, updater processes and the two database files | detailed specification, implements `SessionStore` |
| `ClosestLotScan` | the loop of `findClosestLot` | shows that the operator `ClosestUpTo` is what the loop computes |
| `Billing` | timestamps, durations and hours on machine ints | shows how far `Fee` on integers is what the code computes |
| `GpsMsg` | the message of a vehicle and `memcpy_validate` | pure operators |
| `VehicleLink` | board, I2C process, pipe, Ethernet process, TCP connections and server threads | a specification of its own |
| `ParkSystem` | `VehicleLink` and `ParksysDB` in one: a connection's thread is a thread of the database | composition |
| `Daemon` | installer, configuration, parent and children of the vehicle's daemon, with systemd around them | a specification of its own |
| `GpsSim` | the board: GPS task, queue, I2C sender, timer interrupt | a specification of its own |
| `MC*` | | instances for TLC |
| `*_proof` | | theorems of the module of that name |

### ParkingData

Tables have AUTOINCREMENT keys: ids are 1, 2, 3, ... and never used again. A table is therefore a
sequence and an id an index; DELETE clears a flag. `Session` is a row of `Log`; `open` stands for
`end_time IS NULL`. Licence ids and names are members of small sets. Prices, which are doubles in
the code, are integers, negative ones included, which the updater does not refuse; places are points of an integer grid, or
`Nowhere` for a position with a coordinate that is NaN; an hour has `SecPerHour` seconds. The statements are named
after the methods. Two things they show at once: foreign keys are declared but never enabled
(`insertLot` asks for no city), and an UPDATE or DELETE that matches nothing succeeds.

### ParksysDB

| Variable | In the code |
|---|---|
| `shm`, `disk` | `/dev/shm/parksys.db` and the backup |
| `server`, `diskOk` | is the process running, and its `disk_ok` |
| `pc`, `req`, `row` | per handler thread: where it is in `handle_request`, `req`, and the locals `log_id`, `lot_id`, `start_time`, `total_price` |
| `tpc`, `cmd`, `tDiskOk` | per updater: where it is in `main`, its arguments, its `disk_ok` |
| `journal` | the START and STOP lines of `parksys.log`: what was acknowledged |

A step is one SQLite statement, one backup or one restore. Threads of the server share one
connection in serialized mode, so their statements exclude each other; statements of different
processes exclude each other through SQLite's file locks, or fail with SQLITE_BUSY. Hence
`ThreadMayFail` and `ToolMayFail`: a statement may fail when `IOFaults` are allowed or when
another process is at work. `FlushAndAck` is the one step that joins two effects, the flush and
the log line after it. Between the two only a crash could fall, which would leave a session that is saved
and not acknowledged; a crash before the flush already leaves the harder case, in
shared memory and not saved.

`Opened` is the constructor: it restores the backup over shared memory (a failure is only
logged), creates the tables (a failure throws), or goes on without a disk. `Crash` leaves both
files, since no destructor runs after a signal; `Reboot` empties shared memory and ends the
updaters too. `ToolKilled` interrupts an updater anywhere, at its "Are you sure?" prompts for instance.
`RowsScanned`: an error ends the scan for the closest lot as the last row does, and `findClosestLot`
answers the best lot so far.

Properties, by hazard:

- written, not flushed, then a crash: `Durable`, `EventuallySaved`
- flushes of several threads in another order than their writes: `DiskBehindRuntime`, `Durable`
- the SELECT and UPDATE of `endParking`, between which a second STOP of the customer may close the same session:
  `BilledOrFree` (never the time of one STOP and the price of the other), `EndsOwnSession`, `LogAdvances`; for threads
  that share no customer `StoreSpec`
- a tariff read for another session than the one closed, a clock set back: `BilledByTariff`
- a statement of `endParking` that fails: `BilledOrFree`
- the two statements of `removeCity`: `CityRemovalIsWhole`
- all together: `StoreSpec`, every behaviour is one of `SessionStore` under the mapping
  `live` = runtime log while the server is up and backup log while it is down, `saved` = backup log,
  `acked` = `journal`.

### ClosestLotScan

One action per kind of row: one that is kept, one that is passed over, an id that was deleted, the
end, and an error that ends the loop early. A position may be NaN (`Nowhere`), because the daemon's check lets it through and the
server has none: no comparison with it is true and no lot is found.

### Billing

The request's `uint32_t` timestamps become `int` through `sqlite3_bind_int`, are subtracted as
`int`, and rounded up by adding 3599. The model has ints of `2 * Half` values and lets them wrap,
as the unoptimised build of the Makefile does.

### VehicleLink

| Variable | In the code |
|---|---|
| `sent`, `bus` | the board's messages so far, and the one `HAL_I2C_Slave_Transmit` offers |
| `i2c`, `pipe`, `eth` | `msg` in `run_i2c_process`, the pipe, `msg` in `run_eth_process` |
| `sockfd`, `client` | `sockfd`, and what the vehicle's kernel knows of each connection |
| `wire` | bytes of a connection between the two programs, in messages |
| `alive`, `thread` | the handler thread of a connection and what it is handling |
| `handled`, `written` | history: `handle_request` calls, successful writes |

A message has 17 bytes. A write of them to the pipe is atomic (less than PIPE_BUF), and one to a socket enters
its buffer whole or fails. SIGPIPE is ignored in the Ethernet process (`BBG/Src/main.c:130`), so
that a failed write returns. A connection that breaks keeps a first part of what it held. The vehicle may
not have heard that its connection is closed at the other end: then `Write` succeeds and the
message goes nowhere. `Connect` joins `connect` and `accept`. Attempts to connect while the server is down
change nothing and are stuttering. Events are messages with all their fields (`GpsMsg`); `I2CRead` drops IDLEs and what is not valid.
`DaemonRestart` is the end of the daemon and its next start: what its processes and the pipe held is gone, the connection is closed by the kernel
after what was written to it. A process that dies alone takes no more steps, which every behaviour of safety covers.
`I2CRead` validates the message (`GpsMsg!Forwarded`) against a clock that differs from the board's by one of `ClockLag`.

### GpsMsg

The fields and limits of `gps_msg.h`, and `memcpy_validate`. Coordinates are floats compared with double literals;
the unit is chosen so that both are integers, and the literals of the board, which have the suffix `f`, and of the daemon,
which have not, are told apart. A coordinate may also be `NaN`: the check refuses what is below or above a bound (`OutOfArea`), and
NaN is neither, so that it passes.

### ParkSystem

`VehicleLink` is instantiated with `server <- (server = "up")`; all else is joined action by action. `Receives` is
`recv_request` and `parse_request` (`Link!Recv` and `Receive` of the database, with the request the
message stands for, `Nowhere` for a position with a NaN), `Serves` is one statement of `handle_request`, and `Link!Handle` when it returns; start, crash and
reboot of the server happen in both. The vehicle and the network do not touch the database.

### Daemon

| Variable | In the code |
|---|---|
| `files`, `config` | which `Things` there are: `/etc/parksys/parksys.config`, the service file, the text in it, `/usr/sbin/parksys`; the lines of the first |
| `orig`, `self` | where the process that was started is in `main` and `first_time_install`; whether it runs the installed program |
| `parent`, `cfg` | where the process that `daemon()` leaves behind is, and its `Config` |
| `child`, `pipe` | the two children, and how full the pipe is |
| `unit`, `mainpid`, `pidfile` | the service, the process systemd takes for its main one, and what `/run/parksys.pid` names |
| `removal` | where a run of `parksys uninstall` is |

One action per step that can be interrupted: the copy of the binary, each file created by `fopen` and written by `fclose`, `daemon()`, the
pid file, each fork, each `waitpid`, `systemctl stop`, each file removed. The copy, each `fopen` and the writing at `fclose` may fail, and so
may `pipe`, `daemon()`, the pid file, the forks, `systemctl stop` and the removals; every process may be killed.
The configuration does not open when it is not there. Nobody looks at the result of the writing or of a step of `uninstall`. Left out are the failures of `mkdir`, of `readlink`
and of enabling, disabling and reloading the service. A program cannot be copied onto itself: what systemd has started, from
`/usr/sbin/parksys`, gets no further in `first_time_install` than the copy, whether that file is still there or has been removed (`Install`). systemd does what the service file
(`main.c:207`) makes it do: its default type is simple, so that it takes the process it started for the main one; when that ends it reads
the pid file, and if this names no living process it kills what is left of the service and starts it again
(`MainEnds`, `KillGroup`, `Restart`). `Awaited` is why `waitpid` may
answer another child: after a failed fork the pid is -1, any child. `load_config` takes the last accepted line of each key, after the defaults.
Assumed of the operator: one at a time, no second daemon started by hand.

### GpsSim

| Variable | In the code |
|---|---|
| `utc_seconds` | the clock, counted by the interrupt of TIM7 (`main.c:476`) |
| `is_parking`, `park_counter`, `park_duration`, `until_next_park` | the globals of `gps_sim.c` |
| `gps`, `msg` | where the GPS task is in its loop, and the message of `send_gps_msg` |
| `queue`, `sending` | `gpsMsgQueue`, and the sender's `msg` |
| `elapsed` | seconds since the last message was made: the model's view of time |
| `event` | history: the last START or STOP that was made |

A turn of the loop is `Compose` (choose the message and read the clock), `Put` (the queue), `Continue` (the counters)
and `Wake` (the end of `osDelay(1000)`). The sender has the higher priority and polls the bus, so that the
GPS task runs only while the sender waits for a message (`GpsRuns`). `Tick` may come between any two steps. A turn
lasts a second or more, hence a tick at least (`Wake`), and less than 2.2 seconds: the delay, a transmission of at most `I2C_TIMO`
and some 80 characters on the serial port. `MaxLoop` is the 3 ticks that fit in. The START that begins a parking is made
with the counter at 0, and every turn until the STOP adds 1; `park_counter` is 1 after a STOP, because the increment after the
`if` comes after the reset, and is set to 0 when the next parking begins.

## 3. Runs

| Run | Instance | What it shows |
|---|---|---|
| `db_serve` | 2 threads of 2 vehicles, 2 sessions, no updater, no faults | interleaved statements, crashes, restarts and reboots keep `Durable`, `DiskBehindRuntime`, `BilledByTariff` and `StoreSpec`; what is recorded is eventually saved |
| `db_upkeep` | 1 thread, 1 session, an updater with all commands while the server is down, killed anywhere | `Coherent` (the invariant of the proofs), `CityRemovalIsWhole`, `StoreSpec` |
| `db_faults` | 2 threads of one vehicle, one of them serving another vehicle as well; any statement, backup, restore or opening failing | two STOPs may close one session, and `BilledOrFree`, `EndsOwnSession` and `LogAdvances` hold all the same, in the last two while the server is up |
| `closest_scan` | all tables of up to 3 lots at 3 places, the position one of them or `Nowhere` | the loop answers `ClosestUpTo` |
| `billing` | all pairs of timestamps of a 32 second clock, 3 lots | durations are right across both overflows; a STOP before its START costs nothing; prices are `Fee` |
| `link` | START, IDLE, STOP, a START without a full licence, one at the eastern edge and a STOP with a latitude that is NaN; the clock 1 behind or 5 ahead; pipe of 1; 3 connections, 1 restart of the daemon | at most once, in order and without gaps within a connection; what a comparison of the check refuses is not handled, but the NaN is; retries end; what arrives on a living connection is handled |
| `system` | two parkings of one vehicle, of one hour and of three, near two lots; the latitude of the first STOP is NaN, so that it ends nothing and the second parking begins with a session open; 2 connections, 1 restart of the daemon; crashes and reboots of the server | every session is made of the vehicle's events, of each at most once (`SessionsAreEvents`); on the first connection each parking that comes through and says where it was is recorded with its lot, times and price (`ParkingsRecorded`); a START that was written reaches the backup (`StartsReachBackup`) |
| `daemon` | 3 configuration files, 2 buses, pipe of 1 | `ServiceInstallsNothing`, `OneDaemon`, `ConfigIsLegal` and `RestartsWhenBothDie`, with every process killed anywhere, and installations and removals that fail half-way |
| `board` | drives of 2 or 3 turns, parkings of 1 to 3, a 32 second clock that starts at 26, `MaxLoop` 3 | STARTs and STOPs alternate for ever, the time from one to the other is the duration drawn or as much longer as the turns are, and no message is offered late |
| `x_live_update` | 1 thread, 1 updater, both at once | expected violation of `LogAdvances` |
| `x_crossed` | as `system`, with both STOPs where their STARTs were | expected violation of `InOrderRecorded` |
| `x_link_loss` | 2 connections | expected violation of `NothingIsLost` |

### Bounds, and why they are enough

- `MaxLog`: no START is received at this many sessions. Two let a thread open a session while another closes
  one, and two sessions of one customer be open at once. `db_faults` and the violations need one: there the two STOPs race for the same session.
- `MaxRows`: nothing is added at this many cities or lots. The first backup has one city with an
  hourly and a daily lot, what `init_db_example.sh` makes, in small; 3 leaves room for one more.
- Requests: each vehicle parks at time 4 and stops at 8 or at 0. The board's clock starts again at
  `START_UTC` after a reset (`gps_sim.c:20`), hence a STOP before its START. In `db_faults` the two STOPs come on two
  connections of the vehicle, and cost differently. With hours of three units
  a duration of 4 is two hours begun, below the maximum of the lot. The maximum is reached in `billing`.
- `Half = 16`, `SecPerHour = 3`: every pair of 32 timestamps; the hour fits in an int many times,
  the rounding overflows for the longest durations. The proofs are for every width.
- Tables of 3 lots: nearer, equally near and farther lots in every order, with deleted ids anywhere.
- `MaxConns = 3`: two connections may be lost. Nothing breaks the last one and the server
  does not crash while it lasts: a connection that lasts long enough is what the liveness
  properties are about. `PipeSize = 1` makes the pipe full as soon as one event waits. Of the six
  events three are forwarded, two of them in a row, and three are refused, each by another condition.
- `MaxRestarts = 1`: the daemon restarts at any point once. A second restart meets the same states with fewer events left.
- `system`: `MaxConns = 2` gives the two threads that one vehicle can have at the server after a reconnection, and each
  may outlive the other. Four events are the fewest with which a STOP can meet the next parking. `MaxLog = 4` is never reached.
- `daemon`: one file leaves the defaults, one has a bus that is none and both numbers one beyond their
  ranges, one has the last port and the first address, after a port that is refused. Nothing is counted, and no bound cuts a behaviour short.
- `board`: the clock of 32 seconds wraps during parkings and drives alike, and is longer than the longest parking
  of 3 turns at `MaxLoop` ticks, so that differences on it are unambiguous.
- Runs are not made smaller by symmetry: the vehicles' requests differ.

Deadlock is checked except in `closest_scan`, `link`, `system` and `daemon`, where the system may stop: at the end of the scan,
when all events are handled, and when the daemon is removed.

### Fairness

`ParksysDB!FairSpec`: weak fairness of each handler thread's steps, since the kernel schedules threads
and no step waits for another thread. Nothing is assumed of clients, operators, restarts or the disk; `EventuallySaved`
therefore ends in "or the server goes down".

`VehicleLink!FairSpec`: weak fairness of the I2C process's write (the pipe stays non-full once it has been drained, the
only writer is this process), of the Ethernet process's steps, of each server thread and of
starting the server (an operator does; nothing in the repository supervises it); strong
fairness of `Connect`, because the server may crash again between two attempts: it is
assumed that at some time it is up when an attempt is made. No fairness of the board, of breaks,
crashes or timeouts.

`ParkSystem!SysFairSpec`: weak fairness of each server thread only, as the kernel schedules it; none of vehicle, network or restarts.

`Daemon!FairSpec`: weak fairness of the first process and of the daemon's steps (the kernel schedules them; each `waitpid` that can
return stays able to), of opening the bus, and of what systemd does when the main process has ended or a restart is due. None of the
operator and of nothing that is killed; the children's loops need none.

`GpsSim!FairSpec`: weak fairness of the timer, which the hardware keeps running; of the sender, which has the higher priority; and of the
GPS task, which the scheduler runs whenever the sender waits. A transmission ends after `I2C_TIMO` at the latest.

## 4. Disagreements between code and documents

Each is a run whose expected result is the violation of a property that states what the quoted text says.

1. `x_live_update`. `server/README.md:75` says the updater works "before and during server runtime".
   Its constructor restores the backup over the live database (`db.cpp:29`): a session that was inserted and
   not yet flushed vanishes, and its thread then acknowledges it.
2. `x_crossed`. The server "logs the event, and calculates parking duration and price" (`src/README.md:63`). A thread per connection
   (`server.cpp:78`) and "find last log_id with this customer_id that has no end_time" (`db.cpp:138`) do not go together: when the
   vehicle reconnects while the STOP of a parking is at work, the START of the next one is inserted first, the STOP closes that one, and
   the parking that has ended stays open. The requests were handled one after the other as they happened.
3. `x_link_loss`. "Send message to server with infinite retries" (`eth_process.c:65`). A write succeeds when
   the kernel has the bytes. The server closes a connection after a minute without a message
   (`server.hpp:33`), so that the first event after a quiet minute can be lost without a retry.

Four more are stated as definitions of the modules and refuted by TLC when they are added to the run named:

- `Durable` with `IOFaults = TRUE` (`db_faults`). "All database writes go to shared memory and are flushed to disk"
  (`server/README.md:44`). The result of `flushToDisk` is ignored (`db.cpp:128`): the START is acknowledged, and gone after the next reboot.
- `StoreSpec` with `Feed <- FeedSame` and `MaxLog = 1` (`db_serve`): its `Stop` closes open sessions only. `endParking` looks for an entry "that has no end_time" (`db.cpp:138`)
  and updates it by `log_id` alone: two connections of one vehicle may both find it, and the second STOP overwrites end and price of a closed session.
- `MaxIsOptional` (`billing`). `max_daily` is an "optional max for hourly mode" (`server/README.md:106`). Without it
  0.0 is stored (`price_updater.cpp:75`), and the price becomes min(price, 0).
- `BadBusFallsBack` (`daemon`). A bus that is no character device is reported with "Using default" (`config.c:48`) and taken all the same;
  the I2C process then ends with every start of the daemon.

Read off the modules in the same way, without a property of their own: a restore that fails leaves an empty database
that the next flush writes over the backup (`Opened`, `Flushed`); without a backup file the server "continues in
memory only" (`db.cpp:74`) without tables (`Opened`); a lot may be added to a city that does
not exist (`insertLot`); `removeCity` removes the city even when removing its lots failed (`RemoveCityLots`); shared memory
is not "cleared by parksys-server-main on server failure" (`Crash`); timestamps after 2038 are
stored as negative numbers, with correct durations all the same (`AsInt`); the board keeps its longitude at or below `35.9f`,
which is beyond the `35.9` the daemon allows, so that at the eastern edge every message is refused (`Float(359) > LON_MAX`); a daemon of
which one child has died goes on with the other and forwards nothing, until that one dies too (`WaitPid`, `ReadEnd`); systemd may read the
pid file before the daemon has written it, and then kills the daemon and starts another (`MainEnds`); `load_config` is said to create
a missing file (`config.h:37`) and answers -1 instead (`Load`); a second server started by mistake restores the backup over the live database
before it finds its port taken (`server/Src/main.cpp:8`), as an updater does in `x_live_update`; a coordinate that is NaN passes the check of the
daemon (`OutOfArea`, `i2c_process.c:116`), and a STOP with one finds no lot and ends no session (`FindNoLot`); a removal whose first step
failed leaves a service without a configuration, which ends at every start (`UninstallRemoves`, `Load`); the updater takes negative prices, and
a lot may so owe its customers money (`Lot`, `FeeBounds`).

## 5. Proofs

All proofs are checked by TLAPS with SMT, Zenon and, for temporal steps, LS4. They hold for every value of the
constants: any number of threads, tools, customers, requests, commands, sessions, events and connections, any first backup
file, as far as the last column says no more.

| Module | Theorem | States | Assumes |
|---|---|---|---|
| `ParksysDB` | `TypeCorrect` | `Spec => []TypeOK` | |
| | `ClosesOwnSessions` | `Spec => EndsOwnSession` | `~Overlap` |
| | `LogOnlyAdvances` | `Spec => LogAdvances` | `~Overlap` |
| | `NeverBilledWrong` | `Spec => []BilledOrFree` | `~Overlap`, no commands, the first backup's sessions billed so |
| | `AlwaysCoherent` | `Spec => []Coherent` | `Exclusive` |
| | `AckedIsDurable` | `Spec => []Durable` | `Exclusive` |
| | `FlushNeverGoesBack` | `Spec => []DiskBehindRuntime` | `Exclusive` |
| | `ImplementsStore` | `Spec => StoreSpec` | `Exclusive`, `DisjointFeeds` |
| | `AlwaysBilledByTariff` | `Spec => []BilledByTariff` | `Exclusive`, no commands, the first backup's sessions billed so |
| | `RemovesCitiesWhole` | `Spec => CityRemovalIsWhole` | `Exclusive` |
| `SessionStore` (in `ParksysDB_proof`) | `StorePromise` | acknowledgements stay true of the saved log, which only advances | the logs are sequences of sessions |
| | `PromisesKept` | both hold of the two-tier database: `Spec => []Store!AcksHold /\ Store!SavedAdvances` | `Exclusive`, `DisjointFeeds` |
| `ParkingData` | `FeeBounds` | prices of either sign: an hourly fee is at most the lot's maximum, another is its fixed price, and a fee is negative just where the lot has a negative price or maximum | |
| `ClosestLotScan` | `ScanAnswersClosest`, `AlwaysClosestSoFar`, `ScanStaysInTable` | the loop of `findClosestLot` answers the closest lot of the rows it saw, and holds it at every row | |
| `Billing` | `DurationAlwaysElapsed`, `AlwaysBilledByFee`, `BackwardsAlwaysFree`, `ColumnsKeepTheirWidth` | durations and prices on ints of any width | |
| `GpsSim` | `CountersInRange` | `Spec => []TypeOK`: `until_next_park` does not wrap | |
| | `NeverOffersStale` | `[]OffersAreFresh` | |
| | `StartsAndStopsAlternate` | `Spec => Alternates` | |
| | `ParksAsLongAsDrawn` | `Spec => DurationAsDrawn` | `ClockOutlastsParking` |
| `VehicleLink` | `LinkInvariant`, `TypeCorrect` | the inductive invariant, `[]TypeOK` | |
| | `HandledAtMostOnce`, `OrderedPerConnection`, `ConnectionsArriveInFull`, `HandlesValidOnly` | `[]AtMostOnce`, `[]OvertakesOnNewConnection`, `[]ArrivesInFull`, `[]OnlyValidHandled` | |
| `Daemon` | `DaemonInvariant`, `TypeCorrect` | the inductive invariant, `[]TypeOK` | |
| | `ConfigAlwaysLegal`, `StartKeepsConfig`, `NeverTwoDaemons` | `[]ConfigIsLegal`, `[]ServiceInstallsNothing`, `[]OneDaemon` | |
| `ParkSystem` | `SystemHasDatabase`, `SystemHasLink` | the system's behaviours are behaviours of `ParksysDB!Spec` and of `VehicleLink!Spec` | |
| | `SystemKeepsLinkPromises` | `AtMostOnce`, `OvertakesOnNewConnection`, `ArrivesInFull`, `OnlyValidHandled` in the whole system | |
| | `SessionsOnlyForEvents` | `SysSpec => []SessionsAreEvents` | `DistinctTimes`, the first backup has no sessions |
| | `RecordsParkings` | `SysSpec => []ParkingsRecorded` | `Sound` |

`~Overlap`: updaters run one at a time while the server is stopped. `Exclusive` is `~IOFaults /\ ~Overlap`: besides, no statement fails.
`DisjointFeeds`: no two connections speak for one customer. `ClockOutlastsParking`: the board's clock does not come round during the longest parking,
which takes 136 years. `DistinctTimes`: no two STARTs and no two STOPs have one time stamp, without which sessions could not be told
apart. `Sound`: statements do not fail, the events are one vehicle's, and there is a lot. The run `system` is
an instance of both. Of the first group each is needed, and the code guarantees none: `x_live_update` violates `LogAdvances` with
an overlap, `FeedSame` violates `StoreSpec` with two connections of one vehicle, and with `IOFaults` TLC refutes `Durable` (section 4). What
is left when two threads do share a customer are the three theorems that assume no `DisjointFeeds` and no sound statements:
`ClosesOwnSessions`, `LogOnlyAdvances` and `NeverBilledWrong`.

The argument. `Durable` alone is not inductive: before a flush nothing says that the session about to be acknowledged
is in shared memory, and after a crash nothing says that the restore brings back what was
acknowledged. `Coherent` adds what is missing: `OneWriter` (threads are busy only while the server
is up, tools only while it is down, and a tool at work sees the backup's log), `OwnSession` (a thread's locals name a
session of its customer, which at the flush is in the state to be acknowledged) and
`DiskBehindRuntime` (a flush never overwrites something newer). For the refinement, `Disjoint` adds that no two threads
hold one customer and that a session a thread has found open is still open when it
comes to the UPDATE, and then keeps the end it was given until the flush (`OpenUntilClosed`). Each action is then a step of
`SessionStore` or a stutter: Insert is Start, Update is Stop, FlushAndAck is SaveAndAck, Crash
and Reboot are Lose, Boot, Launch and the rest stutter.

Under faults `Coherent` does not hold: a failed flush leaves the backup behind. What is left is `Kept`, the invariant of the section "Under faults": one program
at a time (`OneProgram`), and the session a thread has found is of its customer (`FoundOwn`), which no other thread changes. It suffices for
`ClosesOwnSessions` and `LogOnlyAdvances`. `Tariff` says that both files hold no closed session that costs anything but its tariff or nothing
(`BilledLog`), that the lots are the first backup's or none (`LotTables`: a failed restore leaves an empty table), and ties the locals of `endParking` to the row
they were read from (`RowFits`). The second STOP of a race read the same start and lot as the first, and no step changes these: its price fits the end it
writes. `NeverBilledWrong` follows, and without faults `AlwaysBilledByTariff`.

In `VehicleLink` the invariant says that the events lie in the order board, I2C process, pipe, Ethernet process, connections (`Upstream`), that
connections and their threads fit together (`Sockets`), that each connection's events are in order between the wire, the thread and
`handled` (`Downstream`), that the last written ones are the only ones missing (`Complete`), and that no comparison of the check refuses what has passed `I2CRead` (`Checked`). `AtMostOnce`, a statement
about cardinalities, follows because every event is in one of these places and each place holds it once.

In `Daemon` it says what systemd knows of the processes (`SystemdFits`: an active service has its main process, or one that
has just ended) and that the main process runs the installed program, while what installs is never that one (`InstallFits`). It says nothing of
which files there are: any of them may be left by an installation or a removal that failed half-way.

`ClosestSoFar` is the invariant of the scan. In `Billing` the invariant `Recorded` ties the columns to the timestamps
received, and `ElapsedIsExact` shows that the two wrap-arounds cancel.

In `GpsSim` the invariant says where the one message is (`OneMessage`), and what the counters mean at the beginning of a turn
(`CountersFit`) and between the message and their update (`MessageFits`): whoever is not parking has sent
a STOP last and has an interval left to drive; whoever is has sent a START unless the counter is still 0.

`OffersAreFresh` needs more than the counters: `Fresh` says how old the one message is at each place of the loop, also when the clock has wrapped.
For `DurationAsDrawn`, `ClockFitsCounter` bounds the time since the START by the turns that are over: at least
one tick and at most `MaxLoop` each. The counter moves on in the middle of a turn, after the message and before the delay; `TurnsOver` says which have ended.

`CityRemovalIsWhole` compares two successive backups, but what a flush writes was decided statements before. `RemovalFits` says what each
statement of the updater has left: until its last one the cities are the backup's, before it deletes a city that city has
no lots, and what it is about to flush takes a city only with its lots. That the server's threads cannot interfere is
`OneWriter` again.

In `ParkSystem` everything rests on two mappings: a step of the system is a step of the database or leaves it alone (`DatabaseStep`),
and the same for the link (`LinkStep`), where the database's server is the link's. All theorems of both
modules therefore hold of it. `Attuned` ties the two together: a thread of the database is at work exactly when its
connection has an event in hand, on the request of that event.

`SessionsOnlyForEvents` is about the two halves at once. An event is `Spent` once its statement has been executed: it is in
the hands of a thread that has done its statement, it has been handled, or it is lost. By `AtMostOnce` no copy of it is left that could reach a
statement again (`SpentStays`, `NewTime`). `LogsTell` says of both files that their sessions are told by spent events, each by its
own. Copying one file over the other, whenever and in whichever direction, keeps that, and a statement that fails does not disturb it: hence no assumption on faults.

`RecordsParkings` needs to know what `endParking` finds. On the first connection all requests are one thread's, in the order of the events.
`Handling` says at each statement what the thread's locals have to do with the backup: which row it read, which lot and price it
computed, and that what it is about to flush is the backup and this one change. `LastParked` says that after a START that says where it is
the newest row is its session, still open, so that the STOP that comes next finds this one and no older one (`ParkingEnds`). A crash
in between loses what was not flushed, and the request with it; then the pair is not in `handled`, and nothing is claimed.

Only model-checked: liveness (`EventuallySaved`, `EventuallyWritten`, `EventuallyHandled`, `ParksAgain`, `StartsReachBackup`,
`RestartsWhenBothDie`), whose fairness is out of the provers' reach. Every other property of a passing run is proved, `ParkingsRecorded` and
`SessionsAreEvents` for more than the run has: sessions in the first backup, and failing statements.

## 6. Not modelled

- Vendored and generated code: `STM32/Drivers` (HAL, CMSIS), `STM32/Middlewares` (FreeRTOS) and the start-up code that CubeMX writes, which are most of the
  repository's lines, and SQLite, which is not in it. They are modelled from how the first-party code uses them: queue, priorities and interrupt in
  `GpsSim`; atomic statements, busy files and backups in `ParksysDB`.
- The text of messages, command lines, configuration and log lines; what the updater and the status commands print. The
  mutex of a log file and failures to open it: nothing reads the file back.
- Setting up sockets, the listening backlog, IP addresses; a server address that is not reachable is a server that is down.
- A message that arrives in parts: the part that is left when a connection ends is thrown away with it.
- The keys of the configuration that nothing reads (`log_path`, `service_name`, `service_path`), and values too long for their fields.
- The board's random walk. `GpsSim` has no position, because nothing on the board depends on it.
- Prices that are no integers.

## 7. Plan

In this order:

1. `GpsSim` as the source of `ParkSystem`'s events, so that intervals and durations of the board meet the delays of the link.
2. Two vehicles in `ParkSystem`, and an updater at work between two runs of its server.
3. Proofs: `ParkingsRecorded` for each of several vehicles with a connection of its own; that a STOP before its START is free on the wrapped clock of the board.
4. `LogFile`: two `Logfile` objects with a mutex each for one file, and the order of its lines against the flushes.
