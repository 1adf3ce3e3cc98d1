-------------------------------- MODULE Daemon --------------------------------
(***************************************************************************)
(* The life of the vehicle's daemon (BBG/Src/main.c): installation, the    *)
(* configuration file (config.c), the process that systemd starts, the     *)
(* daemon it leaves behind, its I2C and Ethernet children with the pipe    *)
(* between them, and removal.  Neither installation nor removal undoes     *)
(* what it has done when a later step fails, and removal does not even     *)
(* look whether a step has.                                                *)
(*                                                                         *)
(* systemd is modelled as the service file asks for it: when the main      *)
(* process ends, the pid file may name the process that takes its place;   *)
(* if it names none that lives, what is left of the service is killed and, *)
(* Restart=always, the service started again, from the unit systemd has    *)
(* loaded, whatever has become of the file it was loaded from.             *)
(* One operator: nobody starts a second daemon by hand, or installs the    *)
(* program while removing it.                                              *)
(***************************************************************************)
EXTENDS Integers, Sequences

CONSTANTS
  ConfigFiles, (* what an operator may write into parksys.config           *)
  Texts,       (* the paths and addresses it may contain                   *)
  Buses,       (* the paths that are I2C buses of this machine             *)
  PipeSize     (* messages the pipe holds                                  *)

DEFAULT_I2C_BUS   == "/dev/i2c-1"
DEFAULT_SERVER_IP == "192.168.1.71"
MIN_I2C_ADDR == 8
MAX_I2C_ADDR == 119
MIN_PORT     == 1024
MAX_PORT     == 65535

Line == [key : {"i2c_bus", "server_ip"}, val : Texts]
          \cup [key : {"i2c_addr", "server_port"}, val : Int]

\* The file first_time_install writes; load_config starts from the same.
DefaultConfig == << [key |-> "i2c_bus",     val |-> DEFAULT_I2C_BUS],
                    [key |-> "i2c_addr",    val |-> 16],
                    [key |-> "server_ip",   val |-> DEFAULT_SERVER_IP],
                    [key |-> "server_port", val |-> 12321] >>

ASSUME DaemonAssumption ==
  /\ ConfigFiles \subseteq Seq(Line)
  /\ {DEFAULT_I2C_BUS, DEFAULT_SERVER_IP} \cup Buses \subseteq Texts
  /\ PipeSize \in Nat \ {0}

VARIABLES
  files,       (* which of the installed Things are there                  *)
  config,      (* the lines of the configuration file                      *)
  orig,        (* where the process that was started is in main            *)
  self,        (* the executable it runs: the installed one or another     *)
  parent,      (* where the daemon it has forked is in main                *)
  cfg,         (* the daemon's Config                                      *)
  child,       (* its children "i2c" and "eth"                             *)
  pipe,        (* messages in the pipe                                     *)
  unit,        (* the service as systemd has it                            *)
  mainpid,     (* its main process: "orig", "parent" or "none"             *)
  pidfile,     (* does /run/parksys.pid name the daemon?                   *)
  removal      (* where a run of "parksys uninstall" is                    *)

installed == <<files, config>>
processes == <<orig, self, parent, cfg, child, pipe>>
systemd   == <<unit, mainpid, pidfile>>
vars      == <<installed, processes, systemd, removal>>

\* The configuration file, the service file, that it has its text (without
\* it systemd has nothing to execute), and the copy of the program.
Things == {"config", "service", "service_text", "binary"}

\* main between the first fopen of the installation and its end.
Installing == {"config", "config_text", "service", "service_text"}

Roles   == {"i2c", "eth"}
Childless == [r \in Roles |-> "none"]

Config == [i2c_bus : Texts, i2c_addr : Int, server_ip : Texts,
           server_port : Int]

TypeOK ==
  /\ files \subseteq Things
  /\ config \in Seq(Line)
  /\ orig \in Installing \cup {"none", "install", "load", "daemon", "exit"}
  /\ self \in {"installed", "elsewhere"}
  /\ parent \in {"none", "pidfile", "fork_i2c", "fork_eth", "wait_i2c",
                 "wait_eth"}
  /\ cfg \in Config
  /\ child \in [Roles -> {"none", "unforked", "open", "run", "dead"}]
  /\ pipe \in 0 .. PipeSize
  /\ unit \in {"inactive", "active", "restarting", "failed"}
  /\ mainpid \in {"none", "orig", "parent"}
  /\ pidfile \in BOOLEAN
  /\ removal \in {"none", "stop", "service", "config", "binary"}

-----------------------------------------------------------------------------
(* load_config: a later line of a key takes the place of an earlier one    *)

\* Mutant: no value is refused.
Accepted_all(l) == TRUE

\* A bus that is none is reported and taken all the same.
Accepted(l) ==
  /\ l.key = "i2c_addr" => l.val \in MIN_I2C_ADDR .. MAX_I2C_ADDR
  /\ l.key = "server_port" => l.val \in MIN_PORT + 1 .. MAX_PORT

ValueOf(key, lines) ==
  LET all  == DefaultConfig \o lines
      good == {n \in DOMAIN all : all[n].key = key /\ Accepted(all[n])}
  IN  all[CHOOSE n \in good : \A m \in good : m <= n].val

load_config(lines) ==
  [i2c_bus |-> ValueOf("i2c_bus", lines), i2c_addr |-> ValueOf("i2c_addr", lines),
   server_ip |-> ValueOf("server_ip", lines),
   server_port |-> ValueOf("server_port", lines)]

Init ==
  /\ files = {} /\ config = <<>>
  /\ orig = "none" /\ self = "elsewhere"
  /\ parent = "none" /\ cfg = load_config(<<>>)
  /\ child = Childless /\ pipe = 0
  /\ unit = "inactive" /\ mainpid = "none" /\ pidfile = FALSE
  /\ removal = "none"

Quiet == orig = "none" /\ parent = "none" /\ child = Childless /\ removal = "none"

-----------------------------------------------------------------------------
(* systemd and the operator                                                *)

\* Mutant: only the main process is killed, its children are not.
KillGroup_main ==
  /\ orig' = "none" /\ parent' = "none"
  /\ mainpid' = "none" /\ pidfile' = FALSE
  /\ UNCHANGED <<self, cfg, child, pipe>>

\* Whatever is left of the service is killed, and its pid file removed.
KillGroup ==
  /\ orig' = "none" /\ parent' = "none" /\ child' = Childless /\ pipe' = 0
  /\ mainpid' = "none" /\ pidfile' = FALSE
  /\ UNCHANGED <<self, cfg>>

\* ExecStart=/usr/sbin/parksys
Spawn ==
  /\ "binary" \in files
  /\ orig' = "install" /\ self' = "installed"
  /\ unit' = "active" /\ mainpid' = "orig"
  /\ UNCHANGED <<installed, parent, cfg, child, pipe, pidfile, removal>>

\* systemctl start
StartUnit ==
  /\ unit \in {"inactive", "failed"} /\ Quiet
  /\ {"service", "service_text"} \subseteq files
  /\ Spawn

\* systemctl stop
StopUnit ==
  /\ unit # "inactive"
  /\ unit' = "inactive"
  /\ KillGroup
  /\ UNCHANGED <<installed, removal>>

\* sudo ./parksys, as the installation asks for, or the installed program.
RunByHand ==
  /\ unit \in {"inactive", "failed"} /\ Quiet
  /\ orig' = "install" /\ self' \in {"installed", "elsewhere"}
  /\ self' = "installed" => "binary" \in files
  /\ UNCHANGED <<installed, parent, cfg, child, pipe, systemd, removal>>

Edit ==
  /\ "config" \in files
  /\ config' \in ConfigFiles
  /\ UNCHANGED <<files, processes, systemd, removal>>

\* The main process has ended.  systemd reads the pid file, and gets to know
\* the daemon if it has written its pid by now.
MainEnds ==
  /\ unit = "active"
  /\ \/ mainpid = "orig" /\ orig = "exit"
     \/ mainpid = "parent" /\ parent = "none"
  /\ IF mainpid = "orig" /\ pidfile /\ parent # "none"
       THEN /\ mainpid' = "parent" /\ orig' = "none"
            /\ UNCHANGED <<self, unit, pidfile, parent, cfg, child, pipe>>
       ELSE /\ unit' = "restarting"
            /\ KillGroup
  /\ UNCHANGED <<installed, removal>>

Restart == unit = "restarting" /\ Spawn

\* Too many restarts in a few seconds, or nothing to execute any more.
GiveUp ==
  /\ unit = "restarting"
  /\ unit' = "failed"
  /\ UNCHANGED <<installed, processes, mainpid, pidfile, removal>>

-----------------------------------------------------------------------------
(* main up to daemon()                                                     *)

OrigGoto(step) ==
  /\ orig' = step
  /\ UNCHANGED <<self, parent, cfg, child, pipe, systemd, removal>>

\* Both files are there, whatever is in them.
AlreadyInstalled == {"config", "service"} \subseteq files

\* Mutant: the copy succeeds whatever is copied onto what.
Install_ontoItself ==
  /\ orig = "install"
  /\ \/ AlreadyInstalled /\ OrigGoto("load") /\ UNCHANGED files
     \/ ~AlreadyInstalled /\ OrigGoto("config") /\ files' = files \cup {"binary"}
     \/ /\ ~AlreadyInstalled /\ OrigGoto("load")
        /\ files' \in {files, files \ {"binary"}}
  /\ UNCHANGED config

\* first_time_install up to the copy of the running program to BIN_PATH.  cp
\* does not copy a file onto itself, nor one that is not there any more: the
\* installed program, whether it has been removed since or not, gets no
\* further.  A copy that fails otherwise may leave a broken file.  main goes
\* on after any failure as if everything was installed.
Install ==
  /\ orig = "install"
  /\ \/ AlreadyInstalled /\ OrigGoto("load") /\ UNCHANGED files
     \/ /\ ~AlreadyInstalled /\ self = "elsewhere"
        /\ OrigGoto("config") /\ files' = files \cup {"binary"}
     \/ /\ ~AlreadyInstalled /\ OrigGoto("load")
        /\ \/ UNCHANGED files
           \/ self = "elsewhere" /\ files' = files \ {"binary"}
  /\ UNCHANGED config

\* fopen(CONFIG_PATH, "w"): there, and empty.
InstallConfig ==
  /\ orig = "config"
  /\ \/ files' = files \cup {"config"} /\ config' = <<>>
        /\ OrigGoto("config_text")
     \/ OrigGoto("load") /\ UNCHANGED installed

\* fclose writes the text, and nobody asks whether it has.
InstallConfigText ==
  /\ orig = "config_text"
  /\ config' \in {config, DefaultConfig}
  /\ OrigGoto("service")
  /\ UNCHANGED files

InstallService ==
  /\ orig = "service"
  /\ \/ files' = (files \cup {"service"}) \ {"service_text"}
        /\ OrigGoto("service_text")
     \/ OrigGoto("load") /\ UNCHANGED files
  /\ UNCHANGED config

\* fclose, the reload of systemd, and the end of main.
InstallServiceText ==
  /\ orig = "service_text"
  /\ files' \in {files, files \cup {"service_text"}}
  /\ OrigGoto("exit")
  /\ UNCHANGED config

\* A configuration that does not open ends the process.
Load ==
  /\ orig = "load"
  /\ IF "config" \in files
       THEN orig' = "daemon" /\ cfg' = load_config(config)
       ELSE orig' = "exit" /\ UNCHANGED cfg
  /\ UNCHANGED <<installed, self, parent, child, pipe, systemd, removal>>

\* pipe and daemon(): fork, if it can, and _exit of the first process.  The
\* pid file, if any, names a daemon of the past.
Detach ==
  /\ orig = "daemon"
  /\ orig' = "exit"
  /\ parent' \in {"pidfile", "none"}
  /\ pipe' = 0 /\ pidfile' = FALSE
  /\ UNCHANGED <<installed, self, cfg, child, unit, mainpid, removal>>

\* Started by hand, the first process ends and nobody asks why; it is
\* killed at any time.
OrigEnds ==
  /\ \/ mainpid = "none" /\ orig = "exit" /\ orig' = "none"
     \/ orig \notin {"none", "exit"} /\ orig' = "exit"
  /\ UNCHANGED <<installed, self, parent, cfg, child, pipe, systemd, removal>>

-----------------------------------------------------------------------------
(* The daemon                                                              *)

ParentStep(here, next) ==
  /\ parent = here /\ parent' = next
  /\ UNCHANGED <<installed, orig, self, cfg, pipe, unit, mainpid, removal>>

WritePidFile ==
  /\ ParentStep("pidfile", "fork_i2c")
  /\ pidfile' \in {TRUE, pidfile}
  /\ UNCHANGED child

Fork(role, here, next, first) ==
  /\ ParentStep(here, next)
  /\ \E s \in {first, "unforked"} : child' = [child EXCEPT ![role] = s]
  /\ UNCHANGED pidfile

ForkI2C == Fork("i2c", "fork_i2c", "fork_eth", "open")
ForkEth == Fork("eth", "fork_eth", "wait_i2c", "run")

\* The children waitpid looks at: after a failed fork the pid is -1, any child.
Awaited(role) == IF child[role] = "unforked" THEN Roles ELSE {role}

\* waitpid: a child that is dead, or none that could die.
WaitPid(role) ==
  \/ \E r \in Awaited(role) :
       child[r] = "dead" /\ child' = [child EXCEPT ![r] = "none"]
  \/ /\ \A r \in Awaited(role) : child[r] \in {"none", "unforked"}
     /\ UNCHANGED child

\* Mutant: the daemon goes to its first wait again instead of its end.
WaitEth_loops ==
  ParentStep("wait_eth", "wait_i2c") /\ WaitPid("eth") /\ UNCHANGED pidfile

WaitI2C == ParentStep("wait_i2c", "wait_eth") /\ WaitPid("i2c") /\ UNCHANGED pidfile
WaitEth == ParentStep("wait_eth", "none") /\ WaitPid("eth") /\ UNCHANGED pidfile

ParentKilled ==
  /\ parent # "none"
  /\ parent' = "none"
  /\ UNCHANGED <<installed, orig, self, cfg, child, pipe, systemd, removal>>

-----------------------------------------------------------------------------
(* The children, as far as their lives go                                  *)

Alive(role) == child[role] \in {"open", "run"}

\* The parent has both ends of the pipe, and closes neither.
ReadEnd  == parent # "none" \/ Alive("eth")

Becomes(role, state, n) ==
  /\ child' = [child EXCEPT ![role] = state]
  /\ pipe' = n
  /\ UNCHANGED <<installed, orig, self, parent, cfg, systemd, removal>>

\* run_i2c_process exits when the bus does not open.
OpenBus ==
  /\ child["i2c"] = "open"
  /\ Becomes("i2c", IF cfg.i2c_bus \in Buses THEN "run" ELSE "dead", pipe)

\* Mutant: the write does not wait for room.
I2CForwards_noWait ==
  /\ child["i2c"] = "run"
  /\ IF ReadEnd THEN Becomes("i2c", "run", pipe + 1)
     ELSE Becomes("i2c", "dead", pipe)

\* A write blocks on a full pipe, and to one that nobody can read it kills.
I2CForwards ==
  /\ child["i2c"] = "run"
  /\ IF ReadEnd THEN pipe < PipeSize /\ Becomes("i2c", "run", pipe + 1)
     ELSE Becomes("i2c", "dead", pipe)

\* A read blocks on an empty pipe; at its end, which no one else has open,
\* it answers at once and run_eth_process turns in its loop for ever.
EthReads ==
  /\ child["eth"] = "run" /\ pipe > 0
  /\ Becomes("eth", "run", pipe - 1)

ChildKilled(role) == Alive(role) /\ Becomes(role, "dead", pipe)

\* What has no parent any more is waited for by init.
InitReaps(role) ==
  /\ parent = "none" /\ child[role] \in {"dead", "unforked"}
  /\ Becomes(role, "none", pipe)

-----------------------------------------------------------------------------
(* parksys uninstall                                                       *)

Uninstall ==
  /\ removal = "none" /\ files # {}
  /\ mainpid = "none" => orig = "none"
  /\ removal' = "stop"
  /\ UNCHANGED <<installed, processes, systemd>>

\* systemctl stop may fail, and the service goes on.
UninstallStops ==
  /\ removal = "stop" /\ removal' = "service"
  /\ \/ UNCHANGED <<processes, systemd>>
     \/ unit # "inactive" /\ unit' = "inactive" /\ KillGroup
  /\ UNCHANGED installed

\* remove: what it takes away is gone, unless it fails.
Remove(here, next, things) ==
  /\ removal = here /\ removal' = next
  /\ files' \in {files, files \ things}

UninstallRemoves ==
  /\ \/ Remove("service", "config", {"service", "service_text"})
     \/ Remove("config", "binary", {"config"})
     \/ Remove("binary", "none", {"binary"})
  /\ UNCHANGED <<config, processes, systemd>>

UninstallKilled ==
  /\ removal # "none" /\ removal' = "none"
  /\ UNCHANGED <<installed, processes, systemd>>

-----------------------------------------------------------------------------
Orig ==
  \/ Install \/ InstallConfig \/ InstallConfigText
  \/ InstallService \/ InstallServiceText
  \/ Load \/ Detach

Parent == WritePidFile \/ ForkI2C \/ ForkEth \/ WaitI2C \/ WaitEth

Child(role) == InitReaps(role) \/ IF role = "i2c" THEN OpenBus \/ I2CForwards
                                                 ELSE EthReads

Operator ==
  \/ StartUnit \/ StopUnit \/ RunByHand \/ Edit
  \/ Uninstall \/ UninstallStops \/ UninstallRemoves \/ UninstallKilled

Killed == OrigEnds \/ ParentKilled \/ \E role \in Roles : ChildKilled(role)

Next ==
  \/ Operator
  \/ MainEnds \/ Restart \/ GiveUp
  \/ Orig \/ Parent \/ (\E role \in Roles : Child(role))
  \/ Killed

Spec == Init /\ [][Next]_vars

\* The kernel schedules the processes, and systemd does its work.
FairSpec ==
  /\ Spec
  /\ WF_vars(Orig) /\ WF_vars(Parent) /\ WF_vars(OpenBus)
  /\ WF_vars(MainEnds) /\ WF_vars(Restart \/ GiveUp)

-----------------------------------------------------------------------------
(* Safety                                                                  *)

\* Installation and removal are many steps, and any of them may fail or be
\* the last: a service may well be left without its configuration.  Even then
\* what systemd starts installs nothing, since it cannot copy itself onto
\* itself: no start of the service ever puts the defaults over what the
\* operator has configured, or undoes a removal.
ServiceInstallsNothing == mainpid = "orig" => orig \notin Installing

\* When a daemon is born, every process of the one before is dead: two never
\* share the I2C bus, whichever process of it died, with systemd knowing it
\* or not.
OneDaemon ==
  orig \in Installing \cup {"install", "load", "daemon"} =>
    parent = "none" /\ \A role \in Roles : ~Alive(role)

\* Whatever the file says, the daemon has an address and a port it can use.
ConfigIsLegal ==
  /\ cfg.i2c_addr \in MIN_I2C_ADDR .. MAX_I2C_ADDR
  /\ cfg.server_port \in MIN_PORT + 1 .. MAX_PORT

(* What a message of the code says and the code does not do                *)

\* config.c:48, "Using default": of a bus that is none.
BadBusFallsBack == parent # "none" => cfg.i2c_bus \in Buses \cup {DEFAULT_I2C_BUS}

(* Liveness                                                                *)

Gone(role) == child[role] \in {"dead", "none", "unforked"}

\* When both children of a service have died, in either order, it is started
\* anew, unless systemd or the operator has it otherwise: the wait for one
\* child never hides the death of the other for ever.
RestartsWhenBothDie ==
  parent = "wait_i2c" /\ mainpid = "parent" /\ (\A role \in Roles : Gone(role))
    ~> orig = "install" \/ unit \in {"failed", "inactive"}
=============================================================================
