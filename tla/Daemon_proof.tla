----------------------------- MODULE Daemon_proof -----------------------------
(***************************************************************************)
(* The daemon for any files an operator may write and any buses: it always *)
(* has a usable configuration, whatever a failed removal leaves behind no  *)
(* start of the service installs anything, and no two daemons ever live at *)
(* a time.                                                                 *)
(***************************************************************************)
EXTENDS Daemon, SequenceTheorems, WellFoundedInduction, TLAPS

-----------------------------------------------------------------------------
(* load_config                                                             *)

(* A set of numbers that is bounded has a largest one.                     *)
LEMMA LargestBelow ==
  ASSUME NEW n \in Nat, NEW S \in SUBSET (1 .. n), S # {}
  PROVE  \E m \in S : \A k \in S : k <= m
<1> DEFINE R == OpToRel(<, Nat)
           T == {d \in Nat : n - d \in S}
<1>1. IsWellFoundedOn(R, Nat)
  BY NatLessThanWellFounded DEF OpToRel
<1>2. PICK s \in S : TRUE
  OBVIOUS
<1>3. n - s \in T /\ T \subseteq Nat
  OBVIOUS
<1>4. PICK d \in T : \A e \in T : ~ (<<e, d>> \in R)
  <2> HIDE DEF T, R
  <2> QED BY <1>1, <1>3, WFMin
<1>5. \A e \in T : ~ (e < d)
  BY <1>4 DEF OpToRel
<1>6. ASSUME NEW k \in S PROVE k <= n - d
  <2>1. n - k \in T
    OBVIOUS
  <2> QED BY <2>1, <1>5
<1> QED
  BY <1>6

LEMMA DefaultValues ==
  /\ DefaultConfig[1] = [key |-> "i2c_bus", val |-> DEFAULT_I2C_BUS]
  /\ DefaultConfig[2] = [key |-> "i2c_addr", val |-> 16]
  /\ DefaultConfig[3] = [key |-> "server_ip", val |-> DEFAULT_SERVER_IP]
  /\ DefaultConfig[4] = [key |-> "server_port", val |-> 12321]
  BY DEF DefaultConfig

LEMMA DefaultLines == DefaultConfig \in Seq(Line) /\ Len(DefaultConfig) = 4
<1>1. DEFAULT_I2C_BUS \in Texts /\ DEFAULT_SERVER_IP \in Texts
  BY DaemonAssumption
<1>2. [key |-> "i2c_bus", val |-> DEFAULT_I2C_BUS] \in Line
  BY <1>1 DEF Line
<1>3. [key |-> "i2c_addr", val |-> 16] \in Line
  BY DEF Line
<1>4. [key |-> "server_ip", val |-> DEFAULT_SERVER_IP] \in Line
  BY <1>1 DEF Line
<1>5. [key |-> "server_port", val |-> 12321] \in Line
  BY DEF Line
<1> QED
  BY <1>2, <1>3, <1>4, <1>5 DEF DefaultConfig

(* The value taken is one of a line of that key that was accepted.         *)
LEMMA ValueIsAccepted ==
  ASSUME NEW lines \in Seq(Line),
         NEW key \in {"i2c_bus", "i2c_addr", "server_ip", "server_port"}
  PROVE  \E l \in Line : l.key = key /\ Accepted(l) /\ ValueOf(key, lines) = l.val
<1> DEFINE all  == DefaultConfig \o lines
           good == {n \in DOMAIN all : all[n].key = key /\ Accepted(all[n])}
<1>1. all \in Seq(Line) /\ Len(all) = 4 + Len(lines) /\ Len(lines) \in Nat
  <2>1. Len(lines) \in Nat
    BY LenProperties
  <2>2. Len(all) = Len(DefaultConfig) + Len(lines) /\ all \in Seq(Line)
    BY DefaultLines, ConcatProperties
  <2> QED BY <2>1, <2>2, DefaultLines
<1>2. \A n \in 1 .. 4 : all[n] = DefaultConfig[n]
  <2>1. \A n \in 1 .. Len(DefaultConfig) + Len(lines) :
          all[n] = IF n <= Len(DefaultConfig) THEN DefaultConfig[n]
                   ELSE lines[n - Len(DefaultConfig)]
    BY DefaultLines, ConcatProperties
  <2>2. Len(DefaultConfig) = 4 /\ Len(lines) \in Nat
    BY DefaultLines, LenProperties
  <2> HIDE DEF all
  <2> QED BY <2>1, <2>2
<1>3. \E n \in 1 .. 4 : DefaultConfig[n].key = key /\ Accepted(DefaultConfig[n])
  <2>1. /\ DefaultConfig[1].key = "i2c_bus" /\ DefaultConfig[2].key = "i2c_addr"
        /\ DefaultConfig[3].key = "server_ip" /\ DefaultConfig[4].key = "server_port"
        /\ DefaultConfig[2].val = 16 /\ DefaultConfig[4].val = 12321
    BY DefaultValues
  <2>2. Accepted(DefaultConfig[1]) /\ Accepted(DefaultConfig[3])
    BY <2>1 DEF Accepted
  <2>3. Accepted(DefaultConfig[2])
    BY <2>1 DEF Accepted, MIN_I2C_ADDR, MAX_I2C_ADDR
  <2>4. Accepted(DefaultConfig[4])
    BY <2>1 DEF Accepted, MIN_PORT, MAX_PORT
  <2>5. CASE key = "i2c_bus"
    BY <2>1, <2>2, <2>5
  <2>6. CASE key = "i2c_addr"
    BY <2>1, <2>3, <2>6
  <2>7. CASE key = "server_ip"
    BY <2>1, <2>2, <2>7
  <2>8. CASE key = "server_port"
    BY <2>1, <2>4, <2>8
  <2> QED BY <2>5, <2>6, <2>7, <2>8
<1>4. DOMAIN all = 1 .. Len(all)
  BY <1>1
<1>5. good # {} /\ good \in SUBSET (1 .. Len(all)) /\ Len(all) \in Nat
  <2> HIDE DEF all
  <2> QED BY <1>1, <1>2, <1>3, <1>4
<1>6. \E m \in good : \A k \in good : k <= m
  <2> HIDE DEF good, all
  <2> QED BY <1>5, LargestBelow
<1> DEFINE last == CHOOSE n \in good : \A m \in good : m <= n
<1>7. last \in good
  <2> HIDE DEF good
  <2> QED BY <1>6
<1>8. all[last] \in Line /\ all[last].key = key /\ Accepted(all[last])
  <2> HIDE DEF last, all
  <2> QED BY <1>1, <1>4, <1>7, ElementOfSeq
<1> QED
  BY <1>8 DEF ValueOf

LEMMA ConfigLoaded ==
  ASSUME NEW lines \in Seq(Line)
  PROVE  /\ load_config(lines) \in Config
         /\ load_config(lines).i2c_addr \in MIN_I2C_ADDR .. MAX_I2C_ADDR
         /\ load_config(lines).server_port \in MIN_PORT + 1 .. MAX_PORT
<1>1. \A key \in {"i2c_bus", "server_ip"} : ValueOf(key, lines) \in Texts
  <2>1. \A l \in Line : l.key \in {"i2c_bus", "server_ip"} => l.val \in Texts
    BY DEF Line
  <2> QED BY <2>1, ValueIsAccepted
<1>2. ValueOf("i2c_addr", lines) \in Int
      /\ ValueOf("i2c_addr", lines) \in MIN_I2C_ADDR .. MAX_I2C_ADDR
  <2>1. PICK l \in Line : /\ l.key = "i2c_addr" /\ Accepted(l)
                         /\ ValueOf("i2c_addr", lines) = l.val
    BY ValueIsAccepted
  <2>2. l.val \in Int
    BY <2>1 DEF Line
  <2> QED BY <2>1, <2>2 DEF Accepted
<1>3. ValueOf("server_port", lines) \in Int
      /\ ValueOf("server_port", lines) \in MIN_PORT + 1 .. MAX_PORT
  <2>1. PICK l \in Line : /\ l.key = "server_port" /\ Accepted(l)
                         /\ ValueOf("server_port", lines) = l.val
    BY ValueIsAccepted
  <2>2. l.val \in Int
    BY <2>1 DEF Line
  <2> QED BY <2>1, <2>2 DEF Accepted
<1>4. ValueOf("i2c_bus", lines) \in Texts /\ ValueOf("server_ip", lines) \in Texts
  BY <1>1
<1>5. load_config(lines).i2c_addr = ValueOf("i2c_addr", lines)
      /\ load_config(lines).server_port = ValueOf("server_port", lines)
  BY DEF load_config
<1>6. load_config(lines) \in Config
  BY <1>2, <1>3, <1>4 DEF load_config, Config
<1> QED
  BY <1>2, <1>3, <1>5, <1>6

-----------------------------------------------------------------------------
(* The invariant                                                           *)

\* systemd has a main process while the service is active, and nothing of
\* it is left when it waits to start it again.
SystemdFits ==
  /\ mainpid # "none" <=> unit = "active"
  /\ mainpid = "parent" => orig = "none"
  /\ unit = "restarting" => orig = "none" /\ parent = "none" /\ child = Childless

\* systemd starts the installed program, and the installed program, which
\* cannot be copied onto itself, installs nothing.
InstallFits ==
  /\ mainpid = "orig" => self = "installed"
  /\ orig \in Installing => self = "elsewhere"

DaemonInv ==
  /\ TypeOK /\ ConfigIsLegal
  /\ SystemdFits /\ InstallFits /\ OneDaemon

USE DEF installed, processes, systemd

LEMMA DaemonInit ==
  ASSUME Init
  PROVE  DaemonInv
<1>1. config \in Seq(Line) /\ cfg \in Config /\ ConfigIsLegal
  <2>1. <<>> \in Seq(Line)
    OBVIOUS
  <2> QED BY <2>1, ConfigLoaded DEF Init, ConfigIsLegal
<1>2. pipe \in 0 .. PipeSize
  BY DaemonAssumption DEF Init
<1>3. TypeOK
  BY <1>1, <1>2 DEF Init, TypeOK, Childless, Roles
<1> QED
  BY <1>1, <1>3 DEF Init, DaemonInv, SystemdFits, InstallFits, Installing,
       OneDaemon, Alive, Childless, Roles

LEMMA DaemonStep ==
  ASSUME DaemonInv, [Next]_vars
  PROVE  DaemonInv'
<1> USE DEF DaemonInv, TypeOK, ConfigIsLegal, SystemdFits, InstallFits, OneDaemon,
            Alive, Childless, Roles, Things, Installing
<1>0. 0 \in 0 .. PipeSize
  BY DaemonAssumption
<1>1. CASE StartUnit
  BY <1>1 DEF StartUnit, Quiet, Spawn
<1>2. CASE StopUnit
  BY <1>2, <1>0 DEF StopUnit, KillGroup
<1>3. CASE RunByHand
  BY <1>3 DEF RunByHand, Quiet
<1>4. CASE Edit
  BY <1>4, DaemonAssumption DEF Edit
<1>5. CASE Uninstall
  BY <1>5 DEF Uninstall
<1>6. CASE UninstallStops
  <2>1. CASE UNCHANGED <<processes, systemd>>
    <3>1. /\ removal' = "service"
          /\ UNCHANGED <<installed, processes, systemd>>
      BY <1>6, <2>1 DEF UninstallStops
    <3> QED BY <3>1
  <2>2. CASE unit # "inactive" /\ unit' = "inactive" /\ KillGroup
    <3>1. removal' = "service" /\ UNCHANGED installed
      BY <1>6 DEF UninstallStops
    <3> QED BY <2>2, <3>1, <1>0 DEF KillGroup
  <2> QED BY <1>6, <2>1, <2>2 DEF UninstallStops
<1>7. CASE UninstallRemoves
  <2>1. files' \subseteq Things
    BY <1>7 DEF UninstallRemoves, Remove
  <2>2. /\ removal' \in {"none", "config", "binary"}
        /\ UNCHANGED <<config, processes, systemd>>
    BY <1>7 DEF UninstallRemoves, Remove
  <2> QED BY <2>1, <2>2
<1>8. CASE UninstallKilled
  BY <1>8 DEF UninstallKilled
<1>9. CASE MainEnds
  BY <1>9, <1>0 DEF MainEnds, KillGroup
<1>10. CASE Restart
  BY <1>10 DEF Restart, Spawn
<1>11. CASE GiveUp
  BY <1>11 DEF GiveUp
<1>12. CASE Install
  BY <1>12 DEF Install, OrigGoto
<1>13. CASE InstallConfig
  <2>1. <<>> \in Seq(Line)
    OBVIOUS
  <2>2. files' \subseteq Things /\ config' \in Seq(Line)
    BY <1>13, <2>1 DEF InstallConfig
  <2>3. /\ orig = "config" /\ orig' \in {"config_text", "load"}
        /\ UNCHANGED <<self, parent, cfg, child, pipe, systemd, removal>>
    BY <1>13 DEF InstallConfig, OrigGoto
  <2> QED BY <2>2, <2>3
<1>13a. CASE InstallConfigText
  <2>1. config' \in Seq(Line)
    BY <1>13a, DefaultLines DEF InstallConfigText
  <2>2. /\ orig = "config_text" /\ orig' = "service"
        /\ UNCHANGED <<files, self, parent, cfg, child, pipe, systemd, removal>>
    BY <1>13a DEF InstallConfigText, OrigGoto
  <2>3. TypeOK' /\ ConfigIsLegal'
    BY <2>1, <2>2
  <2>4. SystemdFits'
    BY <2>2
  <2>5. InstallFits'
    BY <2>2
  <2>6. OneDaemon'
    BY <2>2
  <2> QED BY <2>3, <2>4, <2>5, <2>6
<1>14. CASE InstallService
  <2>1. files' \subseteq Things
    BY <1>14 DEF InstallService
  <2>2. /\ orig = "service" /\ orig' \in {"service_text", "load"}
        /\ UNCHANGED <<config, self, parent, cfg, child, pipe, systemd, removal>>
    BY <1>14 DEF InstallService, OrigGoto
  <2>3. TypeOK' /\ ConfigIsLegal'
    BY <2>1, <2>2
  <2>4. SystemdFits'
    BY <2>2
  <2>5. InstallFits'
    BY <2>2
  <2>6. OneDaemon'
    BY <2>2
  <2> QED BY <2>3, <2>4, <2>5, <2>6
<1>14a. CASE InstallServiceText
  <2>1. files' \subseteq Things
    BY <1>14a DEF InstallServiceText
  <2>2. /\ orig = "service_text" /\ orig' = "exit"
        /\ UNCHANGED <<config, self, parent, cfg, child, pipe, systemd, removal>>
    BY <1>14a DEF InstallServiceText, OrigGoto
  <2>3. orig' \notin Installing
    BY <2>2
  <2>4. TypeOK' /\ ConfigIsLegal'
    BY <2>1, <2>2
  <2>5. SystemdFits' /\ InstallFits'
    BY <2>2, <2>3
  <2>6. OneDaemon'
    BY <2>2
  <2> QED BY <2>4, <2>5, <2>6
<1>15. CASE Load
  BY <1>15, ConfigLoaded DEF Load
<1>16. CASE Detach
  BY <1>16, <1>0 DEF Detach
<1>17. CASE OrigEnds
  BY <1>17 DEF OrigEnds
<1>18. CASE WritePidFile
  BY <1>18 DEF WritePidFile, ParentStep
<1>19. CASE ForkI2C
  BY <1>19 DEF ForkI2C, Fork, ParentStep
<1>20. CASE ForkEth
  BY <1>20 DEF ForkEth, Fork, ParentStep
<1>21. CASE WaitI2C
  BY <1>21 DEF WaitI2C, ParentStep, WaitPid, Awaited
<1>22. CASE WaitEth
  BY <1>22 DEF WaitEth, ParentStep, WaitPid, Awaited
<1>23. CASE ParentKilled
  BY <1>23 DEF ParentKilled
<1>24. CASE OpenBus
  BY <1>24 DEF OpenBus, Becomes
<1>25. CASE I2CForwards
  <2>1. CASE ReadEnd
    <3>1. /\ pipe' \in 0 .. PipeSize /\ child' = child
          /\ UNCHANGED <<installed, orig, self, parent, cfg, systemd, removal>>
      BY <1>25, <2>1, DaemonAssumption DEF I2CForwards, Becomes
    <3> QED BY <3>1
  <2>2. CASE ~ ReadEnd
    <3>1. /\ child["i2c"] = "run" /\ child' = [child EXCEPT !["i2c"] = "dead"]
          /\ UNCHANGED <<pipe, installed, orig, self, parent, cfg, systemd, removal>>
      BY <1>25, <2>2 DEF I2CForwards, Becomes
    <3> QED BY <3>1
  <2> QED BY <2>1, <2>2
<1>26. CASE EthReads
  <2>1. pipe' \in 0 .. PipeSize /\ child' = [child EXCEPT !["eth"] = "run"]
    BY <1>26, DaemonAssumption DEF EthReads, Becomes
  <2> QED BY <1>26, <2>1 DEF EthReads, Becomes
<1>27. ASSUME NEW role \in Roles, ChildKilled(role)
       PROVE  DaemonInv'
  BY <1>27 DEF ChildKilled, Becomes
<1>28. ASSUME NEW role \in Roles, InitReaps(role)
       PROVE  DaemonInv'
  BY <1>28 DEF InitReaps, Becomes
<1>29. CASE UNCHANGED vars
  BY <1>29 DEF vars
<1> QED
  <2>1. CASE Operator
    BY <2>1, <1>1, <1>2, <1>3, <1>4, <1>5, <1>6, <1>7, <1>8 DEF Operator
  <2>2. CASE Orig
    BY <2>2, <1>12, <1>13, <1>14, <1>15, <1>16, <1>13a, <1>14a DEF Orig
  <2>3. CASE Parent
    BY <2>3, <1>18, <1>19, <1>20, <1>21, <1>22 DEF Parent
  <2>4. ASSUME NEW role \in Roles, Child(role)
        PROVE  DaemonInv'
    BY <2>4, <1>24, <1>25, <1>26, <1>28 DEF Child
  <2>5. CASE Killed
    BY <2>5, <1>17, <1>23, <1>27 DEF Killed
  <2> HIDE DEF DaemonInv
  <2> QED BY <2>1, <2>2, <2>3, <2>4, <2>5, <1>9, <1>10, <1>11, <1>29 DEF Next

(* What systemd knows, what is installed and which processes live fit      *)
(* together (main.c): the invariant the theorems below rest on.            *)
THEOREM DaemonInvariant == Spec => []DaemonInv
<1>1. Init => DaemonInv
  BY DaemonInit
<1>2. DaemonInv /\ [Next]_vars => DaemonInv'
  BY DaemonStep
<1> QED
  BY <1>1, <1>2, PTL DEF Spec

-----------------------------------------------------------------------------
(* The theorems                                                            *)

(* Every variable keeps its type, the pipe within its capacity (main.c).   *)
THEOREM TypeCorrect == Spec => []TypeOK
<1>1. DaemonInv => TypeOK
  BY DEF DaemonInv
<1> QED
  BY <1>1, DaemonInvariant, PTL

(* Whatever the operator writes into parksys.config, the address and the   *)
(* port load_config gives the daemon are within their ranges (config.c).   *)
THEOREM ConfigAlwaysLegal == Spec => []ConfigIsLegal
<1>1. DaemonInv => ConfigIsLegal
  BY DEF DaemonInv
<1> QED
  BY <1>1, DaemonInvariant, PTL

(* What systemd starts installs nothing and so writes no configuration,    *)
(* whatever a removal of which any step has failed, or which was killed,   *)
(* has left of the files: the program cannot be copied onto itself         *)
(* (first_time_install).                                                   *)
THEOREM StartKeepsConfig == Spec => []ServiceInstallsNothing
<1>1. DaemonInv => ServiceInstallsNothing
  BY DEF DaemonInv, InstallFits, ServiceInstallsNothing
<1> QED
  BY <1>1, DaemonInvariant, PTL

(* No process of an earlier daemon lives when one is about to be born      *)
(* (daemon(), the two forks, and the service's restarts).                  *)
THEOREM NeverTwoDaemons == Spec => []OneDaemon
<1>1. DaemonInv => OneDaemon
  BY DEF DaemonInv
<1> QED
  BY <1>1, DaemonInvariant, PTL
===============================================================================
