------------------------------- MODULE MCDaemon -------------------------------
(***************************************************************************)
(* Three files an operator may write: one that changes nothing, one with a *)
(* bus that is none and with numbers out of their ranges, and one where a  *)
(* good line comes after a bad one.                                        *)
(***************************************************************************)
EXTENDS Daemon

Says(key, val) == [key |-> key, val |-> val]

MCConfigFiles ==
  { <<>>,
    << Says("i2c_bus", "/dev/null0"), Says("server_port", 1024),
       Says("i2c_addr", 120) >>,
    << Says("server_port", 70000), Says("server_port", 65535),
       Says("i2c_addr", 8), Says("server_ip", "10.0.0.1") >> }

MCTexts == {"/dev/i2c-1", "/dev/i2c-2", "/dev/null0", "192.168.1.71", "10.0.0.1"}
MCBuses == {"/dev/i2c-1", "/dev/i2c-2"}
=============================================================================
