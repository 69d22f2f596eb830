--------------------------- MODULE MCIpmiRequest ---------------------------
(* A TLC instance of IpmiRequest: msmonitor and hettime use the driver at  *)
(* the same time.                                                          *)
EXTENDS IpmiRequest

CONSTANTS msmonitor, hettime

MCReader == {msmonitor, hettime}
=============================================================================
