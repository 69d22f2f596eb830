--------------------------- MODULE MCDriverUsers ---------------------------
(* A TLC instance of the driver.  One part moves in a behaviour: msmonitor *)
(* and hettime open, close and call ioctl; or both measure the cpu; or one *)
(* of them measures the system.  Timeouts are valid up to 2; two cores and *)
(* UINT64_MAX are scaled down, with the core that means the memory still   *)
(* above the others.                                                       *)
EXTENDS DriverUsers, DriverFile

CONSTANTS msmonitor, hettime

MCProcess == {msmonitor, hettime}
MCArg == {0, 1, 3}
MCIpmiFile == {"sys"}
MCSensor == [r \in {18, 90} |-> r + 1]
MCRecords == <<18, 90>>

VARIABLE part

PartInit == Init /\ DInit /\ part \in {"users", "cpu", "sys"}
PartNext ==
  /\ part' = part
  /\ \/ part = "users" /\ Next /\ UNCHANGED fvars
     \/ part = "cpu" /\ (\E f \in CpuFile : UseFile(f)) /\ UNCHANGED vars
     \/ part = "sys" /\ (\E f \in IpmiFile : UseFile(f)) /\ UNCHANGED vars
PartSpec == PartInit /\ [][PartNext]_<<part, vars, fvars>> /\ Fairness
=============================================================================
