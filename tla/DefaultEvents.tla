--------------------------- MODULE DefaultEvents ---------------------------
(***************************************************************************)
(* The files libapapi is shipped with: default_eventlist.txt and           *)
(* default_eventops.csv, for two packages of four cores.                   *)
(***************************************************************************)
EXTENDS EventFiles

Named(cmp, events) ==
  [i \in DOMAIN events |-> [cmp |-> cmp, event |-> events[i]]]

\* The packages and cores of the lines of a block, in the order of the file.
PerCore(name) == [i \in 1 .. 8 |-> <<name, (i - 1) \div 4, (i - 1) % 4>>]
Frequencies ==
  [i \in 1 .. 16 |-> <<IF i % 2 = 1 THEN "AVG_FREQUENCY" ELSE "EFF_FREQUENCY",
                       ((i - 1) \div 2) % 2, (i - 1) \div 4>>]

RaplEvents ==
  Named("rapl",
    <<<<"PACKAGE_ENERGY", 0>>, <<"PACKAGE_ENERGY", 1>>, <<"DRAM_ENERGY", 0>>,
      <<"DRAM_ENERGY", 1>>, <<"PP0_ENERGY", 0>>, <<"PP0_ENERGY", 1>>>>
    \o PerCore("THERM_STATUS") \o <<<<"THERM_STATUS", 0>>, <<"THERM_STATUS", 1>>>>
    \o Frequencies
    \o <<<<"TIME_WORK">>, <<"TIME_IDLE">>, <<"TIME_UTIL">>, <<"MEM_TOTAL">>,
         <<"MEM_USED">>, <<"MEM_FREE">>, <<"SWAP_TOTAL">>, <<"SWAP_USED">>,
         <<"SWAP_FREE">>>>)

NvmlEvents ==
  Named("nvml",
    <<<<"fan_speed">>, <<"total_memory">>, <<"allocated_memory">>,
      <<"unallocated_memory">>, <<"power">>, <<"temperature">>,
      <<"graphics_clock">>, <<"sm_clock">>, <<"memory_clock">>,
      <<"gpu_utilization">>, <<"memory_utilization">>, <<"processes">>>>)

MaxelerEvents ==
  Named("maxeler",
    <<<<"fpga_POWER">>, <<"vcc1v0_c_POWER">>, <<"vcc1v5_ddr_POWER">>,
      <<"vcc2v5_aux_POWER">>, <<"imgt_1v0_POWER">>, <<"imgt_1v2_POWER">>,
      <<"mgt_1v0_POWER">>, <<"mgt_1v2_POWER">>, <<"imgt_TEMPERATURE">>,
      <<"mmgt_TEMPERATURE">>, <<"COMPUTE_UTIL">>>>)

MickncEvents ==
  Named("micknc",
    <<<<"POWER_PCIE">>, <<"POWER_C2X3">>, <<"POWER_C2X4">>, <<"POWER_VCCP">>,
      <<"POWER_VDDG">>, <<"POWER_VDDQ">>, <<"POWER_MIC">>, <<"TEMP_DIE">>,
      <<"TEMP_GDDR">>, <<"TEMP_FANIN">>, <<"TEMP_FANOUT">>, <<"TEMP_VCCP">>,
      <<"TEMP_VDDG">>, <<"TEMP_VDDQ">>, <<"FREQ_CORE">>, <<"FREQ_MEM">>,
      <<"TIME_ACTIVE">>, <<"TIME_IDLE">>, <<"UTIL">>, <<"MEM_TOTAL">>,
      <<"MEM_USED">>, <<"MEM_FREE">>>>)

IpmiEvents ==
  Named("ipmi", <<<<"BOARD_POWER">>, <<"SYSTEM_POWER">>, <<"SYSTEM_TEMP">>>>)

Lines(names) == [i \in DOMAIN names |-> EventLine(names[i])]

\* A comment names the component, a blank line ends its block.
DefaultEventList ==
  <<Comment>> \o Lines(RaplEvents) \o <<Blank, Comment>> \o Lines(NvmlEvents)
  \o <<Blank, Comment>> \o Lines(MaxelerEvents)
  \o <<Blank, Comment>> \o Lines(MickncEvents)
  \o <<Blank, Comment>> \o Lines(IpmiEvents) \o <<Blank>>

-----------------------------------------------------------------------------
(* The operations: energy counters, power, and what is only looked at.     *)

Extremes == <<"MIN", "MAX", "AVG">>

Energy(name) ==
  OpsLine(name, "DIV_DIFF_TIME", <<"ACC">>, Extremes, <<"Ws", "W">>)
Power(name) ==
  OpsLine(name, "SAMPLE1_MUL_DIFF_TIME", Extremes, <<"ACC">>, <<"W", "Ws">>)
Plain(name, unit) == OpsLine(name, "NOP", Extremes, <<"NO">>, <<unit, "-">>)

RaplOps(name) ==
  LET e == name.event[1]
  IN CASE e \in {"PACKAGE_ENERGY", "DRAM_ENERGY", "PP0_ENERGY"} -> Energy(name)
       [] e = "THERM_STATUS" -> Plain(name, "C")
       [] e \in {"AVG_FREQUENCY", "EFF_FREQUENCY"} -> Plain(name, "KHz")
       [] e \in {"TIME_WORK", "TIME_IDLE"} -> Plain(name, "s")
       [] e = "TIME_UTIL" -> Plain(name, "%")
       [] OTHER -> Plain(name, "kiB")

NvmlOps(name) ==
  LET e == name.event[1]
  IN CASE e = "power" -> Power(name)
       [] e \in {"total_memory", "allocated_memory", "unallocated_memory"} ->
            Plain(name, "B")
       [] e = "temperature" -> Plain(name, "C")
       [] e \in {"graphics_clock", "sm_clock", "memory_clock"} ->
            Plain(name, "MHz")
       [] e = "processes" -> Plain(name, "#")
       [] OTHER -> Plain(name, "%")

MaxelerOps(name) ==
  LET e == name.event[1]
  IN CASE e \in {"imgt_TEMPERATURE", "mmgt_TEMPERATURE"} -> Plain(name, "C")
       [] e = "COMPUTE_UTIL" -> Plain(name, "%")
       [] OTHER -> Power(name)

MicPowerEvents == {"POWER_PCIE", "POWER_C2X3", "POWER_C2X4", "POWER_VCCP",
                   "POWER_VDDG", "POWER_VDDQ", "POWER_MIC"}

MickncOps(name) ==
  LET e == name.event[1]
  IN CASE e \in MicPowerEvents -> Power(name)
       [] e \in {"FREQ_CORE", "FREQ_MEM"} -> Plain(name, "MHz")
       [] e \in {"TIME_ACTIVE", "TIME_IDLE"} ->
            OpsLine(name, "NOP", Extremes \o <<"ACC">>, <<"NO">>, <<"s", "-">>)
       [] e = "UTIL" -> Plain(name, "%")
       [] e \in {"MEM_TOTAL", "MEM_USED", "MEM_FREE"} -> Plain(name, "kiB")
       [] OTHER -> Plain(name, "C")

IpmiOps(name) == IF name.event = <<"SYSTEM_TEMP">> THEN Plain(name, "C")
                 ELSE Power(name)

OpsOf(name) == CASE name.cmp = "rapl" -> RaplOps(name)
                 [] name.cmp = "nvml" -> NvmlOps(name)
                 [] name.cmp = "maxeler" -> MaxelerOps(name)
                 [] name.cmp = "micknc" -> MickncOps(name)
                 [] name.cmp = "ipmi" -> IpmiOps(name)

Each(names) == [i \in DOMAIN names |-> OpsOf(names[i])]

DefaultEventOps ==
  Each(RaplEvents) \o <<Blank>> \o Each(NvmlEvents) \o <<Blank>>
  \o Each(MaxelerEvents) \o <<Blank>> \o Each(MickncEvents) \o <<Blank>>
  \o Each(IpmiEvents)
=============================================================================
