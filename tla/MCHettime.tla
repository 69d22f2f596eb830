----------------------------- MODULE MCHettime -----------------------------
(* hettime, run twice, with each of the plugins; or a program that         *)
(* measures itself with one of the wrappers.  On the system the latter     *)
(* meets one power only, which bounds the sums of the requests that may    *)
(* time out.                                                               *)
EXTENDS Wrappers

MCFrequencies == {1, 2, 3}
MCGovernors == {"ondemand", "performance"}

Setting(variant, exits, low, high, governor, clocks) ==
  [variant |-> variant, exits |-> exits, cpuMin |-> low, cpuMax |-> high,
   governor |-> governor, clocks |-> clocks]

Plain(variant, exits) == Setting(variant, exits, 0, 0, "ondemand", "cur")

MCSettings ==
  [p \in Plugin |->
     CASE p = "cpu" -> {Plain("full", 2), Setting("full", 1, 1, 1, "performance", "cur"),
                        Setting("full", 1, 3, 3, "ondemand", "cur"),
                        Setting("full", 1, 4, 0, "ondemand", "cur")}
       [] p = "gpu" -> {Plain("full", 2), Setting("full", 1, 0, 0, "ondemand", "max")}
       [] p = "fpga" -> {Plain("light", 2)}
       [] p = "mic" -> {Plain("full", 2), Plain("light", 1)}
       [] p = "sys" -> {Plain("full", 2), Plain("light", 1)}]

MCPlugins ==
  [hettime |-> Plugin, task |-> {"cpu"}, node |-> {"gpu", "sys"}, python |-> {"cpu"}]

RunInit ==
  /\ HInit /\ NoIntervals
  /\ program \in Program \cup {"hettime"} /\ plugin \in MCPlugins[program]

RunNext ==
  \/ program = "hettime" /\ HNext /\ UNCHANGED wrapped
  \/ program # "hettime" /\ plugin # "sys" /\ WNext
  \/ /\ program # "hettime" /\ plugin = "sys" /\ WNext
     /\ hw'.time < MaxTime /\ hw'.level = FreshMachine.level

RunSpec == RunInit /\ [][RunNext]_wvars /\ HFairness
=============================================================================
