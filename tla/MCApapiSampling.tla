--------------------------- MODULE MCApapiSampling ---------------------------
(* The operations of default_eventops.csv for an energy counter and for a  *)
(* power sensor, and the other two operations for a sensor.                *)
EXTENDS ApapiSampling

MCEvent == {"counter", "sensor"}
Energy == [op1 |-> "DIV_DIFF_TIME", value0 |-> {"ACC"},
           value1 |-> {"MIN", "MAX", "AVG"}, max_sample |-> 2]
Power == [op1 |-> "SAMPLE1_MUL_DIFF_TIME", value0 |-> {"MIN", "MAX", "AVG"},
          value1 |-> {"ACC"}, max_sample |-> 0]
Mean == [op1 |-> "AVG_SAMPLE_MUL_DIFF_TIME", value0 |-> {"AVG", "ACC"},
         value1 |-> {"ACC", "AVG"}, max_sample |-> 0]
Change == [op1 |-> "SAMPLE_DIFF", value0 |-> {"MIN"},
           value1 |-> {"ACC", "AVG"}, max_sample |-> 0]
MCOpsTable == {[counter |-> Energy, sensor |-> op] : op \in {Power, Mean, Change}}
=============================================================================
