------------------------------ MODULE Reports ------------------------------
(***************************************************************************)
(* What becomes of the fields of the measurement structs: the getters of   *)
(* libmeasure, the three forms in which hettime prints them, and what      *)
(* msmonitor pushes at every tick and shows.  A row is a field with the    *)
(* unit it is printed or plotted with.                                     *)
(***************************************************************************)
EXTENDS ApapiMapper

In(unit, fields) == {<<f, unit>> : f \in fields}

-----------------------------------------------------------------------------
(* The getters: the field that each of them returns. *)

CpuGetters(p, c) ==
  [cpu_time_total |-> <<"msr_time_runtime">>,
   cpu_energy_total_pkg |-> <<"msr_energy_acc", p, "PKG">>,
   cpu_energy_total_pp0 |-> <<"msr_energy_acc", p, "PP0">>,
   cpu_energy_total_dram |-> <<"msr_energy_acc", p, "DRAM">>,
   cpu_power_avg_pkg |-> <<"msr_power_avg", p, "PKG">>,
   cpu_power_avg_pp0 |-> <<"msr_power_avg", p, "PP0">>,
   cpu_power_avg_dram |-> <<"msr_power_avg", p, "DRAM">>,
   cpu_temp_max_pkg |-> <<"msr_temperature_pkg_max", p>>,
   cpu_temp_max_core |-> <<"msr_temperature_core_max", p, c>>,
   cpu_freq_avg_core |-> <<"msr_freq_core_avg", p, c>>,
   cpu_freq_eff_core |-> <<"msr_freq_core_eff_avg", p, c>>,
   cpu_active_avg_all |-> <<"measure_util_active_avg">>,
   cpu_idle_avg_all |-> <<"measure_util_idle_avg">>,
   cpu_util_avg_all |-> <<"measure_util_avg">>,
   cpu_memory_total |-> <<"measure_memory_cur", "RAM_TOTAL">>,
   cpu_memory_used_max |-> <<"measure_memory_used_max">>,
   cpu_memory_free_max |-> <<"measure_memory_free_max">>,
   cpu_swap_total |-> <<"measure_memory_cur", "SWAP_TOTAL">>,
   cpu_swap_used_max |-> <<"measure_swap_used_max">>,
   cpu_swap_free_max |-> <<"measure_swap_free_max">>]

GpuGetters ==
  [gpu_time_total |-> <<"nvml_time_runtime">>,
   gpu_energy_total |-> <<"nvml_energy_acc">>,
   gpu_power_avg |-> <<"nvml_power_avg">>,
   gpu_temp_max |-> <<"nvml_temperature_max">>,
   gpu_freq_avg_graph |-> <<"nvml_clock_graphics_avg">>,
   gpu_freq_avg_sm |-> <<"nvml_clock_sm_avg">>,
   gpu_freq_avg_mem |-> <<"nvml_clock_mem_avg">>,
   gpu_util_avg_gpu |-> <<"nvml_util_gpu_avg">>,
   gpu_util_avg_mem |-> <<"nvml_util_mem_avg">>,
   gpu_memory_total |-> <<"nvml_memory_total">>,
   gpu_memory_used_max |-> <<"nvml_memory_used_max">>,
   gpu_memory_free_max |-> <<"nvml_memory_free_max">>,
   gpu_active_processes_max |-> <<"nvml_active_processes_count_max">>]

\* The getters of rails and sensors are written as functions of them: the
\* energy, the power and the temperature of the one in their name.
FpgaGetters ==
  [time_total |-> <<"maxeler_time_runtime">>,
   energy_total |-> [r \in {"VCC10", "VCC15", "VCC25", "IMGT10", "IMGT12",
                            "MGT10", "MGT12", "POWER"} |->
                       <<"maxeler_energy_acc", r>>],
   power_avg |-> [r \in {"VCC10", "VCC15", "VCC25", "IMGT10", "IMGT12",
                         "MGT10", "MGT12", "POWER"} |->
                    <<"maxeler_power_avg", r>>],
   temp_max |-> [s \in {"ITEMP", "MTEMP"} |-> <<"maxeler_temperature_max", s>>],
   util_avg_comp |-> <<"maxeler_util_comp_avg">>]

MicGetters ==
  [time_total |-> <<"mic_time_runtime">>,
   energy_total |-> [r \in {"PCIE", "C2X3", "C2X4", "VCCP", "VDDG", "VDDQ",
                            "POWER"} |-> <<"mic_energy_acc", r>>],
   power_avg |-> [r \in {"PCIE", "C2X3", "C2X4", "VCCP", "VDDG", "VDDQ",
                         "POWER"} |-> <<"mic_power_avg", r>>],
   temp_max |-> [s \in {"DIE", "GDDR", "FAN_IN", "FAN_OUT", "VCCP", "VDDG",
                        "VDDQ"} |-> <<"mic_temperature_max", s>>],
   freq_avg_mem |-> <<"mic_freq_mem_avg">>,
   freq_avg_core |-> <<"mic_freq_core_avg">>,
   active_avg_all |-> <<"mic_util_active_avg">>,
   idle_avg_all |-> <<"mic_util_idle_avg">>,
   util_avg_all |-> <<"mic_util_avg">>,
   memory_total |-> <<"mic_memory_total">>,
   memory_used_max |-> <<"mic_memory_used_max">>,
   memory_free_max |-> <<"mic_memory_free_max">>]

SystemGetters ==
  [system_time_total |-> <<"ipmi_time_runtime">>,
   system_energy_board |-> <<"ipmi_energy_sysboard_acc">>,
   system_power_board_avg |-> <<"ipmi_power_sysboard_avg">>,
   system_temp_max |-> <<"ipmi_temperature_sysboard_max">>,
   system_energy_total |-> <<"ipmi_energy_server_acc">>,
   system_power_avg |-> <<"ipmi_power_server_avg">>]

All(f) == {f[x] : x \in DOMAIN f}

-----------------------------------------------------------------------------
(* hettime: as lines of text, as values separated by semicolons, and as a  *)
(* tree; the text and the values for the packages 0 and 1 with the cores 0 *)
(* to 3, the tree for all that there are.                                  *)

CpuRows(p, c) ==
  LET g == CpuGetters(p, c) IN
    In("s", {g.cpu_time_total, g.cpu_active_avg_all, g.cpu_idle_avg_all})
    \cup In("mWs", {g.cpu_energy_total_pkg, g.cpu_energy_total_pp0,
                    g.cpu_energy_total_dram})
    \cup In("mW", {g.cpu_power_avg_pkg, g.cpu_power_avg_pp0,
                   g.cpu_power_avg_dram})
    \cup In("C", {g.cpu_temp_max_pkg, g.cpu_temp_max_core})
    \cup In("MHz", {g.cpu_freq_avg_core, g.cpu_freq_eff_core})
    \cup In("%", {g.cpu_util_avg_all})
    \cup In("kiB", {g.cpu_memory_total, g.cpu_memory_used_max,
                    g.cpu_memory_free_max, g.cpu_swap_total,
                    g.cpu_swap_used_max, g.cpu_swap_free_max})

TextCpu == UNION {CpuRows(p, c) : p \in {0, 1}, c \in 0 .. 3}
CsvCpu == UNION {CpuRows(p, c) : p \in {0, 1}, c \in 0 .. 3}
JsonCpu == UNION {CpuRows(p, c) : p \in Package, c \in Core}

TextGpu ==
  LET g == GpuGetters IN
    In("s", {g.gpu_time_total}) \cup In("mWs", {g.gpu_energy_total})
    \cup In("mW", {g.gpu_power_avg}) \cup In("C", {g.gpu_temp_max})
    \cup In("MHz", {g.gpu_freq_avg_graph, g.gpu_freq_avg_sm, g.gpu_freq_avg_mem})
    \cup In("%", {g.gpu_util_avg_gpu, g.gpu_util_avg_mem})
    \cup In("kiB", {g.gpu_memory_total, g.gpu_memory_used_max,
                    g.gpu_memory_free_max})
    \cup In("#", {g.gpu_active_processes_max})
CsvGpu == TextGpu
JsonGpu == TextGpu

TextFpga ==
  LET g == FpgaGetters IN
    In("s", {g.time_total}) \cup In("mWs", All(g.energy_total))
    \cup In("mW", All(g.power_avg)) \cup In("C", All(g.temp_max))
    \cup In("%", {g.util_avg_comp})
CsvFpga == TextFpga
JsonFpga == TextFpga

TextMic ==
  LET g == MicGetters IN
    In("s", {g.time_total, g.active_avg_all, g.idle_avg_all})
    \cup In("mWs", All(g.energy_total)) \cup In("mW", All(g.power_avg))
    \cup In("C", All(g.temp_max))
    \cup In("MHz", {g.freq_avg_core, g.freq_avg_mem})
    \cup In("%", {g.util_avg_all})
    \cup In("kiB", {g.memory_total, g.memory_used_max, g.memory_free_max})
CsvMic == TextMic
JsonMic == TextMic

TextSystem ==
  LET g == SystemGetters IN
    In("s", {g.system_time_total})
    \cup In("Ws", {g.system_energy_board, g.system_energy_total})
    \cup In("W", {g.system_power_board_avg, g.system_power_avg})
    \cup In("C", {g.system_temp_max})
CsvSystem == TextSystem
JsonSystem == TextSystem

Printed(c) ==
  CASE c = "rapl" -> TextCpu \cup CsvCpu \cup JsonCpu
    [] c = "nvml" -> TextGpu \cup CsvGpu \cup JsonGpu
    [] c = "maxeler" -> TextFpga \cup CsvFpga \cup JsonFpga
    [] c = "micknc" -> TextMic \cup CsvMic \cup JsonMic
    [] c = "ipmi" -> TextSystem \cup CsvSystem \cup JsonSystem

\* measure_update writes the runtime itself, from nanoseconds.
Runtime(c) ==
  CASE c = "rapl" -> <<<<"msr_time_runtime">>, "s">>
    [] c = "nvml" -> <<<<"nvml_time_runtime">>, "s">>
    [] c = "maxeler" -> <<<<"maxeler_time_runtime">>, "s">>
    [] c = "micknc" -> <<<<"mic_time_runtime">>, "s">>
    [] c = "ipmi" -> <<<<"ipmi_time_runtime">>, "s">>

-----------------------------------------------------------------------------
(* msmonitor: the buffer of a curve, and the rows its values are made of.  *)

Pushed ==
  LET Cpu(p) == In("mW", {<<"msr_power_cur", p, "PKG">>, <<"msr_power_cur", p, "DRAM">>})
      Clock(p) == In("MHz", {<<"msr_freq_core_eff_cur", p, c>> : c \in Core})
  IN [PowerCpu0 |-> Cpu(0), PowerCpu1 |-> Cpu(1),
      PowerGpu |-> In("mW", {<<"nvml_power_cur">>}),
      PowerFpga |-> In("mW", {<<"maxeler_power_cur", "POWER">>}),
      PowerMic |-> In("mW", {<<"mic_power_cur", "POWER">>}),
      PowerSystem |-> In("W", {<<"ipmi_power_server_cur">>}),
      TempCpu0 |-> In("C", {<<"msr_temperature_pkg_cur", 0>>}),
      TempCpu1 |-> In("C", {<<"msr_temperature_pkg_cur", 1>>}),
      TempGpu |-> In("C", {<<"nvml_temperature_cur">>}),
      TempFpgaM |-> In("C", {<<"maxeler_temperature_cur", "MTEMP">>}),
      TempFpgaI |-> In("C", {<<"maxeler_temperature_cur", "ITEMP">>}),
      TempMicDie |-> In("C", {<<"mic_temperature_cur", "DIE">>}),
      TempSystem |-> In("C", {<<"ipmi_temperature_sysboard_cur">>}),
      ClockCpu0 |-> Clock(0), ClockCpu1 |-> Clock(1),
      ClockGpuCore |-> In("MHz", {<<"nvml_clock_graphics_cur">>}),
      ClockGpuMem |-> In("MHz", {<<"nvml_clock_mem_cur">>}),
      ClockMicCore |-> In("MHz", {<<"mic_freq_core_cur">>}),
      ClockMicMem |-> In("MHz", {<<"mic_freq_mem_cur">>}),
      UtilCpu |-> In("%", {<<"measure_util_avg_cur">>}),
      UtilGpuCore |-> In("%", {<<"nvml_util_gpu_cur">>}),
      UtilGpuMem |-> In("%", {<<"nvml_util_mem_cur">>}),
      UtilFpga |-> In("%", {<<"maxeler_util_comp_cur">>}),
      UtilMic |-> In("%", {<<"mic_util_avg_cur">>}),
      MemoryCpu |-> In("kiB", {<<"measure_memory_cur", "RAM_USED">>}),
      SwapCpu |-> In("kiB", {<<"measure_memory_cur", "SWAP_USED">>}),
      MemoryGpu |-> In("kiB", {<<"nvml_memory_used_cur">>}),
      MemoryMic |-> In("kiB", {<<"mic_memory_used_cur">>})]

FormPower == {"PowerCpu0", "PowerCpu1", "PowerGpu", "PowerFpga", "PowerMic",
              "PowerSystem"}
FormTemperature == {"TempCpu0", "TempCpu1", "TempGpu", "TempFpgaM",
                    "TempFpgaI", "TempMicDie", "TempSystem"}
FormClock == {"ClockCpu0", "ClockCpu1", "ClockGpuCore", "ClockGpuMem",
              "ClockMicCore", "ClockMicMem"}
FormUtilization == {"UtilCpu", "UtilGpuCore", "UtilGpuMem", "UtilFpga",
                    "UtilMic"}
FormMemory == {"MemoryCpu", "SwapCpu", "MemoryGpu", "MemoryMic"}

\* The file of values has a column for every buffer.
CsvColumns == FormPower \cup FormTemperature \cup FormClock
              \cup FormUtilization \cup FormMemory

\* The overview shows the mean of some of them, and counts the processes.
OverviewTemperature == {"TempCpu0", "TempCpu1", "TempGpu", "TempFpgaM",
                        "TempFpgaI", "TempMicDie"}
OverviewProcesses == In("#", {<<"nvml_active_processes_count_cur">>})

Shown == CsvColumns \cup OverviewTemperature
Plotted == (UNION {Pushed[b] : b \in Shown}) \cup OverviewProcesses
=============================================================================
