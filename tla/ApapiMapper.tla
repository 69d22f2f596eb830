---------------------------- MODULE ApapiMapper ----------------------------
(***************************************************************************)
(* __create_mapper of ms_common_apapi.c: the table that says which number  *)
(* of libapapi goes to which field of the measurement structs.  An entry   *)
(* names its source, its destination, the conversion and the factor it     *)
(* divides by: the prefix of value0 or value1 times a scale.  A rule is    *)
(* what an event contributes to the map of every sample and what it adds   *)
(* to the map of the last one.  An event is a tuple: its name, and the     *)
(* number of the package and of the core where the name has them.          *)
(***************************************************************************)
EXTENDS Integers, FiniteSets

CONSTANTS CPUS, CORES

ASSUME SizeAssumption == CPUS \in Nat /\ CORES \in Nat

Package == 0 .. (CPUS - 1)
Core == 0 .. (CORES - 1)

-----------------------------------------------------------------------------
(* Entries and rules. *)

Entry(source, statistic, prefix, field, type, scale) ==
  [source |-> source, statistic |-> statistic, prefix |-> prefix,
   destination |-> field, type |-> type, scale |-> scale]

\* A statistic of value0 or value1; the last value1; the current sample.
Value0(statistic, field, type, scale) ==
  Entry("values0", statistic, 0, field, type, scale)
Value1(statistic, field, type, scale) ==
  Entry("values1", statistic, 1, field, type, scale)
LastValue1(field, type, scale) ==
  Entry("last_values1", "none", 1, field, type, scale)
Sample(field, type, scale) ==
  Entry("current_samples", "none", 0, field, type, scale)

Rule(event, last, always) == [event |-> event, last |-> last, always |-> always]

-----------------------------------------------------------------------------
(* rapl. *)

CpuEnergy(event, p, counter, always) ==
  Rule(event,
       {Value0("ACC", <<"msr_energy_acc", p, counter>>, "double", "/1000"),
        Value1("AVG", <<"msr_power_avg", p, counter>>, "double", "/1000")},
       always)

CurrentPower(p, counter) ==
  {LastValue1(<<"msr_power_cur", p, counter>>, "double", "/1000")}

PackageEnergy(p) ==
  CpuEnergy(<<"PACKAGE_ENERGY", p>>, p, "PKG", CurrentPower(p, "PKG"))

Pp0Energy(p) == CpuEnergy(<<"PP0_ENERGY", p>>, p, "PP0", {})

DramEnergy(p) ==
  CpuEnergy(<<"DRAM_ENERGY", p>>, p, "DRAM", CurrentPower(p, "DRAM"))

PackageTemperature(p) ==
  Rule(<<"THERM_STATUS", p>>,
       {Value0("MAX", <<"msr_temperature_pkg_max", p>>, "uint32", "1")},
       {Sample(<<"msr_temperature_pkg_cur", p>>, "uint32", "1")})

CoreTemperature(p, c) ==
  Rule(<<"THERM_STATUS", p, c>>,
       {Value0("MAX", <<"msr_temperature_core_max", p, c>>, "uint32", "1")},
       {})

AverageFrequency(p, c) ==
  Rule(<<"AVG_FREQUENCY", p, c>>,
       {Value0("AVG", <<"msr_freq_core_avg", p, c>>, "double", "*1000")},
       {})

EffectiveFrequency(p, c) ==
  Rule(<<"EFF_FREQUENCY", p, c>>,
       {Value0("AVG", <<"msr_freq_core_eff_avg", p, c>>, "double", "*1000")},
       {Sample(<<"msr_freq_core_eff_cur", p, c>>, "double", "*1000")})

CpuTimes ==
  {Rule(<<"TIME_WORK">>,
        {Value0("MAX", <<"measure_util_active_avg">>, "double", "1")}, {}),
   Rule(<<"TIME_IDLE">>,
        {Value0("MAX", <<"measure_util_idle_avg">>, "double", "1")}, {}),
   Rule(<<"TIME_UTIL">>,
        {Value0("AVG", <<"measure_util_avg">>, "double", "1")},
        {Sample(<<"measure_util_avg_cur">>, "double", "1")})}

\* The totals are the current sample of the last measurement.
CpuMemory ==
  {Rule(<<"MEM_TOTAL">>,
        {Sample(<<"measure_memory_cur", "RAM_TOTAL">>, "uint64", "1")}, {}),
   Rule(<<"MEM_USED">>,
        {Value0("MAX", <<"measure_memory_used_max">>, "uint32", "1")},
        {Sample(<<"measure_memory_cur", "RAM_USED">>, "uint64", "1")}),
   Rule(<<"MEM_FREE">>,
        {Value0("MAX", <<"measure_memory_free_max">>, "uint32", "1")}, {})}

CpuSwap ==
  {Rule(<<"SWAP_TOTAL">>,
        {Sample(<<"measure_memory_cur", "SWAP_TOTAL">>, "uint64", "1")}, {}),
   Rule(<<"SWAP_USED">>,
        {Value0("MAX", <<"measure_swap_used_max">>, "uint32", "1")},
        {Sample(<<"measure_memory_cur", "SWAP_USED">>, "uint64", "1")}),
   Rule(<<"SWAP_FREE">>,
        {Value0("MAX", <<"measure_swap_free_max">>, "uint32", "1")}, {})}

PackageRules(p) ==
  {PackageEnergy(p), Pp0Energy(p), DramEnergy(p), PackageTemperature(p)}

CoreRules(p, c) ==
  {CoreTemperature(p, c), AverageFrequency(p, c), EffectiveFrequency(p, c)}

RaplRules ==
  (UNION {PackageRules(p) : p \in Package})
  \cup (UNION {CoreRules(p, c) : p \in Package, c \in Core})
  \cup CpuTimes \cup CpuMemory \cup CpuSwap

-----------------------------------------------------------------------------
(* nvml, whose events carry the name of the one card they are known for. *)

GpuPower ==
  {Rule(<<"power">>,
        {Value1("ACC", <<"nvml_energy_acc">>, "double", "/1000")}, {}),
   Rule(<<"power">>,
        {Value0("AVG", <<"nvml_power_avg">>, "double", "/1000")},
        {Sample(<<"nvml_power_cur">>, "uint32", "/1000")})}

GpuTemperature ==
  Rule(<<"temperature">>,
       {Value0("MAX", <<"nvml_temperature_max">>, "uint32", "1")},
       {Sample(<<"nvml_temperature_cur">>, "uint32", "1")})

GpuClocks ==
  {Rule(<<"graphics_clock">>,
        {Value0("AVG", <<"nvml_clock_graphics_avg">>, "double", "1")},
        {Sample(<<"nvml_clock_graphics_cur">>, "uint32", "1")}),
   Rule(<<"sm_clock">>,
        {Value0("AVG", <<"nvml_clock_sm_avg">>, "double", "1")},
        {Sample(<<"nvml_clock_sm_cur">>, "uint32", "1")}),
   Rule(<<"memory_clock">>,
        {Value0("AVG", <<"nvml_clock_mem_avg">>, "double", "1")},
        {Sample(<<"nvml_clock_mem_cur">>, "uint32", "1")})}

GpuUtilization ==
  {Rule(<<"gpu_utilization">>,
        {Value0("AVG", <<"nvml_util_gpu_avg">>, "double", "1")},
        {Sample(<<"nvml_util_gpu_cur">>, "uint32", "1")}),
   Rule(<<"memory_utilization">>,
        {Value0("AVG", <<"nvml_util_mem_avg">>, "double", "1")},
        {Sample(<<"nvml_util_mem_cur">>, "uint32", "1")})}

\* Faulty: the current value is not converted.
GpuMemoryInBytes ==
  {Rule(<<"allocated_memory">>,
        {Value0("MAX", <<"nvml_memory_used_max">>, "uint32", "*1024")},
        {Sample(<<"nvml_memory_used_cur">>, "uint32", "1")})}

GpuMemory ==
  {Rule(<<"total_memory">>,
        {Value0("MAX", <<"nvml_memory_total">>, "uint32", "*1024")}, {}),
   Rule(<<"allocated_memory">>,
        {Value0("MAX", <<"nvml_memory_used_max">>, "uint32", "*1024")},
        {Sample(<<"nvml_memory_used_cur">>, "uint32", "*1024")}),
   Rule(<<"unallocated_memory">>,
        {Value0("MAX", <<"nvml_memory_free_max">>, "uint32", "*1024")}, {})}

GpuProcesses ==
  Rule(<<"processes">>,
       {Value0("MAX", <<"nvml_active_processes_count_max">>, "uint32", "1")},
       {Sample(<<"nvml_active_processes_count_cur">>, "uint32", "1")})

NvmlRules == GpuPower \cup GpuClocks \cup GpuUtilization \cup GpuMemory
             \cup {GpuTemperature, GpuProcesses}

-----------------------------------------------------------------------------
(* maxeler and micknc: the rails of a board are measured alike. *)

Rail(event, average, energy, i, always) ==
  Rule(event,
       {Value0("AVG", <<average, i>>, "double", "/1000"),
        Value1("ACC", <<energy, i>>, "double", "/1000")},
       always)

FpgaRail(event, i, always) ==
  Rail(event, "maxeler_power_avg", "maxeler_energy_acc", i, always)

FpgaRails ==
  {FpgaRail(<<"vcc1v0_c_POWER">>, "VCC10", {}),
   FpgaRail(<<"vcc1v5_ddr_POWER">>, "VCC15", {}),
   FpgaRail(<<"vcc2v5_aux_POWER">>, "VCC25", {}),
   FpgaRail(<<"imgt_1v0_POWER">>, "IMGT10", {}),
   FpgaRail(<<"imgt_1v2_POWER">>, "IMGT12", {}),
   FpgaRail(<<"mgt_1v0_POWER">>, "MGT10", {}),
   FpgaRail(<<"mgt_1v2_POWER">>, "MGT12", {})}

FpgaPower ==
  FpgaRail(<<"fpga_POWER">>, "POWER",
           {Sample(<<"maxeler_power_cur", "POWER">>, "double", "/1000")})

FpgaTemperature(event, i) ==
  Rule(event,
       {Value0("MAX", <<"maxeler_temperature_max", i>>, "double", "1")},
       {Sample(<<"maxeler_temperature_cur", i>>, "double", "1")})

\* Faulty: a copied block keeps its field.
FpgaTemperaturesCopied ==
  {FpgaTemperature(<<"imgt_TEMPERATURE">>, "ITEMP"),
   FpgaTemperature(<<"mmgt_TEMPERATURE">>, "ITEMP")}

FpgaTemperatures == {FpgaTemperature(<<"imgt_TEMPERATURE">>, "ITEMP"),
                     FpgaTemperature(<<"mmgt_TEMPERATURE">>, "MTEMP")}

FpgaUtilization ==
  Rule(<<"COMPUTE_UTIL">>,
       {Value0("AVG", <<"maxeler_util_comp_avg">>, "double", "1")},
       {Sample(<<"maxeler_util_comp_cur">>, "double", "1")})

MaxelerRules ==
  FpgaRails \cup {FpgaPower, FpgaUtilization} \cup FpgaTemperatures

MicRail(event, i, always) ==
  Rail(event, "mic_power_avg", "mic_energy_acc", i, always)

MicRails ==
  {MicRail(<<"POWER_PCIE">>, "PCIE", {}), MicRail(<<"POWER_C2X3">>, "C2X3", {}),
   MicRail(<<"POWER_C2X4">>, "C2X4", {}), MicRail(<<"POWER_VCCP">>, "VCCP", {}),
   MicRail(<<"POWER_VDDG">>, "VDDG", {}), MicRail(<<"POWER_VDDQ">>, "VDDQ", {})}

MicPower ==
  MicRail(<<"POWER_MIC">>, "POWER",
          {Sample(<<"mic_power_cur", "POWER">>, "uint32", "/1000")})

MicTemperature(event, i, always) ==
  Rule(event,
       {Value0("MAX", <<"mic_temperature_max", i>>, "uint32", "1")}, always)

MicDieTemperature ==
  MicTemperature(<<"TEMP_DIE">>, "DIE",
                 {Sample(<<"mic_temperature_cur", "DIE">>, "uint32", "1")})

MicTemperatures ==
  {MicTemperature(<<"TEMP_GDDR">>, "GDDR", {}),
   MicTemperature(<<"TEMP_FANIN">>, "FAN_IN", {}),
   MicTemperature(<<"TEMP_FANOUT">>, "FAN_OUT", {}),
   MicTemperature(<<"TEMP_VCCP">>, "VCCP", {}),
   MicTemperature(<<"TEMP_VDDG">>, "VDDG", {}),
   MicTemperature(<<"TEMP_VDDQ">>, "VDDQ", {})}

MicFrequencies ==
  {Rule(<<"FREQ_CORE">>,
        {Value0("AVG", <<"mic_freq_core_avg">>, "double", "1")},
        {Sample(<<"mic_freq_core_cur">>, "uint32", "1")}),
   Rule(<<"FREQ_MEM">>,
        {Value0("AVG", <<"mic_freq_mem_avg">>, "double", "1")},
        {Sample(<<"mic_freq_mem_cur">>, "uint32", "1")})}

MicTimes ==
  {Rule(<<"TIME_ACTIVE">>,
        {Value0("ACC", <<"mic_util_active_avg">>, "double", "1")}, {}),
   Rule(<<"TIME_IDLE">>,
        {Value0("ACC", <<"mic_util_idle_avg">>, "double", "1")}, {}),
   Rule(<<"UTIL">>,
        {Value0("AVG", <<"mic_util_avg">>, "double", "1")},
        {Sample(<<"mic_util_avg_cur">>, "double", "1")})}

MicMemory ==
  {Rule(<<"MEM_TOTAL">>,
        {Value0("MAX", <<"mic_memory_total">>, "uint32", "1")}, {}),
   Rule(<<"MEM_USED">>,
        {Value0("MAX", <<"mic_memory_used_max">>, "uint32", "1")},
        {Sample(<<"mic_memory_used_cur">>, "uint32", "1")}),
   Rule(<<"MEM_FREE">>,
        {Value0("MAX", <<"mic_memory_free_max">>, "uint32", "1")}, {})}

MickncRules ==
  MicRails \cup {MicPower, MicDieTemperature} \cup MicTemperatures
  \cup MicFrequencies \cup MicTimes \cup MicMemory

-----------------------------------------------------------------------------
(* ipmi. *)

BoardPower ==
  Rule(<<"BOARD_POWER">>,
       {Value0("AVG", <<"ipmi_power_sysboard_avg">>, "double", "1"),
        Value1("ACC", <<"ipmi_energy_sysboard_acc">>, "double", "1")},
       {})

SystemPower ==
  Rule(<<"SYSTEM_POWER">>,
       {Value0("AVG", <<"ipmi_power_server_avg">>, "double", "1"),
        Value1("ACC", <<"ipmi_energy_server_acc">>, "uint32", "1")},
       {Sample(<<"ipmi_power_server_cur">>, "uint32", "1")})

SystemTemperature ==
  Rule(<<"SYSTEM_TEMP">>,
       {Value0("MAX", <<"ipmi_temperature_sysboard_max">>, "double", "1")},
       {Sample(<<"ipmi_temperature_sysboard_cur">>, "double", "1")})

IpmiRules == {BoardPower, SystemPower, SystemTemperature}

-----------------------------------------------------------------------------
Rules(cmp) == CASE cmp = "rapl" -> RaplRules
                [] cmp = "nvml" -> NvmlRules
                [] cmp = "maxeler" -> MaxelerRules
                [] cmp = "micknc" -> MickncRules
                [] cmp = "ipmi" -> IpmiRules

\* The map for a set with these events, of every sample or of the last one.
CreateMapper(cmp, events, last_measurement) ==
  UNION {r.always \cup (IF last_measurement THEN r.last ELSE {}) :
           r \in {q \in Rules(cmp) : q.event \in events}}

\* calloc(100), with a zeroed entry behind the last one.
MapSize == 100

-----------------------------------------------------------------------------
(* The fields of the measurement structs that are whole numbers. *)

CpuUint32Fields ==
  {"msr_temperature_pkg_cur", "msr_temperature_pkg_max",
   "msr_temperature_core_max", "measure_memory_free_max",
   "measure_memory_used_max", "measure_swap_free_max", "measure_swap_used_max"}

CpuUint64Fields == {"measure_memory_cur"}

GpuUint32Fields ==
  {"nvml_power_cur", "nvml_temperature_cur", "nvml_temperature_max",
   "nvml_clock_graphics_cur", "nvml_clock_sm_cur", "nvml_clock_mem_cur",
   "nvml_util_gpu_cur", "nvml_util_mem_cur", "nvml_memory_used_cur",
   "nvml_memory_free_max", "nvml_memory_used_max", "nvml_memory_total",
   "nvml_active_processes_count_cur", "nvml_active_processes_count_max"}

MicUint32Fields ==
  {"mic_freq_core_cur", "mic_freq_mem_cur", "mic_power_cur",
   "mic_temperature_cur", "mic_temperature_max", "mic_memory_used_cur",
   "mic_memory_free_max", "mic_memory_used_max", "mic_memory_total"}

SystemUint32Fields == {"ipmi_power_server_cur", "ipmi_energy_server_acc"}

FpgaUint32Fields == {}

Uint32Fields == CpuUint32Fields \cup GpuUint32Fields \cup FpgaUint32Fields
                \cup MicUint32Fields \cup SystemUint32Fields

FieldType(field) == CASE field[1] \in Uint32Fields -> "uint32"
                      [] field[1] \in CpuUint64Fields -> "uint64"
                      [] OTHER -> "double"
=============================================================================
