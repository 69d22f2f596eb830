----------------------------- MODULE DriverFile -----------------------------
(***************************************************************************)
(* Reading and writing /dev/measure.  lseek chooses what the next read     *)
(* delivers: whence and the upper bytes of the offset say which kind of    *)
(* value and which core or IPMI command, the rest which register, record   *)
(* or sensor.  driver_read tests the kinds one after another.              *)
(*                                                                         *)
(* CMeasureMSR and the IPMI wrapper with CMeasureIPMI work off their       *)
(* requests one by one, each on a file of its own.  The performance        *)
(* counters belong to everybody: each process sets them to zero when it    *)
(* starts.  What the IPMI layer does with a request is IpmiRequest's.      *)
(***************************************************************************)
EXTENDS Integers, Sequences

CONSTANTS
  CpuFile, IpmiFile,  \* open files of CMeasureMSR and of the IPMI wrapper
  nr_cpu_ids,         \* cores the driver is built for
  NUM_OF_CORES,       \* cores libmeasure is built for
  LSEEK_MAX_2,        \* lseek accepts no whence above 2
  MEMINFO,            \* the core that then stands for the memory, 0xff
  UINT64_MAX,
  Sensor,             \* Sensor[r]: the sensor of record r
  Records,            \* the records that are read in each round
  MaxRounds,          \* bound: rounds of measure() per file
  MaxTries            \* 50 in the code

\* There are two packages, of a core each at least.
ASSUME CoresAssumption == NUM_OF_CORES \in Nat \ {0, 1} /\ nr_cpu_ids = NUM_OF_CORES
ASSUME MemInfoAssumption ==
  LSEEK_MAX_2 \in BOOLEAN /\ MEMINFO \in Nat /\ MEMINFO > nr_cpu_ids
ASSUME RecordsAssumption == Records \in Seq(DOMAIN Sensor)
ASSUME FilesAssumption == CpuFile \cap IpmiFile = {}
ASSUME WordAssumption == UINT64_MAX \in Nat

File == CpuFile \cup IpmiFile
Core == 0 .. NUM_OF_CORES - 1
PerfCounter == {"aperf", "mperf"}

VARIABLES
  f_pos,      \* where each file stands
  todo,       \* requests its user still has to make, the first one under way
  sought,     \* the lseek of the first one is done
  state,      \* of its user: "closed", "init", "run", "dead" or "refused"
  rounds,     \* rounds of measure() begun
  tries,      \* of dellResetEnergyCounter
  got,        \* last value read, with the one that was wanted
  misled,     \* history: the IPMI layer refused a request of this reading
  counter,    \* IA32_APERF and IA32_MPERF of each core
  worked,     \* history: the same, never set to zero
  temp,       \* msr_*_core_temp: value, and what the core had worked then
  distance    \* the last distance computed, with the true one

fvars == <<f_pos, todo, sought, state, rounds, tries, got, misled, counter, worked, temp, distance>>
counters == <<counter, worked, temp, distance>>

-----------------------------------------------------------------------------
(* Positions and what is delivered there.                                  *)

Position(whence, core, reg) == [whence |-> whence, core |-> core, reg |-> reg]
Start == Position("stats", 0, 0)

cpu_meminfo == IF LSEEK_MAX_2 THEN "stats" ELSE "meminfo"
Whence == {"stats", "msr", "ipmi"} \cup {cpu_meminfo}

\* One register stands for those of temperatures, energies and the time stamp.
Readable == {"unit", "energy"} \cup PerfCounter

\* Faulty variant: the core is not tested.
check_cpu_stat_any(pos) == pos.whence = "stats"

check_cpu_stat_off(pos) == pos.whence = "stats" /\ pos.core <= nr_cpu_ids
check_msr_off(pos) ==
  pos.whence = "msr" /\ pos.core < nr_cpu_ids /\ pos.reg \in Readable
check_ipmi_offset(pos) == pos.whence = "ipmi" /\ pos.core <= 4
check_mem_info_offset(pos) ==
  pos.whence = cpu_meminfo \/ (LSEEK_MAX_2 /\ pos.core = MEMINFO)

\* A value: what it is, and of which core, record or sensor.
Value(name, of) == [name |-> name, of |-> of]
Refused == Value("refused", 0)      \* -EINVAL or -EFAULT
AllCores == -1

StatsSize == 80
MemSize == 48
RegSize == 8

CpuStats(core) == Value("stats", IF core < nr_cpu_ids THEN core ELSE AllCores)

\* The request for the BMC that an IPMI command is made into.
IpmiMessage(pos) ==
  Value(CASE pos.core = 0 -> "sdr" [] pos.core = 1 -> "sensor"
          [] pos.core = 2 -> "reset" [] pos.core = 3 -> "cumulative"
          [] pos.core = 4 -> "power", pos.reg)

Delivered(pos, size) ==
  IF check_cpu_stat_off(pos) THEN IF size = StatsSize THEN CpuStats(pos.core) ELSE Refused
  ELSE IF check_msr_off(pos) THEN IF size >= RegSize THEN Value(pos.reg, pos.core) ELSE Refused
  ELSE IF check_ipmi_offset(pos) THEN IpmiMessage(pos)
  ELSE IF check_mem_info_offset(pos) /\ size = MemSize THEN Value("memory", 0)
  ELSE Refused

-----------------------------------------------------------------------------
(* The requests: what is wanted, and the lseek and the size for it.        *)

Request(op, want, pos, size) == [op |-> op, want |-> want, pos |-> pos, size |-> size]

Reg(core, reg) == Request("read", Value(reg, core), Position("msr", core, reg), RegSize)
ResetReg(core, reg) == [Reg(core, reg) EXCEPT !.op = "write"]

Utilization ==
  Request("read", Value("stats", AllCores), Position("stats", NUM_OF_CORES, 0), StatsSize)
MemInfo ==
  Request("read", Value("memory", 0),
          Position(cpu_meminfo, IF LSEEK_MAX_2 THEN MEMINFO ELSE 0, 0), MemSize)

Command(cmd, name, id) == Request("read", Value(name, id), Position("ipmi", cmd, id), 272)
GetSDR(r) == Command(0, "sdr", r)
GetSensor(r, s) == [Command(1, "sensor", s) EXCEPT !.want.of = Sensor[r]]
ResetEnergy == Command(2, "reset", 0)
CumulativeEnergy == Command(3, "cumulative", 0)
CurrentPower == Command(4, "power", 0)

\* For each core a request for either counter.
ForCores(For(_, _)) ==
  [k \in 1 .. 2 * NUM_OF_CORES |->
     For((k - 1) \div 2, IF k % 2 = 1 THEN "aperf" ELSE "mperf")]

\* init(): the unit of two packages, then the counters are set to zero.
MsrInitRequests == <<Reg(0, "unit"), Reg(1, "unit")>> \o ForCores(ResetReg)

\* measure(), the unit being read again and again left out.
MsrRoundRequests == <<Reg(0, "energy")>> \o ForCores(Reg) \o <<Utilization, MemInfo>>

RecordRequests == [k \in 1 .. Len(Records) |-> GetSDR(Records[k])]
IpmiInitRequests == <<ResetEnergy>> \o RecordRequests
IpmiRoundRequests == RecordRequests \o <<CumulativeEnergy, CurrentPower>>

-----------------------------------------------------------------------------
DInit ==
  /\ f_pos = [f \in File |-> Start]
  /\ todo = [f \in File |-> <<>>] /\ sought = [f \in File |-> FALSE]
  /\ state = [f \in File |-> "closed"]
  /\ rounds = [f \in File |-> 0] /\ tries = [f \in File |-> 0]
  /\ got = [f \in File |-> [value |-> Refused, wanted |-> Refused]]
  /\ misled = [f \in File |-> FALSE]
  /\ counter = [c \in Core |-> [r \in PerfCounter |-> 0]]
  /\ worked = counter
  /\ temp = [f \in CpuFile |-> [c \in Core |-> [r \in PerfCounter |->
               [value |-> 0, worked |-> 0, disturbed |-> TRUE]]]]
  /\ distance = [f \in CpuFile |-> [found |-> 0, worked |-> 0]]

OpenFile(f) ==
  /\ state[f] = "closed" /\ rounds[f] = 0
  /\ state' = [state EXCEPT ![f] = "init"]
  /\ f_pos' = [f_pos EXCEPT ![f] = Start]
  /\ todo' = [todo EXCEPT ![f] = IF f \in CpuFile THEN MsrInitRequests ELSE IpmiInitRequests]
  /\ UNCHANGED <<sought, rounds, tries, got, misled, counters>>

Alive(f) == state[f] \in {"init", "run"}
Ends(f, how) == state' = [state EXCEPT ![f] = how]

\* driver_lseek.
Seek(f) ==
  /\ todo[f] # <<>> /\ ~sought[f] /\ Alive(f)
  /\ LET pos == Head(todo[f]).pos
     IN f_pos' = IF pos.whence \in Whence THEN [f_pos EXCEPT ![f] = pos] ELSE f_pos
  /\ sought' = [sought EXCEPT ![f] = TRUE]
  /\ UNCHANGED <<todo, state, rounds, tries, got, misled, counters>>

\* The next round of measure(), or the end.
NextRound(f) ==
  /\ todo[f] = <<>> /\ Alive(f)
  /\ \/ /\ rounds[f] < MaxRounds
        /\ Ends(f, "run")
        /\ rounds' = [rounds EXCEPT ![f] = @ + 1]
        /\ todo' = [todo EXCEPT ![f] =
                      IF f \in CpuFile THEN MsrRoundRequests ELSE IpmiRoundRequests]
     \/ /\ Ends(f, "closed")
        /\ UNCHANGED <<rounds, todo>>
  /\ UNCHANGED <<f_pos, sought, tries, got, misled, counters>>

Ready(f, op) == sought[f] /\ Alive(f) /\ Head(todo[f]).op = op

Done(f, rest) ==
  /\ todo' = [todo EXCEPT ![f] = rest]
  /\ sought' = [sought EXCEPT ![f] = FALSE]

Take(f, value) ==
  got' = [got EXCEPT ![f] = [value |-> value, wanted |-> Head(todo[f]).want]]

\* The distance from the last value; the counters are taken to hold one
\* value less than they do, and never to stand still.
Distance(cur, last) == IF cur > last THEN cur - last ELSE UINT64_MAX - (last - cur)

\* driver_read for CMeasureMSR, and what CMeasureMSRThread makes of a
\* performance counter.  A core that is read has worked since the last time.
ReadCpu(f) ==
  /\ f \in CpuFile /\ Ready(f, "read")
  /\ LET value == Delivered(f_pos[f], Head(todo[f]).size)
         c == value.of
         r == value.name
     IN /\ Take(f, value)
        /\ IF r \in PerfCounter
             THEN LET cur == counter[c][r] + 1
                      last == temp[f][c][r]
                  IN /\ counter' = [counter EXCEPT ![c][r] = cur]
                     /\ worked' = [worked EXCEPT ![c][r] = @ + 1]
                     /\ temp' = [temp EXCEPT ![f][c][r] =
                          [value |-> cur, worked |-> worked'[c][r], disturbed |-> FALSE]]
                     /\ distance' = IF last.disturbed THEN distance
                          ELSE [distance EXCEPT ![f] =
                            [found |-> Distance(cur, last.value),
                             worked |-> worked'[c][r] - last.worked]]
             ELSE UNCHANGED counters
        /\ IF value = Refused THEN Ends(f, "refused") ELSE UNCHANGED state
  /\ Done(f, Tail(todo[f]))
  /\ UNCHANGED <<f_pos, rounds, tries, misled>>

\* driver_write.  The counters of the others are set to zero with one's own.
WriteCpu(f) ==
  /\ f \in CpuFile /\ Ready(f, "write")
  /\ LET pos == f_pos[f]
     IN IF check_msr_off(pos) /\ pos.reg \in PerfCounter
          THEN /\ counter' = [counter EXCEPT ![pos.core][pos.reg] = 0]
               /\ temp' = [g \in CpuFile |->
                    [temp[g] EXCEPT ![pos.core][pos.reg].disturbed = TRUE]]
               /\ UNCHANGED state
          ELSE /\ Ends(f, "refused")
               /\ UNCHANGED <<counter, temp>>
  /\ Done(f, Tail(todo[f]))
  /\ UNCHANGED <<f_pos, rounds, tries, got, misled, worked, distance>>

\* The register cannot be read or written: exit().
CpuFails(f) ==
  /\ f \in CpuFile /\ sought[f] /\ Alive(f)
  /\ Ends(f, "dead")
  /\ UNCHANGED <<f_pos, todo, sought, rounds, tries, got, misled, counters>>

-----------------------------------------------------------------------------
(* driver_read for the IPMI wrapper.                                       *)

\* A reading that fails ends the process, except in init().
Fails(f) ==
  IF state[f] = "init" THEN UNCHANGED state ELSE Ends(f, "dead")

\* The answer; after a record its sensor is read.
ReadAnswer(f) ==
  /\ f \in IpmiFile /\ Ready(f, "read")
  /\ LET value == Delivered(f_pos[f], Head(todo[f]).size)
     IN /\ value # Refused
        /\ Take(f, value)
        /\ Done(f, IF value.name # "sdr" THEN Tail(todo[f])
                   ELSE <<GetSensor(value.of, Sensor[value.of])>> \o Tail(todo[f]))
  /\ misled' = [misled EXCEPT ![f] = @ /\ Head(todo[f]).want.name = "sensor"]
  /\ UNCHANGED <<f_pos, state, rounds, tries, counters>>

\* The request times out, which costs this value only.
ReadTimesOut(f) ==
  /\ f \in IpmiFile /\ Ready(f, "read")
  /\ Head(todo[f]).want.name # "reset"
  /\ Done(f, Tail(todo[f]))
  /\ UNCHANGED <<f_pos, state, rounds, tries, got, misled, counters>>

\* The BMC answers with an error code and nothing else, or the driver does
\* not understand the request.
ReadFails(f) ==
  /\ f \in IpmiFile /\ Ready(f, "read")
  /\ Head(todo[f]).want.name # "reset"
  /\ Done(f, Tail(todo[f]))
  /\ Fails(f)
  /\ UNCHANGED <<f_pos, rounds, tries, got, misled, counters>>

\* dellResetEnergyCounter tries again, whatever went wrong, and gives up.
ResetFails(f) ==
  /\ f \in IpmiFile /\ Ready(f, "read")
  /\ Head(todo[f]).want.name = "reset"
  /\ tries' = [tries EXCEPT ![f] = @ + 1]
  /\ Done(f, todo[f])
  /\ IF tries'[f] < MaxTries THEN UNCHANGED state ELSE Ends(f, "dead")
  /\ UNCHANGED <<f_pos, rounds, got, misled, counters>>

\* The IPMI layer refuses the request.  The driver negates its error number,
\* which then is the length of an answer that was never written: a record,
\* a sensor or a completion code is taken from the bytes that were there.
ReadGarbage(f) ==
  /\ f \in IpmiFile /\ Ready(f, "read")
  /\ LET want == Head(todo[f]).want
     IN /\ want.name \in {"sdr", "sensor", "reset"}
        /\ Take(f, Value("garbage", 0))
        /\ \E s \in {Sensor[r] : r \in DOMAIN Sensor} :
             Done(f, IF want.name # "sdr" THEN Tail(todo[f])
                     ELSE <<GetSensor(want.of, s)>> \o Tail(todo[f]))
  /\ misled' = [misled EXCEPT ![f] = TRUE]
  /\ UNCHANGED <<f_pos, state, rounds, tries, counters>>

UseFile(f) ==
  \/ OpenFile(f) \/ Seek(f) \/ NextRound(f)
  \/ ReadCpu(f) \/ WriteCpu(f) \/ CpuFails(f)
  \/ ReadAnswer(f) \/ ReadTimesOut(f) \/ ReadFails(f) \/ ResetFails(f) \/ ReadGarbage(f)

DSpec == DInit /\ [][\E f \in File : UseFile(f)]_fvars

-----------------------------------------------------------------------------
(* The property.                                                           *)

\* Every value is the one its reader wanted, unless the IPMI layer has
\* refused a request of this reading; and who reads registers, utilization
\* and memory is never refused because of the offset or the size.
RequestedIsRead ==
  /\ \A f \in File : got[f].value = got[f].wanted \/ misled[f]
  /\ \A f \in CpuFile : state[f] # "refused"

\* A distance is what the core has worked since the last reading, unless
\* another process has set the counter to zero meanwhile.
DistancesRight == \A f \in CpuFile : distance[f].found = distance[f].worked

\* driver_lseek and driver_read: the tests of the driver, the numbers of
\* cores and the sizes fit the requests of CMeasureMSR and of the wrapper.
ReadingsRight == RequestedIsRead /\ DistancesRight
=============================================================================
