------------------------------ MODULE Devices ------------------------------
(***************************************************************************)
(* The settings of the devices that ms_init changes and ms_fini may put    *)
(* back.  They belong to the machine and outlive the process.  init() and  *)
(* destroy() of a plugin are given as the sets of their outcomes: d is the *)
(* machine after the call, and ok tells whether the process goes on.  A    *)
(* plugin that meets an error calls exit() and puts nothing back.          *)
(***************************************************************************)
EXTENDS Integers, Sequences

CONSTANTS
  Frequencies,   \* those a cpu offers
  Governors      \* those the kernel offers

\* cpufreq names a lowest and a highest frequency of the hardware.
ASSUME FrequenciesAssumption ==
  /\ Frequencies \subseteq Nat \ {0}
  /\ \E f \in Frequencies : \A g \in Frequencies : f <= g
  /\ \E f \in Frequencies : \A g \in Frequencies : g <= f
ASSUME GovernorsAssumption == Governors # {}

Lowest == CHOOSE f \in Frequencies : \A g \in Frequencies : f <= g
Highest == CHOOSE f \in Frequencies : \A g \in Frequencies : g <= f

Untouched ==
  [min |-> Lowest, max |-> Highest, governor |-> CHOOSE g \in Governors : TRUE,
   persistence |-> FALSE, clocks |-> "default"]

GoesOn(d) == [ok |-> TRUE, d |-> d]
Exits(d) == [ok |-> FALSE, d |-> d]

-----------------------------------------------------------------------------
(* The cpu: cpufreq refuses a policy whose minimum is above its maximum,   *)
(* and the return values of the calls are not looked at.                   *)

ModifyMin(d, f) == IF f <= d.max THEN [d EXCEPT !.min = f] ELSE d
ModifyMax(d, f) == IF f >= d.min THEN [d EXCEPT !.max = f] ELSE d

\* What the caller asks for, zero being the limit of the hardware.
AskedMin(s) == IF s.cpuMin = 0 THEN Lowest ELSE s.cpuMin
AskedMax(s) == IF s.cpuMax = 0 THEN Highest ELSE s.cpuMax

Offered(s) ==
  /\ {AskedMin(s), AskedMax(s)} \subseteq Frequencies
  /\ AskedMin(s) <= AskedMax(s)
  /\ s.governor \in Governors

\* Faulty variant: the maximum is narrowed before the minimum.
MsrInitMaxFirst(d, s) ==
  LET narrowed == ModifyMin(ModifyMax(d, AskedMax(s)), AskedMin(s))
  IN {Exits(d)}
       \cup IF Offered(s) THEN {GoesOn([narrowed EXCEPT !.governor = s.governor])}
            ELSE {}

MsrInit(d, s) ==
  LET narrowed == ModifyMax(ModifyMin(d, AskedMin(s)), AskedMax(s))
  IN {Exits(d)}
       \cup IF Offered(s) THEN {GoesOn([narrowed EXCEPT !.governor = s.governor])}
            ELSE {}

\* The policy stays as it is.
MsrDestroy(d) == {GoesOn(d)}

-----------------------------------------------------------------------------
(* The GPU, whose modes the tool gpu_management sets.                      *)

\* One call of the tool that takes the modes through the given stages: it
\* may fail before each of them and after the last.
GpuManagement(d, stages) ==
  {Exits(d), GoesOn(stages[Len(stages)])} \cup {Exits(stages[n]) : n \in DOMAIN stages}

NvmlInit(d, s) ==
  LET persistent == [d EXCEPT !.persistence = TRUE]
      Clocked(e) == IF s.clocks = "cur" THEN {GoesOn(e)}
                    ELSE GpuManagement(e, <<[e EXCEPT !.clocks = s.clocks]>>)
  IN {Exits(d)} \cup
       UNION {IF o.ok THEN Clocked(o.d) ELSE {o} : o \in GpuManagement(d, <<persistent>>)}

NvmlDestroy(d) ==
  LET off == [d EXCEPT !.persistence = FALSE]
      reset == [off EXCEPT !.clocks = "default"]
  IN GpuManagement(d, <<off, reset>>)

-----------------------------------------------------------------------------
(* The others hold a connection, which ends with the process.              *)

Connect(d) == {Exits(d), GoesOn(d)}

MaxelerInit(d) == Connect(d)
MaxelerDestroy(d) == {GoesOn(d)}

MicInit(d) == Connect(d)
MicDestroy(d) == {Exits(d), GoesOn(d)}

\* The counter of the server's energy is reset, and read a few times.
IpmiInit(d) == Connect(d)
IpmiDestroy(d) == {GoesOn(d)}

\* CMgmt::CMgmt and ms_fini, for the one kind that is no stub.
InitResource(kind, d, s) ==
  CASE kind = "cpu"  -> MsrInit(d, s)
    [] kind = "gpu"  -> NvmlInit(d, s)
    [] kind = "fpga" -> MaxelerInit(d)
    [] kind = "mic"  -> MicInit(d)
    [] kind = "sys"  -> IpmiInit(d)

FiniResource(kind, d) ==
  CASE kind = "cpu"  -> MsrDestroy(d)
    [] kind = "gpu"  -> NvmlDestroy(d)
    [] kind = "fpga" -> MaxelerDestroy(d)
    [] kind = "mic"  -> MicDestroy(d)
    [] kind = "sys"  -> IpmiDestroy(d)
=============================================================================
