------------------------------ MODULE MCApapi ------------------------------
(* A TLC instance of libapapi.  One part moves in a behaviour: the set-up  *)
(* of the event sets, from the shipped default files and files a user may  *)
(* write; or two sampling timers, for which the files do not matter.       *)
EXTENDS ApapiEvents, ApapiTimer

CONSTANTS rapl, nvml

MCComponent == {rapl, nvml}

N(cmp, event) == [cmp |-> cmp, event |-> event]

MCOffered == [c \in Known |->
  CASE c = "rapl" -> RaplEvents \o Named("rapl", <<<<"PP1_ENERGY", 0>>>>)
    [] c = "nvml" -> NvmlEvents
    [] c = "maxeler" -> MaxelerEvents
    [] c = "micknc" -> MickncEvents
    [] c = "ipmi" -> IpmiEvents]

Missing == [readable |-> FALSE, short |-> FALSE, lines |-> <<>>]
File(lines) == [readable |-> TRUE, short |-> FALSE, lines |-> lines]

ShippedList == File(DefaultEventList)
ShippedOps == File(DefaultEventOps)

\* Out of order and with a comment; with an event that is offered but has no
\* default operation; with one that is not offered, of no component, or twice.
UserLists ==
  {Missing, [File(<<Blank, Blank, Blank>>) EXCEPT !.short = TRUE],
   File(<<EventLine(N("nvml", <<"power">>)), Comment,
          EventLine(N("rapl", <<"DRAM_ENERGY", 1>>)), Blank,
          EventLine(N("rapl", <<"PACKAGE_ENERGY", 0>>))>>),
   File(<<Comment, EventLine(N("rapl", <<"PP1_ENERGY", 0>>)),
          EventLine(N("coretemp", <<"temp1">>))>>),
   File(<<Comment, EventLine(N("ipmi", <<"SYSTEM_TEMP">>)),
          EventLine(N("ipmi", <<"FAN">>)),
          EventLine(N("ipmi", <<"SYSTEM_TEMP">>))>>)}

Good(name) == OpsLine(name, "NOP", <<"MIN", "MIN">>, <<"NO">>, <<"?", "-">>)
Power1 == N("rapl", <<"PACKAGE_ENERGY", 0>>)
UserOpsFiles ==
  {Missing,
   File(<<Comment, Good(N("rapl", <<"PP1_ENERGY", 0>>)), Good(Power1),
          Power(Power1)>>),
   File(<<Good(Power1), [Good(Power1) EXCEPT !.tokens = 12]>>),
   File(<<Good(N("ipmi", <<"SYSTEM_TEMP">>)), Blank,
          [Good(Power1) EXCEPT !.numbers = FALSE]>>)}

Papi(disabled) ==
  LET order == <<"perf_event", "nvml", "rapl", "micknc", "maxeler", "ipmi">>
  IN [i \in DOMAIN order |->
        [name |-> order[i], disabled |-> order[i] \in disabled]]

MCEnvironment ==
  [softfail : BOOLEAN,
   defaultList : {ShippedList, Missing}, defaultOps : {ShippedOps, Missing},
   hasCmplist : {FALSE}, cmplist : {<<>>},
   papi : {Papi({}), Papi({"perf_event"}), Papi({"nvml"})},
   userList : UserLists, userOps : UserOpsFiles,
   flags : {Known, {"rapl", "micknc"}}]
  \cup
  [softfail : BOOLEAN,
   defaultList : {ShippedList}, defaultOps : {ShippedOps},
   hasCmplist : {TRUE},
   cmplist : {<<"nvml", "", "rapl">>, <<"ipmi">>, <<"", "">>, <<"cuda">>},
   papi : {Papi({}), Papi({"nvml"}), Tail(Papi({}))},
   userList : UserLists, userOps : UserOpsFiles, flags : {Known}]

VARIABLE part

AnyEnvironment == CHOOSE e \in MCEnvironment : TRUE

PartInit ==
  /\ EInit /\ Init
  /\ \/ part = "events"
     \/ part = "timers" /\ env = AnyEnvironment
PartNext ==
  /\ part' = part
  /\ \/ part = "events" /\ ENext /\ UNCHANGED vars
     \/ part = "timers" /\ Next /\ UNCHANGED evars
PartSpec == PartInit /\ [][PartNext]_<<part, vars, evars>> /\ Fairness
=============================================================================
