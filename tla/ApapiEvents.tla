---------------------------- MODULE ApapiEvents ----------------------------
(***************************************************************************)
(* From the environment of a process to the numbers libms_common_apapi     *)
(* fills in: ms_init reads the default files, decides which components to  *)
(* use and reads the files of the user; ms_init_measurement creates a set  *)
(* of events for each requested component and the two maps from it to the  *)
(* fields of the measurement structs.                                      *)
(***************************************************************************)
EXTENDS DefaultEvents, Reports

CONSTANTS
  Environment,     \* what a process may find: files, variables, PAPI
  Offered,         \* the names of PAPI's events for a component, in its order
  CleanErrno       \* ms_init leaves errno alone before it reads user files

ASSUME CleanAssumption == CleanErrno \in BOOLEAN

VARIABLES
  env,             \* the environment of this process
  at,              \* what ms_init and ms_init_measurement are at
  errno,
  default,         \* the default files, as read
  user,            \* the user's, and the components they are read for
  enabled,         \* components ms_init has found
  set              \* apapi_eventset of every component

evars == <<env, at, errno, default, user, enabled, set>>

\* known_components and APAPI_default_components.
KnownComponents == <<"rapl", "nvml", "maxeler", "ipmi", "micknc">>
Known == {KnownComponents[i] : i \in DOMAIN KnownComponents}

IsSequence(s) == s \in Seq({s[i] : i \in DOMAIN s})

ASSUME EnvironmentAssumption ==
  \A e \in Environment :
    /\ \A file \in {e.defaultOps, e.defaultList, e.userOps, e.userList} :
         IsSequence(file.lines)
    /\ IsSequence(e.papi)
ASSUME OfferedAssumption ==
  \A c \in Known : /\ IsSequence(Offered[c])
                   /\ \A i \in DOMAIN Offered[c] : Offered[c][i].cmp = c

\* The default files are those of libapapi: the list has every event that the
\* maps know, the operations of an event are those of its line.
ASSUME ShippedAssumption ==
  \A e \in Environment :
    /\ ReadsEventList(e.defaultList) =>
         \A c \in Known : \A q \in Rules(c) :
           \E i \in DOMAIN e.defaultList.lines :
             e.defaultList.lines[i] = EventLine([cmp |-> c, event |-> q.event])
    /\ \A i \in DOMAIN e.defaultOps.lines :
         LET line == e.defaultOps.lines[i]
         IN IsOps(line) => line = OpsOf(line.name)

\* hettime prints the packages 0 and 1 and the cores 0 to 3; each package
\* and each core takes room in the map of rapl.
ASSUME BoardAssumption ==
  CPUS >= 2 /\ CORES >= 4 /\ CPUS * (10 + 4 * CORES) + 12 < MapSize

NoFiles == [ops |-> <<>>, hasOps |-> FALSE,
            cmp |-> <<>>, lists |-> <<>>, hasLists |-> FALSE]
NoSet == [created |-> FALSE, names |-> <<>>, ops |-> <<>>]

EInit ==
  /\ env \in Environment
  /\ at = "apapi"
  /\ errno = "clear"
  /\ default = NoFiles /\ user = NoFiles
  /\ enabled = <<>>
  /\ set = [c \in Known |-> NoSet]

-----------------------------------------------------------------------------
(* APAPI_init: the default files. *)

WithOps(files, lines) ==
  [files EXCEPT !.ops = EventOps(lines), !.hasOps = TRUE]
WithLists(files, cmp_list, lines) ==
  LET events == ReadEventList(lines)
  IN [files EXCEPT !.cmp = UsedComponents(cmp_list, events),
                   !.lists = SortEvents(cmp_list, events), !.hasLists = TRUE]

ReadDefaults ==
  /\ at = "apapi"
  /\ LET ops == env.defaultOps  list == env.defaultList
         opsRead == ReadFile(ops) /\ ReadsEventOps(ops.lines, errno)
         withOps == IF opsRead THEN WithOps(default, ops.lines) ELSE default
     IN IF ~env.softfail /\ ~(opsRead /\ ReadsEventList(list))
        THEN at' = "failed" /\ UNCHANGED default
        ELSE /\ at' = "components"
             /\ default' = IF ReadsEventList(list)
                           THEN WithLists(withOps, KnownComponents, list.lines)
                           ELSE withOps
  /\ UNCHANGED <<env, errno, user, enabled, set>>

-----------------------------------------------------------------------------
(* ms_init: the components.  PAPI is a sequence of components, some of     *)
(* them disabled.                                                          *)

ComponentList == IF env.hasCmplist THEN ReadCmplist(env.cmplist)
                 ELSE KnownComponents
InPapi(c) == \E i \in DOMAIN env.papi : env.papi[i].name = c
Requested(c) == CmpIndex(c, ComponentList) # 0
Disabled == {i \in DOMAIN env.papi : env.papi[i].disabled}

MayUse == /\ \A i \in DOMAIN ComponentList :
               /\ CmpIndex(ComponentList[i], KnownComponents) # 0
               /\ InPapi(ComponentList[i])
          /\ \A i \in Disabled : ~Requested(env.papi[i].name)

\* What is disabled is reported, and the report may set errno.
FindComponents ==
  /\ at = "components"
  /\ LET used == Chosen(env.papi, {i \in DOMAIN env.papi \ Disabled :
                                     Requested(env.papi[i].name)})
     IN IF MayUse /\ used # <<>>
        THEN /\ enabled' = [i \in DOMAIN used |-> used[i].name]
             /\ at' = "eventops"
        ELSE at' = "exit" /\ UNCHANGED enabled
  /\ errno' \in {errno} \cup IF CleanErrno \/ Disabled = {} THEN {} ELSE {"set"}
  /\ UNCHANGED <<env, default, user, set>>

-----------------------------------------------------------------------------
(* ms_init: the files of the user.  What cannot be read does not count.    *)

ReadUserOps ==
  /\ at = "eventops"
  /\ at' = "eventlist"
  /\ LET file == env.userOps
         read == ReadFile(file) /\ ReadsEventOps(file.lines, errno)
     IN user' = IF read THEN WithOps(user, file.lines) ELSE user
  /\ UNCHANGED <<env, errno, default, enabled, set>>

ReadUserList ==
  /\ at = "eventlist"
  /\ at' = "measurement"
  /\ user' = IF ReadsEventList(env.userList)
             THEN WithLists(user, enabled, env.userList.lines)
             ELSE user
  /\ UNCHANGED <<env, errno, default, enabled, set>>

-----------------------------------------------------------------------------
(* ms_init_measurement: a set for each requested component. *)

\* APAPI_init_apapi_eventset_cmp looks the component up in the list of the
\* default components, and takes the default list of that number: behind
\* the last one is a NULL, behind that anything.
DefaultList(c) ==
  LET k == CmpIndex(c, KnownComponents)  n == Len(default.lists)
  IN CASE ~default.hasLists \/ k = n + 1 -> [kind |-> "none", names |-> <<>>]
       [] default.hasLists /\ k <= n ->
            [kind |-> "list", names |-> default.lists[k]]
       [] OTHER -> [kind |-> "undefined", names |-> <<>>]

UserList(c) ==
  LET k == CmpIndex(c, user.cmp)
  IN IF user.hasLists /\ k # 0 THEN [kind |-> "list", names |-> user.lists[k]]
     ELSE DefaultList(c)

\* PAPI takes an event that it offers, and not twice.
Takes(c, names, i) ==
  /\ \E j \in DOMAIN Offered[c] : Offered[c][j] = names[i]
  /\ \A j \in 1 .. (i - 1) : names[j] # names[i]

Taken(c, names) ==
  Chosen(names, {i \in DOMAIN names : Takes(c, names, i)})

CreatesEventSet(c, names) ==
  env.softfail \/ \A i \in DOMAIN names : Takes(c, names, i)

\* The first definition of the user, or the first default one.
FirstOp(ops, name) ==
  LET i == CHOOSE k \in DOMAIN ops :
             ops[k].name = name /\ \A j \in 1 .. (k - 1) : ops[j].name # name
  IN ops[i]

Defines(files, name) ==
  files.hasOps /\ \E i \in DOMAIN files.ops : files.ops[i].name = name

DefaultOp == [name |-> [cmp |-> "default", event |-> <<>>], op1 |-> "NOP",
              value0 |-> Statistics, value1 |-> {}, units |-> <<"?", "?">>]

OpOf(name) == IF Defines(user, name) THEN FirstOp(user.ops, name)
              ELSE IF Defines(default, name) THEN FirstOp(default.ops, name)
              ELSE DefaultOp

FindsOps(names) == env.softfail \/ \A i \in DOMAIN names : OpOf(names[i]) # DefaultOp

\* ms_init_measurement goes through the kinds, the order of KnownComponents.
Wanted(c) == (\E i \in DOMAIN enabled : enabled[i] = c) /\ c \in env.flags
IsNext(c) ==
  /\ Wanted(c) /\ ~set[c].created
  /\ \A d \in Known :
       CmpIndex(d, KnownComponents) < CmpIndex(c, KnownComponents) =>
         set[d].created \/ ~Wanted(d)

InitEventSet(c) ==
  /\ at = "measurement" /\ IsNext(c)
  /\ LET list == UserList(c)
         names == IF list.kind = "list" THEN list.names ELSE Offered[c]
         taken == Taken(c, names)
     IN IF list.kind = "undefined" THEN at' = "undefined" /\ UNCHANGED set
        ELSE IF ~CreatesEventSet(c, names) \/ ~FindsOps(taken)
        THEN at' = "exit" /\ UNCHANGED set
        ELSE /\ set' = [set EXCEPT ![c] =
                          [created |-> TRUE, names |-> taken,
                           ops |-> [i \in DOMAIN taken |-> OpOf(taken[i])]]]
             /\ UNCHANGED at
  /\ UNCHANGED <<env, errno, default, user, enabled>>

Ready ==
  /\ at = "measurement" /\ \A c \in Known : Wanted(c) => set[c].created
  /\ at' = "ready"
  /\ UNCHANGED <<env, errno, default, user, enabled, set>>

\* APAPI_apapi_eventset_find_event asks for the names of the operations, so
\* that an event without an operation of its own is not found.
Found(c) == {set[c].ops[i].name.event : i \in DOMAIN set[c].ops}

\* The maps of the set, made next to it.
Map(c, last_measurement) == CreateMapper(c, Found(c), last_measurement)

-----------------------------------------------------------------------------
ENext == \/ ReadDefaults \/ FindComponents \/ ReadUserOps \/ ReadUserList
         \/ \E c \in Known : InitEventSet(c)
         \/ Ready

ESpec == EInit /\ [][ENext]_evars

-----------------------------------------------------------------------------
(* Properties. *)

\* The names a file has for a component, and the list the manual promises.
Own(file, c) ==
  IF ReadsEventList(file) THEN EventsOf(file.lines, c) ELSE <<>>
PromisedList(c) ==
  IF Own(env.userList, c) # <<>> THEN Own(env.userList, c)
  ELSE IF Own(env.defaultList, c) # <<>> THEN Own(env.defaultList, c)
  ELSE Offered[c]

\* A set holds what the user's list names for its component, in that order,
\* else what the default list names for it, else all PAPI offers; less, with
\* APAPI_SOFTFAIL, what PAPI does not take (ms_common_apapi.c:2036,
\* apapi.c:897).
EventsFollowLists ==
  \A c \in Known : set[c].created => set[c].names = Taken(c, PromisedList(c))

\* A file of operations counts as a whole or not at all: an event has the
\* user's first definition if every line of the user's file is well-formed,
\* the default one otherwise or if there is none (apapi_defaults.c:332).
Whole(file) == ReadFile(file) /\ \A i \in DOMAIN file.lines :
                                   IsOps(file.lines[i]) => WellFormed(file.lines[i])
HasLine(file, name) == \E i \in DOMAIN file.lines :
                         IsOps(file.lines[i]) /\ file.lines[i].name = name
OpsFollowFiles ==
  \A c \in Known : \A i \in DOMAIN set[c].names :
    LET name == set[c].names[i]
        file == IF Whole(env.userOps) /\ HasLine(env.userOps, name)
                THEN env.userOps ELSE env.defaultOps
    IN IF Whole(file) /\ HasLine(file, name)
       THEN set[c].ops[i] = FirstOp(EventOps(file.lines), name)
       ELSE set[c].ops[i] = DefaultOp

\* What is measured, and with which operations, is what the files say
\* (apapi_defaults.c:332, ms_common_apapi.c:2036).
SetsFollowFiles == EventsFollowLists /\ OpsFollowFiles

\* The table of the last sample has a zeroed entry at its end, where __map
\* stops (ms_common_apapi.c:88).
MapFits == \A c \in Known : Cardinality(Map(c, TRUE)) < MapSize

\* An entry writes a field of the type it writes, and no other entry of the
\* table does (ms_common_apapi.c:39).
FieldsFit ==
  at = "ready" =>
    \A c \in Known : \A last \in BOOLEAN :
      \A e \in Map(c, last) :
        /\ e.type = FieldType(e.destination)
        /\ \A f \in Map(c, last) : f.destination = e.destination => f = e

\* The event that an entry of the table comes from.
Entries(c, i) ==
  UNION {r.last \cup r.always :
           r \in {q \in Rules(c) : q.event = set[c].ops[i].name.event}}
ByDefault(c, i) ==
  Defines(default, set[c].names[i])
  /\ set[c].ops[i] = FirstOp(default.ops, set[c].names[i])

\* With the default operations an entry reads only what they compute: a
\* statistic that is asked for, a value1 that has an operation
\* (apapi.c:432, default_eventops.csv).
StatisticsComputed ==
  at = "ready" =>
    \A c \in Known : \A i \in DOMAIN set[c].ops : ByDefault(c, i) =>
      \A e \in Entries(c, i) :
        LET op == set[c].ops[i]
        IN CASE e.source = "values0" -> e.statistic \in op.value0
             [] e.source = "values1" ->
                  e.statistic \in op.value1 /\ op.op1 # "NOP"
             [] e.source = "last_values1" -> op.op1 # "NOP"
             [] OTHER -> TRUE

\* With the default operations the factor of an entry turns the unit of what
\* it reads into the unit hettime prints and msmonitor plots it with, and has
\* the prefix of that value (ms_common_apapi.c:113, ostream_printer.c:91).
Converted(unit, scale) ==
  CASE scale = "1" -> unit
    [] scale = "/1000" /\ unit = "W" -> "mW"
    [] scale = "/1000" /\ unit = "Ws" -> "mWs"
    [] scale = "*1000" /\ unit = "KHz" -> "MHz"
    [] scale = "*1024" /\ unit = "B" -> "kiB"
    [] OTHER -> "?"
UnitsFit ==
  at = "ready" =>
    \A c \in Known : \A i \in DOMAIN set[c].ops : ByDefault(c, i) =>
      \A e \in Entries(c, i) :
        LET value == IF e.source \in {"values0", "current_samples"} THEN 0 ELSE 1
            shown == {s \in Printed(c) \cup Plotted : s[1] = e.destination}
        IN /\ e.prefix = value
           /\ \A s \in shown :
                s[2] = Converted(set[c].ops[i].units[value + 1], e.scale)

\* The table of a component fits: into its memory, and each entry to its field,
\* to what its event computes and to the way its value is shown
\* (ms_common_apapi.c:83).
MappingSound == MapFits /\ FieldsFit /\ StatisticsComputed /\ UnitsFit

\* With the default lists and operations every field that hettime prints in
\* one of its forms is written at the end, and with those of all components
\* every field that msmonitor shows is written at every sample
\* (ostream_printer.c:80, CDataLibrary.cpp:193).
AsShipped(c) ==
  /\ set[c].created
  /\ ReadsEventList(env.defaultList) /\ set[c].names = Own(env.defaultList, c)
  /\ \A i \in DOMAIN set[c].ops : ByDefault(c, i)
EverythingReported ==
  at = "ready" =>
    /\ \A c \in Known : AsShipped(c) =>
         \A s \in Printed(c) :
           s = Runtime(c) \/ \E e \in Map(c, TRUE) : e.destination = s[1]
    /\ (\A c \in Known : AsShipped(c)) =>
         \A s \in Plotted :
           \E c \in Known : \E e \in Map(c, FALSE) : e.destination = s[1]
=============================================================================
