----------------------------- MODULE EventFiles -----------------------------
(***************************************************************************)
(* The files that tell libapapi which events to measure and what to do     *)
(* with them (apapi_defaults.c).  A file is a record: can it be read, and  *)
(* its lines, each already split where the code splits it.  The name of an *)
(* event is a record: its component, and the rest as in ApapiMapper.  No   *)
(* component's name is the beginning of another's.                         *)
(***************************************************************************)
EXTENDS Integers, Sequences

\* The elements of a sequence at the indices of a set, in their order.
Chosen(s, I) ==
  LET chosen[i \in 0 .. Len(s)] ==
        IF i = 0 THEN <<>>
        ELSE IF i \in I THEN Append(chosen[i - 1], s[i]) ELSE chosen[i - 1]
  IN chosen[Len(s)]

-----------------------------------------------------------------------------
(* The lines of both kinds of files. *)

Blank == [kind |-> "blank"]
Comment == [kind |-> "comment"]
EventLine(name) == [kind |-> "event", name |-> name]

\* tokens: how many there are; empty: is one of them empty; numbers: do the
\* columns that hold a number begin with one that fits.
OpsLine(name, op1, value0, value1, units) ==
  [kind |-> "ops", name |-> name, op1 |-> op1, value0 |-> value0,
   value1 |-> value1, units |-> units,
   tokens |-> 11, empty |-> FALSE, numbers |-> TRUE]

\* _apapi_read_file: missing, too big, or of no size at all.
ReadFile(file) == file.readable

-----------------------------------------------------------------------------
(* Event operations: all lines of a file, or none. *)

Op1Names == {"NOP", "SAMPLE_DIFF", "DIV_DIFF_TIME", "SAMPLE1_MUL_DIFF_TIME",
             "AVG_SAMPLE_MUL_DIFF_TIME"}

ParsesOp1(word) == word \in Op1Names

Statistics == {"MIN", "MAX", "AVG", "ACC"}

ParsesStats(words) ==
  \A i \in DOMAIN words : words[i] \in Statistics \cup {"NO", "ALL"}

ParseStats(words) ==
  UNION {CASE words[i] = "NO" -> {}
           [] words[i] = "ALL" -> Statistics
           [] OTHER -> {words[i]} : i \in DOMAIN words}

WellFormed(line) == /\ line.tokens = 11
                    /\ ~line.empty
                    /\ ParsesOp1(line.op1)
                    /\ ParsesStats(line.value0)
                    /\ ParsesStats(line.value1)
                    /\ line.numbers

IsOps(line) == line.kind = "ops"

\* Faulty: a line that is not well-formed is no error.
ReadsEventOpsAnyway(lines, errno) ==
  errno = "set" => \A i \in DOMAIN lines : ~IsOps(lines[i])

\* strtoll and strtod are believed only if errno is 0 behind them: an errno
\* left by whatever ran before spoils the first number.
ReadsEventOps(lines, errno) ==
  \A i \in DOMAIN lines :
    IsOps(lines[i]) => WellFormed(lines[i]) /\ errno # "set"

EventOps(lines) ==
  LET ops == Chosen(lines, {i \in DOMAIN lines : IsOps(lines[i])})
  IN [i \in DOMAIN ops |->
        [name |-> ops[i].name, op1 |-> ops[i].op1,
         value0 |-> ParseStats(ops[i].value0),
         value1 |-> ParseStats(ops[i].value1),
         units |-> ops[i].units]]

-----------------------------------------------------------------------------
(* Event lists: one list for each component that occurs. *)

\* Fewer than five characters are an error.
ReadsEventList(file) == ReadFile(file) /\ ~file.short

\* The first line is an entry whatever it says.
ReadEventList(lines) ==
  Chosen(lines, {i \in DOMAIN lines : i = 1 \/ lines[i].kind = "event"})

OfComponent(line, c) == line.kind = "event" /\ line.name.cmp = c

\* The names of the events of a component.
EventsOf(lines, c) ==
  LET own == Chosen(lines, {i \in DOMAIN lines : OfComponent(lines[i], c)})
  IN [i \in DOMAIN own |-> own[i].name]

\* _apapi_sort_events: the components of cmp_list that occur, in its order,
\* and their events in the order of the file.  Others are dropped.
UsedComponents(cmp_list, events) ==
  Chosen(cmp_list, {k \in DOMAIN cmp_list :
                      \E i \in DOMAIN events : OfComponent(events[i], cmp_list[k])})

SortEvents(cmp_list, events) ==
  LET used == UsedComponents(cmp_list, events)
  IN [k \in DOMAIN used |-> EventsOf(events, used[k])]

\* _apapi_read_cmplist splits a variable at the colons; nothing between two
\* of them is no name.
ReadCmplist(words) == Chosen(words, {i \in DOMAIN words : words[i] # ""})

\* APAPI_cmp_cmplist_index, counted from 1; 0 for -1.
CmpIndex(c, list) ==
  IF \E i \in DOMAIN list : list[i] = c
  THEN CHOOSE i \in DOMAIN list :
         list[i] = c /\ \A j \in 1 .. (i - 1) : list[j] # c
  ELSE 0
=============================================================================
