----------------------------- MODULE ClientWindow -----------------------------
(***************************************************************************)
(* The main window of the msmonitor_cs client and one of its views: a plot,*)
(* the heat maps of utilization or temperature, or the system overview.    *)
(* The data timer asks the server for a row of values, and each connection *)
(* showX has made between a timer and the view is a slot that runs then.   *)
(* A message box runs an event loop of its own inside a slot: timers go on *)
(* firing, and the slots behind the one with the box run when it is closed.*)
(***************************************************************************)
EXTENDS ClientPlots

CONSTANTS
  Views,       \* the views looked at
  Level,       \* values of a row: 10 * (number of the value) + level
  MaxData, Intervals, GuiRate,   \* values of the spin boxes and the slider
  DefaultData, \* rows of a plot at first
  Processes,   \* strings of processes a server may answer with
  MaxRows, MaxStarts,   \* bounds of rows and of starts
  MaxRare,     \* bound of all that is rarer: shows but
               \* the first, boxes after a slow exchange, changed settings, signals
               \* and stops of the server
  MaxTurns     \* bound of both together

ASSUME ViewsAssumption == Views \subseteq Kinds \cup DOMAIN Maps \cup {"Overview"}
ASSUME BoundsAssumption ==
  /\ MaxData \subseteq Nat /\ DefaultData \in MaxData
  /\ Intervals \subseteq Nat \ {0, 1} /\ GuiRate \subseteq Nat \ {0}
  /\ {MaxRows, MaxStarts, MaxRare, MaxTurns} \subseteq Nat
ASSUME FiniteAssumption == IsFiniteSet(MaxData)

\* The values are between the extremes that are not set, and the slider of the
\* rate ends at 2 s: an interval of at least 2 s holds a row.
ASSUME LevelAssumption ==
  \A l \in Level : l \in Int /\ Highest < 10 + l /\ 10 * (VALUESIZE - 1) + l < Lowest
ASSUME RateAssumption == \A g \in GuiRate : g <= 2000

VARIABLES
  kind, view,  \* which view, and what it holds
  set,         \* the settings its rows depend on
  shown,       \* connections of the view to its timer
  mpTimer,     \* the data timer is active; the start button is disabled then
  mpGuiTimer,
  mValues,     \* the row in memory, and whether the vector has a size
  strings,     \* mValues_pid
  connected,   \* the socket of the client leads to the server that runs
  server,      \* the server runs, and the applications that signalled it
  boxes,       \* open message boxes: the slots behind each
  crashed,     \* the access the client ended with
  rows, starts, rare,  \* counted for the bounds
  stops,       \* history: the server stopped so often
  answered, got, all,  \* history: rows answered and rows the view got since
                       \* the last start, and rows it ever got
  steady, calm         \* history: settings allow it and did not change,
                       \* no box and no second connection since the start

window == <<shown, mpTimer, mpGuiTimer, boxes>>
history == <<stops, answered, got, all, steady, calm>>
bounds == <<rows, starts, rare>>
cvars == <<kind, view, set, window, mValues, strings, connected, server, crashed,
           bounds, history>>

None == [time |-> 0, level |-> 0]
Names == ToSet(Data)
Sample(b, r) == IF b = "X" THEN r.time ELSE 10 * Number(b) + r.level
LastOf(r) == [b \in Names |-> Sample(b, r)]
Rows == [r \in [time : 1 .. MaxRows, level : Level] |-> Received(LastOf(r), <<>>, <<>>).values]
Row(r) == Rows[r]

NewView(k) ==
  IF k \in Kinds THEN NewPlot(k)
  ELSE IF k = "Overview" THEN [fields |-> <<>>, table |-> [f |-> <<>>, g |-> <<>>]]
  ELSE NewMaps(k)

CInit ==
  /\ kind \in Views /\ view = NewView(kind)
  /\ set = [maxData |-> DefaultData, mean |-> 2, median |-> 2, rate |-> 1000]
  /\ shown = 0 /\ mpTimer = FALSE /\ mpGuiTimer = FALSE /\ boxes = <<>>
  /\ mValues = [row |-> None, filled |-> FALSE] /\ strings = <<>>
  /\ connected = FALSE /\ server = [up |-> TRUE, mApplications |-> <<>>] /\ crashed = "no"
  /\ rows = 0 /\ starts = 0 /\ rare = 0 /\ stops = 0
  /\ answered = <<>> /\ got = <<>> /\ all = <<>> /\ steady = FALSE /\ calm = FALSE

Running == crashed = "no"
Rarely == rare < MaxRare /\ rows + rare < MaxTurns /\ rare' = rare + 1
\* A message box is modal: nothing else takes clicks until it is closed.
Clickable == Running /\ boxes = <<>>

-----------------------------------------------------------------------------
\* One slot of the data timer: the view takes the row in memory, whatever
\* the size of the vector is; there is none before the first answer.
UpdateSlot(s, row, sig) ==
  IF s.crashed # "no" THEN s
  ELSE IF row = None THEN [s EXCEPT !.crashed = "values"]
  ELSE IF kind \in Kinds /\ EraseFails(kind, s.view, set.maxData)
    THEN [s EXCEPT !.crashed = "erase"]
  ELSE [s EXCEPT
         !.view = IF kind \in Kinds
                    THEN [UpdateValues(kind, @, Row(row), set) EXCEPT !.apps = sig]
                    ELSE UpdateMaps(kind, @, Row(row)),
         !.got = Append(@, row), !.all = Append(@, row)]
After(n, row, sig) ==
  LET after[i \in 0 .. n] ==
        IF i = 0 THEN [view |-> view, got |-> got, all |-> all, crashed |-> crashed]
        ELSE UpdateSlot(after[i - 1], row, sig)
  IN after[n]
UpdateSlots(n, row, sig) ==
  LET s == After(n, row, sig)
  IN /\ view' = s.view /\ got' = s.got /\ all' = s.all /\ crashed' = s.crashed
\* The overview is connected to the other timer.
Slots == IF kind = "Overview" THEN 0 ELSE shown

\* The plots and the heat maps of utilization forget their rows; those of
\* temperature do not.
ClearedView ==
  CASE kind \in Kinds -> ClearAllData(kind, view)
    [] kind = "UtilMaps" -> ClearMaps(view)
    [] OTHER -> view

SafeSettings(s) ==
  {NumValues(s.mean, s.rate), NumValues(s.median, s.rate)} \subseteq 0 .. s.maxData

\* MainWindow::start: registers for all values.  Without a server it tells
\* so in a box and the buttons are as before.
Start ==
  /\ Clickable /\ ~mpTimer /\ starts < MaxStarts
  /\ starts' = starts + 1
  /\ \/ /\ server.up
        /\ connected' = TRUE /\ mpTimer' = TRUE /\ mpGuiTimer' = TRUE
        /\ mValues' = [mValues EXCEPT !.filled = FALSE] /\ strings' = <<>>
        /\ view' = ClearedView
        /\ answered' = <<>> /\ got' = <<>> /\ steady' = SafeSettings(set)
        /\ calm' = (shown = 1)
     \/ /\ ~server.up
        /\ connected' = FALSE
        /\ UNCHANGED <<mpTimer, mpGuiTimer, mValues, strings, view, answered, got, steady, calm>>
  /\ UNCHANGED <<kind, set, shown, boxes, server, crashed, rows, rare, stops, all>>

\* MainWindow::stop and CClient::terminate; the other timer goes on.
Stop ==
  /\ Clickable /\ mpTimer
  /\ mpTimer' = FALSE /\ connected' = FALSE
  /\ UNCHANGED <<kind, view, set, shown, mpGuiTimer, boxes, mValues, strings, server,
                 crashed, bounds, history>>

\* requestData, the first slot of the data timer, gets an answer; then the
\* other slots.  After a slow exchange controlTimer opens a box first.  Only
\* the overview looks at the strings of processes.
RequestData(slow) ==
  /\ Running /\ mpTimer /\ connected /\ rows < MaxRows /\ rows + rare < MaxTurns
  /\ IF slow THEN Rarely ELSE rare' = rare
  /\ rows' = rows + 1
  /\ \E l \in Level, ps \in IF kind = "Overview" THEN Processes ELSE {<<>>} :
       LET row == [time |-> rows + 1, level |-> l]
           data == Received(LastOf(row), ps, server.mApplications)
       IN /\ mValues' = [row |-> row, filled |-> data.values # <<>>]
          /\ strings' = data.strings
          /\ answered' = Append(answered, row)
          /\ IF slow
               THEN /\ boxes' = Append(boxes, Slots) /\ calm' = FALSE
                    /\ UNCHANGED <<view, got, all, crashed>>
               ELSE /\ UpdateSlots(Slots, row, ExtractAppSignals(data.strings))
                    /\ UNCHANGED <<boxes, calm>>
  /\ UNCHANGED <<kind, set, shown, mpTimer, mpGuiTimer, connected, server, starts, stops,
                 steady>>

\* No answer: the timer is stopped and a box opened; the slots behind are
\* not told.
RequestFails ==
  /\ Running /\ mpTimer /\ ~connected
  /\ mpTimer' = FALSE
  /\ boxes' = Append(boxes, Slots) /\ calm' = FALSE
  /\ UNCHANGED <<kind, view, set, shown, mpGuiTimer, mValues, strings, connected, server,
                 crashed, bounds, stops, answered, got, all, steady>>

CloseBox ==
  /\ Running /\ boxes # <<>>
  /\ boxes' = Front(boxes)
  /\ UpdateSlots(Last(boxes), mValues.row, ExtractAppSignals(strings))
  /\ UNCHANGED <<kind, set, shown, mpTimer, mpGuiTimer, mValues, strings, connected,
                 server, bounds, stops, answered, steady, calm>>

\* The other timer redraws the view; a second redraw changes nothing.
Redraw ==
  /\ Running /\ mpGuiTimer /\ shown > 0
  /\ view' = CASE kind \in Kinds -> RedrawApplications(view)
               [] kind = "Overview" ->
                    [fields |-> IF mValues.filled THEN Row(mValues.row) ELSE view.fields,
                     table |-> UpdatePID(view.table, strings)]
               [] OTHER -> view
  /\ UNCHANGED <<kind, set, window, mValues, strings, connected, server, crashed, bounds,
                 history>>

-----------------------------------------------------------------------------
\* showPower and its like connect the view once more each time.
Show ==
  /\ Clickable /\ IF shown = 0 THEN rare' = rare ELSE Rarely
  /\ shown' = shown + 1 /\ calm' = FALSE
  /\ UNCHANGED <<kind, view, set, mpTimer, mpGuiTimer, boxes, mValues, strings, connected,
                 server, crashed, rows, starts, stops, answered, got, all, steady>>

Changed(s, filters) ==
  /\ Clickable /\ kind \in Kinds /\ Rarely /\ s # set
  /\ set' = s
  /\ steady' = (steady /\ ~filters /\ SafeSettings(s))
  /\ UNCHANGED <<kind, view, window, mValues, strings, connected, server, crashed, rows,
                 starts, stops, answered, got, all, calm>>
SetMaxData == \E m \in MaxData : Changed([set EXCEPT !.maxData = m], FALSE)
SpinBoxIntervalMean == \E n \in Intervals : Changed([set EXCEPT !.mean = n], TRUE)
SpinBoxIntervalMedian == \E n \in Intervals : Changed([set EXCEPT !.median = n], TRUE)
\* The rate follows an interval of at least one second.
SetGuiInterval ==
  \E g \in GuiRate : g \div 1000 # 0 /\ Changed([set EXCEPT !.rate = g], TRUE)
\* The limit and the rate of a file that names them; others it names do not
\* change what a plot holds.
SetVariable(s, limit, rate) ==
  [s EXCEPT !.maxData = limit, !.rate = IF rate \div 1000 # 0 THEN rate ELSE @]
\* Only without a measurement.
ImportConfig ==
  /\ ~mpTimer
  /\ \E m \in MaxData, g \in GuiRate : Changed(SetVariable(set, m, g), TRUE)

-----------------------------------------------------------------------------
\* The server is told of the start and the end of an application by signals;
\* it may stop, and one that is started again knows of none.
Signal ==
  /\ Running /\ kind \in Kinds /\ server.up /\ Rarely
  /\ server' = [server EXCEPT !.mApplications =
       LET n == Len(@) IN Append(@, [kind |-> IF n % 2 = 0 THEN "y" ELSE "z", pid |-> <<stops, n>>])]
  /\ UNCHANGED <<kind, view, set, window, mValues, strings, connected, crashed, rows,
                 starts, history>>
ServerStops ==
  /\ Running /\ server.up /\ Rarely
  /\ server' = [server EXCEPT !.up = FALSE] /\ connected' = FALSE
  /\ stops' = stops + 1
  /\ UNCHANGED <<kind, view, set, window, mValues, strings, crashed, rows, starts, answered,
                 got, all, steady, calm>>
ServerStarts ==
  /\ Running /\ ~server.up
  /\ server' = [up |-> TRUE, mApplications |-> <<>>]
  /\ UNCHANGED <<kind, view, set, window, mValues, strings, connected, crashed, bounds,
                 history>>

CNext ==
  \/ Start \/ Stop \/ RequestData(TRUE) \/ RequestData(FALSE) \/ RequestFails
  \/ CloseBox \/ Redraw \/ Show
  \/ SetMaxData \/ SpinBoxIntervalMean \/ SpinBoxIntervalMedian \/ SetGuiInterval
  \/ ImportConfig
  \/ Signal \/ ServerStops \/ ServerStarts

CSpec == CInit /\ [][CNext]_cvars

-----------------------------------------------------------------------------
\* What a reader takes each curve for: the label of its box and the value.
Meant == [
  Power |-> <<<<"CPU0", "PowerCpu0">>, <<"CPU1", "PowerCpu1">>, <<"GPU", "PowerGpu">>,
    <<"FPGA", "PowerFpga">>, <<"MIC", "PowerMic">>, <<"System", "PowerSystem">>>>,
  Temperature |-> <<<<"CPU0", "TempCpu0">>, <<"CPU1", "TempCpu1">>, <<"GPU", "TempGpu">>,
    <<"FPGA I", "TempFpgaI">>, <<"FPGA M", "TempFpgaM">>, <<"MIC", "TempMicDie">>,
    <<"System", "TempSystem">>>>,
  Clock |-> <<<<"CPU0", "ClockCpu0">>, <<"CPU1", "ClockCpu1">>,
    <<"GPU Core", "ClockGpuCore">>, <<"GPU Mem", "ClockGpuMem">>,
    <<"MIC Core", "ClockMicCore">>, <<"MIC Mem", "ClockMicMem">>>>,
  Util |-> <<<<"CPU", "UtilCpu">>, <<"GPU Core", "UtilGpuCore">>,
    <<"GPU Memory", "UtilGpuMem">>, <<"Compute FPGA", "UtilFpga">>, <<"MIC", "UtilMic">>>>,
  Memory |-> <<<<"CPU Ram", "MemoryCpu">>, <<"CPU Swap", "SwapCpu">>,
    <<"GPU", "MemoryGpu">>, <<"MIC", "MemoryMic">>>>]

\* The rows a plot holds are the last rows it got.
NumRows == Len(view.times)
Held(k) == got[Len(got) - NumRows + k]
Column(b) == [k \in 1 .. NumRows |-> Sample(b, Held(k))]

\* The last n values before and at row n + k.
Part(b, n, k) == [j \in 1 .. n |-> Sample(b, Held(k + j))]
SumOf(b, n, k) == Total(Part(b, n, k))
IsUpperMedian(v, part) ==
  /\ v \in ToSet(part)
  /\ Cardinality({j \in DOMAIN part : part[j] < v}) <= Len(part) \div 2
  /\ Cardinality({j \in DOMAIN part : part[j] > v}) < Len(part) - Len(part) \div 2

CurveMeant(i) ==
  LET label == Meant[kind][i][1]
      b == Meant[kind][i][2]
      c == Plot[kind].shown[i]
      init == Plot[kind].init
      mean == Curve(kind, view, "mean", c)
      median == Curve(kind, view, "median", c)
      n == NumValues(set.mean, set.rate)
      m == NumValues(set.median, set.rate)
  IN /\ init.boxes[i] = label
     /\ \E j \in DOMAIN init.curves : init.curves[j] = c /\ init.legend[j] = label
     /\ Plot[kind].shownMax[i] = c /\ Plot[kind].shownMin[i] = c
     /\ CsvHeader(kind)[i] = c
     /\ Curve(kind, view, "absolute", c) = [k \in 1 .. NumRows |-> <<Held(k).time, Column(b)[k]>>]
     /\ steady =>
          /\ Len(mean) = IF NumRows > n THEN NumRows - n ELSE 0
          /\ \A k \in DOMAIN mean : mean[k] = <<Held(k).time, <<SumOf(b, n, k), n>>>>
          /\ Len(median) = IF NumRows > m THEN NumRows - m ELSE 0
          /\ \A k \in DOMAIN median : /\ median[k][1] = Held(k).time
                                     /\ IsUpperMedian(median[k][2], Part(b, m, k))

\* A plot holds the last rows it got, as many as the setting allows and one.
\* Each curve draws the value its label and its box name, at the time of its
\* row; while the settings allow it, its mean and median are those of the
\* last rows (drawn at the time of the first of them, not of the last); the
\* columns of its file are those of its curves.  The heat maps hold a column
\* for each row, and the fields of the overview are of one row.
DrawnRows ==
  /\ kind \in Kinds =>
       /\ NumRows <= Max(MaxData) + 1
       /\ NumRows >= IF Len(got) <= Min(MaxData) THEN Len(got) ELSE Min(MaxData) + 1
       /\ \A i \in DOMAIN Meant[kind] : CurveMeant(i)
       /\ \A c, d \in DOMAIN Plot[kind].pens :
            c # d => Plot[kind].pens[c] # Plot[kind].pens[d]
       /\ ExportPlotToCSV(view) =
            [k \in 1 .. NumRows |-> <<Held(k).time>> \o
              [i \in DOMAIN Meant[kind] |-> Sample(Meant[kind][i][2], Held(k))]]
  /\ kind \in DOMAIN Maps =>
       \A m \in DOMAIN view :
         LET taken == IF kind = "UtilMaps" THEN got ELSE all
             values == [k \in DOMAIN taken |-> Sample(Maps[kind][m], taken[k])]
         IN /\ view[m].columns = Len(taken)
            /\ view[m].y = IF kind = "UtilMaps" /\ mpGuiTimer THEN values ELSE <<0>> \o values
  /\ (kind = "Overview" /\ view.fields # <<>>) =>
       \E t \in 1 .. rows, l \in Level :
         \A b \in Range(Overview) \cup Range(OverviewTemp) :
           view.fields[Number(b) + 1] = Sample(b, [time |-> t, level |-> l])

\* The maximum of a box is the largest value the plot ever got.  Its minimum
\* is not the smallest one: a value counts only when an earlier one was at
\* least as large.  The lines of the extremes are as long as the rows the
\* plot got since the start, and read no time behind the last as long as no
\* row was erased; the two curves of the FPGA share one line.
ExtremesHold ==
  kind \in Kinds =>
    \A i \in DOMAIN Meant[kind] :
      LET b == Meant[kind][i][2]
          c == Plot[kind].shown[i]
          x == view.ex[i]
          Values == {Sample(b, all[k]) : k \in DOMAIN all}
          Later == {Sample(b, all[k]) : k \in
                     {k \in DOMAIN all : \E j \in 1 .. k - 1 : Sample(b, all[j]) >= Sample(b, all[k])}}
      IN /\ x.max = IF all = <<>> THEN Highest ELSE Max(Values)
         /\ x.min = IF Later = {} THEN Lowest ELSE Min(Later)
         /\ RedrawMinMax(view)[i] =
              [max |-> Values \cap {x.max}, min |-> Later \cap {x.min}]
         /\ ~(kind = "Temperature" /\ i \in {4, 5}) =>
              /\ view.max[c] = [k \in DOMAIN got |-> x.max]
              /\ view.min[c] = [k \in DOMAIN got |-> x.min]
              /\ NumRows = Len(got) =>
                   \A k \in DOMAIN got : /\ MaxCurve(view, c)[k][1] = got[k].time
                                        /\ MinCurve(view, c)[k][1] = got[k].time

\* A view takes rows in the order the server answered, and only rows that
\* were answered since the start unless there was no answer; each just once
\* if there was no message box and it was shown once.  A plot marks each
\* signal of an application once, in their order, while the server lives.
RowsAreAnswers ==
  /\ \A k \in 1 .. Len(got) - 1 : got[k].time <= got[k + 1].time
  /\ answered # <<>> => ToSet(got) \subseteq ToSet(answered)
  /\ (calm /\ Running /\ kind # "Overview") => got = answered
  /\ (kind \in Kinds /\ stops = 0) =>
       view.markers = SubSeq(server.mApplications, 1, view.currentAppSize)

\* The client ends in the erasure of a mean or median that is not there
\* only when an interval was longer than the plot or a setting changed, and
\* in the reading of a row that is not there only when the server stopped.
RunsOn ==
  /\ crashed = "erase" => ~steady
  /\ crashed = "values" => stops > 0
=============================================================================
