------------------------------ MODULE ClientPlots ------------------------------
(***************************************************************************)
(* The five plots of the msmonitor_cs client.  The subclasses of QMSMplot  *)
(* differ in the curves they make, and each of their functions names those *)
(* curves again: a plot is the record of what its functions name.  Update  *)
(* and Curve are the common body of updateValues and redraw.  An element   *)
(* that is read or erased outside its vector is Garbage or ends the client.*)
(***************************************************************************)
EXTENDS ClientData

CONSTANTS Garbage,    \* what is read behind the end of a vector
          Lowest, Highest   \* a minimum and a maximum not set: 1000000, -1000000

ASSUME ExtremesAssumption == Lowest \in Int /\ Highest \in Int

-----------------------------------------------------------------------------
\* QMSMPowerPlot: the curves initPlot makes and their boxes, the curves and
\* extremes redraw gives samples, the curve it shows or hides for each box,
\* the vectors updateValues shortens, the values it pushes, and for each box
\* the curve whose extremes it follows and the one whose lines it extends.
PowerInit == [axis |-> "Power [W]",
  curves |-> <<"Cpu0", "Cpu1", "Gpu0", "Fpga0", "Mic0", "System">>,
  legend |-> <<"CPU0", "CPU1", "GPU", "FPGA", "MIC", "System">>,
  boxes  |-> <<"CPU0", "CPU1", "GPU", "FPGA", "MIC", "System">>]
PowerDrawn == {"Cpu0", "Cpu1", "Gpu0", "Fpga0", "Mic0", "System"}
PowerShown == <<"Cpu0", "Cpu1", "Gpu0", "Fpga0", "Mic0", "System">>
PowerShownMax == <<"Cpu0", "Cpu1", "Gpu0", "Fpga0", "Mic0", "System">>
PowerShownMin == <<"Cpu0", "Cpu1", "Gpu0", "Fpga0", "Mic0", "System">>
PowerErased == {"Cpu0", "Cpu1", "Gpu0", "Fpga0", "Mic0", "System"}
PowerPushed == [Cpu0 |-> "PowerCpu0", Cpu1 |-> "PowerCpu1", Gpu0 |-> "PowerGpu",
  Fpga0 |-> "PowerFpga", Mic0 |-> "PowerMic", System |-> "PowerSystem"]
PowerExtremes == [of |-> <<"Cpu0", "Cpu1", "Gpu0", "Fpga0", "Mic0", "System">>,
                  into |-> <<"Cpu0", "Cpu1", "Gpu0", "Fpga0", "Mic0", "System">>]
PowerPens == [Cpu0 |-> "darkBlue", Cpu1 |-> "blue", Gpu0 |-> "darkRed",
  Fpga0 |-> "darkGreen", Mic0 |-> "darkMagenta", System |-> "orange"]

\* QMSMTemperaturePlot: the extremes of the first FPGA curve are appended to
\* the lines of the second.
TemperatureInit == [axis |-> "Temperature [C]",
  curves |-> <<"Cpu0", "Cpu1", "Gpu0", "Fpga0", "Fpga1", "Mic0", "System">>,
  legend |-> <<"CPU0", "CPU1", "GPU", "FPGA I", "FPGA M", "MIC", "System">>,
  boxes  |-> <<"CPU0", "CPU1", "GPU", "FPGA I", "FPGA M", "MIC", "System">>]
TemperatureDrawn == {"Cpu0", "Cpu1", "Gpu0", "Fpga0", "Fpga1", "Mic0", "System"}
TemperatureShown == <<"Cpu0", "Cpu1", "Gpu0", "Fpga0", "Fpga1", "Mic0", "System">>
TemperatureShownMax == <<"Cpu0", "Cpu1", "Gpu0", "Fpga0", "Fpga1", "Mic0", "System">>
TemperatureShownMin == <<"Cpu0", "Cpu1", "Gpu0", "Fpga0", "Fpga1", "Mic0", "System">>
TemperatureErased == {"Cpu0", "Cpu1", "Gpu0", "Fpga0", "Fpga1", "Mic0", "System"}
TemperaturePushed == [Cpu0 |-> "TempCpu0", Cpu1 |-> "TempCpu1", Gpu0 |-> "TempGpu",
  Fpga0 |-> "TempFpgaI", Fpga1 |-> "TempFpgaM", Mic0 |-> "TempMicDie",
  System |-> "TempSystem"]
TemperatureExtremes ==
  [of |-> <<"Cpu0", "Cpu1", "Gpu0", "Fpga0", "Fpga1", "Mic0", "System">>,
   into |-> <<"Cpu0", "Cpu1", "Gpu0", "Fpga1", "Fpga1", "Mic0", "System">>]
TemperaturePens == [Cpu0 |-> "darkBlue", Cpu1 |-> "blue", Gpu0 |-> "darkRed",
  Fpga0 |-> "darkGreen", Fpga1 |-> "green", Mic0 |-> "darkMagenta",
  System |-> "orange"]

\* QMSMClockPlot
ClockInit == [axis |-> "Frequency [1/s]",
  curves |-> <<"Cpu0", "Cpu1", "Gpu0", "Gpu1", "Mic0", "Mic1">>,
  legend |-> <<"CPU0", "CPU1", "GPU Core", "GPU Mem", "MIC Core", "MIC Mem">>,
  boxes  |-> <<"CPU0", "CPU1", "GPU Core", "GPU Mem", "MIC Core", "MIC Mem">>]
ClockDrawn == {"Cpu0", "Cpu1", "Gpu0", "Gpu1", "Mic0", "Mic1"}
ClockShown == <<"Cpu0", "Cpu1", "Gpu0", "Gpu1", "Mic0", "Mic1">>
ClockShownMax == <<"Cpu0", "Cpu1", "Gpu0", "Gpu1", "Mic0", "Mic1">>
ClockShownMin == <<"Cpu0", "Cpu1", "Gpu0", "Gpu1", "Mic0", "Mic1">>
ClockErased == {"Cpu0", "Cpu1", "Gpu0", "Gpu1", "Mic0", "Mic1"}
ClockPushed == [Cpu0 |-> "ClockCpu0", Cpu1 |-> "ClockCpu1", Gpu0 |-> "ClockGpuCore",
  Gpu1 |-> "ClockGpuMem", Mic0 |-> "ClockMicCore", Mic1 |-> "ClockMicMem"]
ClockExtremes == [of |-> <<"Cpu0", "Cpu1", "Gpu0", "Gpu1", "Mic0", "Mic1">>,
                  into |-> <<"Cpu0", "Cpu1", "Gpu0", "Gpu1", "Mic0", "Mic1">>]
ClockPens == [Cpu0 |-> "darkBlue", Cpu1 |-> "blue", Gpu0 |-> "darkRed",
  Gpu1 |-> "red", Mic0 |-> "darkMagenta", Mic1 |-> "magenta"]

\* QMSMUtilPlot
UtilInit == [axis |-> "Utilization",
  curves |-> <<"Cpu0", "Gpu0", "Gpu1", "Fpga0", "Mic0">>,
  legend |-> <<"CPU", "GPU Core", "GPU Memory", "Compute FPGA", "MIC">>,
  boxes  |-> <<"CPU", "GPU Core", "GPU Memory", "Compute FPGA", "MIC">>]
UtilDrawn == {"Cpu0", "Gpu0", "Gpu1", "Fpga0", "Mic0"}
UtilShown == <<"Cpu0", "Gpu0", "Gpu1", "Fpga0", "Mic0">>
UtilShownMax == <<"Cpu0", "Gpu0", "Gpu1", "Fpga0", "Mic0">>
UtilShownMin == <<"Cpu0", "Gpu0", "Gpu1", "Fpga0", "Mic0">>
UtilErased == {"Cpu0", "Gpu0", "Gpu1", "Fpga0", "Mic0"}
UtilPushed == [Cpu0 |-> "UtilCpu", Gpu0 |-> "UtilGpuCore", Gpu1 |-> "UtilGpuMem",
  Fpga0 |-> "UtilFpga", Mic0 |-> "UtilMic"]
UtilExtremes == [of |-> <<"Cpu0", "Gpu0", "Gpu1", "Fpga0", "Mic0">>,
                 into |-> <<"Cpu0", "Gpu0", "Gpu1", "Fpga0", "Mic0">>]
UtilPens == [Cpu0 |-> "darkBlue", Gpu0 |-> "darkRed", Gpu1 |-> "red",
  Fpga0 |-> "darkGreen", Mic0 |-> "darkMagenta"]

\* QMSMMemoryPlot
MemoryInit == [axis |-> "Memory",
  curves |-> <<"Cpu0", "Cpu1", "Gpu0", "Mic0">>,
  legend |-> <<"CPU Ram", "CPU Swap", "GPU", "MIC">>,
  boxes  |-> <<"CPU Ram", "CPU Swap", "GPU", "MIC">>]
MemoryDrawn == {"Cpu0", "Cpu1", "Gpu0", "Mic0"}
MemoryShown == <<"Cpu0", "Cpu1", "Gpu0", "Mic0">>
MemoryShownMax == <<"Cpu0", "Cpu1", "Gpu0", "Mic0">>
MemoryShownMin == <<"Cpu0", "Cpu1", "Gpu0", "Mic0">>
MemoryErased == {"Cpu0", "Cpu1", "Gpu0", "Mic0"}
MemoryPushed == [Cpu0 |-> "MemoryCpu", Cpu1 |-> "SwapCpu", Gpu0 |-> "MemoryGpu",
  Mic0 |-> "MemoryMic"]
MemoryExtremes == [of |-> <<"Cpu0", "Cpu1", "Gpu0", "Mic0">>,
                   into |-> <<"Cpu0", "Cpu1", "Gpu0", "Mic0">>]
MemoryPens == [Cpu0 |-> "darkBlue", Cpu1 |-> "blue", Gpu0 |-> "darkRed",
  Mic0 |-> "darkMagenta"]

Kinds == {"Power", "Temperature", "Clock", "Util", "Memory"}
PlotOf(kind) ==
  CASE kind = "Power" ->
         [init |-> PowerInit, drawn |-> PowerDrawn, shown |-> PowerShown,
          shownMax |-> PowerShownMax, shownMin |-> PowerShownMin, erased |-> PowerErased,
          pushed |-> PowerPushed, extremes |-> PowerExtremes, pens |-> PowerPens]
    [] kind = "Temperature" ->
         [init |-> TemperatureInit, drawn |-> TemperatureDrawn,
          shown |-> TemperatureShown, shownMax |-> TemperatureShownMax,
          shownMin |-> TemperatureShownMin, erased |-> TemperatureErased,
          pushed |-> TemperaturePushed, extremes |-> TemperatureExtremes,
          pens |-> TemperaturePens]
    [] kind = "Clock" ->
         [init |-> ClockInit, drawn |-> ClockDrawn, shown |-> ClockShown,
          shownMax |-> ClockShownMax, shownMin |-> ClockShownMin, erased |-> ClockErased,
          pushed |-> ClockPushed, extremes |-> ClockExtremes, pens |-> ClockPens]
    [] kind = "Util" ->
         [init |-> UtilInit, drawn |-> UtilDrawn, shown |-> UtilShown,
          shownMax |-> UtilShownMax, shownMin |-> UtilShownMin, erased |-> UtilErased,
          pushed |-> UtilPushed, extremes |-> UtilExtremes, pens |-> UtilPens]
    [] kind = "Memory" ->
         [init |-> MemoryInit, drawn |-> MemoryDrawn, shown |-> MemoryShown,
          shownMax |-> MemoryShownMax, shownMin |-> MemoryShownMin,
          erased |-> MemoryErased, pushed |-> MemoryPushed,
          extremes |-> MemoryExtremes, pens |-> MemoryPens]
Plot == [kind \in Kinds |-> PlotOf(kind)]

-----------------------------------------------------------------------------
\* The vectors of a new plot, one of each kind for a curve.
NoVectors(kind) == [c \in ToSet(Plot[kind].init.curves) |-> <<>>]
NewPlot(kind) ==
  [times |-> <<>>, values |-> NoVectors(kind), mean |-> NoVectors(kind),
   median |-> NoVectors(kind), min |-> NoVectors(kind), max |-> NoVectors(kind),
   ex |-> [i \in DOMAIN Plot[kind].init.boxes |-> [min |-> Lowest, max |-> Highest]],
   apps |-> <<>>, currentAppSize |-> 0, markers |-> <<>>]

\* Faulty variants: the markers are counted anew but stay; a row late for the
\* means; the medians are not erased; a maximum reached again counts again.
ClearAllDataRecounts(kind, p) ==
  [NewPlot(kind) EXCEPT !.ex = p.ex, !.apps = p.apps, !.markers = p.markers]
ComputeMeanLate(src, n, dst) ==
  IF Len(src) > n + 1
    THEN Append(dst, <<FoldLeft(LAMBDA sum, v : sum + v, 0,
                                SubSeq(src, Len(src) - n + 1, Len(src))), n>>)
    ELSE dst
EraseKeepsMedians(kind, p, maxData) ==
  LET n == IF Len(p.times) > maxData THEN Len(p.times) - maxData ELSE 0
      Rest(v) == [c \in DOMAIN v |-> SubSeq(v[c], n + 1, Len(v[c]))]
  IN [p EXCEPT !.times = SubSeq(@, n + 1, Len(@)), !.values = Rest(@), !.mean = Rest(@)]
NewExtremeAgain(x, v) ==
  IF v >= x.max THEN [x EXCEPT !.max = v]
  ELSE IF v < x.min THEN [x EXCEPT !.min = v] ELSE x

\* All the vectors, but neither the extremes nor the markers.
ClearAllData(kind, p) ==
  [NewPlot(kind) EXCEPT !.ex = p.ex, !.apps = p.apps,
     !.currentAppSize = p.currentAppSize, !.markers = p.markers]

\* The interval of the spin box times the refresh rate 1000 / rate, cut off.
NumValues(interval, rate) == (interval * 1000) \div rate

\* The mean of the last n values, as their sum and number; the smallest of
\* them when their n / 2 smallest are gone.
LastValues(src, n) == SubSeq(src, Len(src) - n + 1, Len(src))
Total(s) == FoldLeft(LAMBDA sum, v : sum + v, 0, s)
Mean(src, n) == <<Total(LastValues(src, n)), n>>
Smallest(s, places) == CHOOSE i \in places : \A j \in places : s[i] <= s[j]
Remaining(s, k) ==
  LET left[i \in 0 .. k] ==
        IF i = 0 THEN DOMAIN s ELSE left[i - 1] \ {Smallest(s, left[i - 1])}
  IN left[k]
Middle(s) == s[Smallest(s, Remaining(s, Len(s) \div 2))]
Median(src, n) == Middle(LastValues(src, n))
ComputeMean(src, n, dst) == IF Len(src) > n THEN Append(dst, Mean(src, n)) ELSE dst
ComputeMedian(src, n, dst) == IF Len(src) > n THEN Append(dst, Median(src, n)) ELSE dst

\* Rows of values, means and medians are erased together while the plot has
\* more than maxData of them; the lines of the extremes are not.
Excess(p, maxData) == IF Len(p.times) > maxData THEN Len(p.times) - maxData ELSE 0
Drop(vectors, erased, n) ==
  [c \in DOMAIN vectors |->
     IF c \in erased THEN SubSeq(vectors[c], n + 1, Len(vectors[c])) ELSE vectors[c]]
EraseFails(kind, p, maxData) ==
  \E c \in Plot[kind].erased :
    Len(p.mean[c]) < Excess(p, maxData) \/ Len(p.median[c]) < Excess(p, maxData)
Erase(kind, p, maxData) ==
  LET n == Excess(p, maxData)
      erased == Plot[kind].erased
  IN [p EXCEPT !.times = SubSeq(@, n + 1, Len(@)), !.values = Drop(@, erased, n),
               !.mean = Drop(@, erased, n), !.median = Drop(@, erased, n)]

Push(kind, p, row, mean, median) ==
  LET values == [c \in DOMAIN p.values |->
                   Append(p.values[c], row[Number(Plot[kind].pushed[c]) + 1])]
  IN [p EXCEPT
       !.times = Append(@, row[Number("X") + 1]),
       !.values = values,
       !.mean = [c \in DOMAIN @ |-> ComputeMean(values[c], mean, @[c])],
       !.median = [c \in DOMAIN @ |-> ComputeMedian(values[c], median, @[c])]]

\* A value above the maximum becomes the maximum, only another one may be a
\* new minimum; a new extreme fills the line of its curve.
NewExtreme(x, v) ==
  IF v > x.max THEN [x EXCEPT !.max = v]
  ELSE IF v < x.min THEN [x EXCEPT !.min = v] ELSE x
Filled(line, v) == [i \in DOMAIN line |-> v]
ExtremeOf(kind, p, i) ==
  LET of == Plot[kind].extremes.of[i]
      into == Plot[kind].extremes.into[i]
      x == NewExtreme(p.ex[i], Last(p.values[of]))
      max == IF x.max # p.ex[i].max THEN [p.max EXCEPT ![of] = Filled(@, x.max)] ELSE p.max
      min == IF x.min # p.ex[i].min THEN [p.min EXCEPT ![of] = Filled(@, x.min)] ELSE p.min
  IN [p EXCEPT !.ex[i] = x, !.max = [max EXCEPT ![into] = Append(@, x.max)],
               !.min = [min EXCEPT ![into] = Append(@, x.min)]]
Extremes(kind, p) ==
  LET n == Len(Plot[kind].extremes.of)
      upto[i \in 0 .. n] == IF i = 0 THEN p ELSE ExtremeOf(kind, upto[i - 1], i)
  IN upto[n]

UpdateValues(kind, p, row, set) ==
  Extremes(kind, Push(kind, Erase(kind, p, set.maxData), row,
                      NumValues(set.mean, set.rate), NumValues(set.median, set.rate)))

-----------------------------------------------------------------------------
\* What a redraw shows.  Values are drawn for as many times as there are,
\* means and medians for as many as the first curve has, the extremes for
\* all of their line, each from the first time on.
At(vector, i) == IF i <= Len(vector) THEN vector[i] ELSE Garbage
Samples(p, vector, size) == [i \in 1 .. size |-> <<At(p.times, i), At(vector, i)>>]
Curve(kind, p, filter, c) ==
  IF c \notin Plot[kind].drawn THEN <<>>
  ELSE CASE filter = "absolute" -> Samples(p, p.values[c], Len(p.times))
         [] filter = "mean" -> Samples(p, p.mean[c], Len(p.mean["Cpu0"]))
         [] filter = "median" -> Samples(p, p.median[c], Len(p.median["Cpu0"]))
MaxCurve(p, c) == Samples(p, p.max[c], Len(p.max[c]))
MinCurve(p, c) == Samples(p, p.min[c], Len(p.min[c]))

\* The labels of the boxes of the extremes; none while they are not set.
RedrawMinMax(p) ==
  [i \in DOMAIN p.ex |->
     [min |-> IF p.ex[i].min # Lowest THEN {p.ex[i].min} ELSE {},
      max |-> IF p.ex[i].max # Highest THEN {p.ex[i].max} ELSE {}]]

\* Markers for the applications that were not there at the last redraw.
RedrawApplications(p) ==
  IF p.currentAppSize < Len(p.apps)
    THEN [p EXCEPT !.markers = @ \o SubSeq(p.apps, p.currentAppSize + 1, Len(p.apps)),
                   !.currentAppSize = Len(p.apps)]
    ELSE p

\* The file of values: the columns of the first line, and for each time the
\* values of the curves that have one, always in the same order.
CsvHeader(kind) ==
  CASE kind = "Memory" -> <<"Cpu0", "Cpu1", "Gpu0", "Mic0">>
    [] kind = "Power" -> <<"Cpu0", "Cpu1", "Gpu0", "Fpga0", "Mic0", "System">>
    [] kind = "Util" -> <<"Cpu0", "Gpu0", "Gpu1", "Fpga0", "Mic0">>
    [] kind = "Temperature" ->
         <<"Cpu0", "Cpu1", "Gpu0", "Fpga0", "Fpga1", "Mic0", "System">>
    [] kind = "Clock" -> <<"Cpu0", "Cpu1", "Gpu0", "Gpu1", "Mic0", "Mic1">>
CsvOrder == <<"Cpu0", "Cpu1", "Gpu0", "Gpu1", "Fpga0", "Fpga1", "Mic0", "Mic1", "System">>
ExportPlotToCSV(p) ==
  [i \in DOMAIN p.times |->
     LET filled == Kept(CsvOrder, {c \in DOMAIN p.values : Len(p.values[c]) >= i})
     IN <<p.times[i]>> \o [k \in DOMAIN filled |-> p.values[filled[k]][i]]]

-----------------------------------------------------------------------------
\* The heat maps of the main window, and the value each shows.  They start
\* with one column of 0 and a time for each row; a redraw repaints each
\* tenth time and moves the axis on by 10.
UtilMaps == [CPU |-> "UtilCpu", GpuCore |-> "UtilGpuCore", GpuMemory |-> "UtilGpuMem",
  Fpga |-> "UtilFpga", Mic |-> "UtilMic"]
TempMaps == [Cpu0 |-> "TempCpu0", Cpu1 |-> "TempCpu1", Gpu |-> "TempGpu",
  CompFpga |-> "TempFpgaM", InterFpga |-> "TempFpgaI", Mic |-> "TempMicDie",
  Mainboard |-> "TempSystem"]
Maps == [UtilMaps |-> UtilMaps, TempMaps |-> TempMaps]
NewMaps(maps) ==
  [m \in DOMAIN Maps[maps] |-> [y |-> <<0>>, columns |-> 0]]
UpdateMaps(maps, h, row) ==
  [m \in DOMAIN h |-> [y |-> Append(h[m].y, row[Number(Maps[maps][m]) + 1]),
                       columns |-> h[m].columns + 1]]
ClearMaps(h) == [m \in DOMAIN h |-> [y |-> <<>>, columns |-> 0]]

\* The fields of the system overview.
Overview == [cpu_util |-> "UtilCpu", gpu_core |-> "UtilGpuCore", gpu_mem |-> "UtilGpuMem",
  fpga_util |-> "UtilFpga", mic_util |-> "UtilMic"]
OverviewTemp == [cpu_temp0 |-> "TempCpu0", cpu_temp1 |-> "TempCpu1",
  gpu_temp |-> "TempGpu", fpga_inter |-> "TempFpgaI", fpga_comp |-> "TempFpgaM",
  mic_temp |-> "TempMicDie"]
\* The strings of processes fill the line of the FPGA and the first line of
\* the GPU: the last one stays.
UpdatePID(table, strings) ==
  FoldLeft(LAMBDA t, s : IF s.kind \in {"f", "g"} THEN [t EXCEPT ![s.kind] = s] ELSE t,
           table, strings)
=============================================================================
