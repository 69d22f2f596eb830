------------------------------- MODULE Heatmap -------------------------------
(***************************************************************************)
(* The heatmaps of msmonitor, over the buffer of times mpX: the thread     *)
(* that collects pushes the time of each row, and at each refresh a form   *)
(* moves its axis on, looks up the place of the current mark and fills its *)
(* cells with the means of the samples around it.                          *)
(***************************************************************************)
EXTENDS RingBuffer, FiniteSets

CONSTANTS
  DataSamplingRate, HeatmapSamplingRate, TimeToBufferData, TimeToShowData,
  Shift,       \* the axis moves on by 10 s
  Interval,    \* times between two rows: nanosleep sleeps long enough
  MaxTime,     \* bound: a measurement lasts so long
  MaxLag       \* rows may be so far ahead of the refreshes of a form

\* The buffered and shown times are multiples of both sampling rates.  The
\* remainder is that of msmonitor's settings: 10 s before the last sample
\* shown lies at most a third of a sampling interval off a sample.
ASSUME SettingsAssumption ==
  /\ {DataSamplingRate, HeatmapSamplingRate, TimeToBufferData, TimeToShowData, Shift}
       \subseteq Nat \ {0}
  /\ HeatmapSamplingRate % DataSamplingRate = 0
  /\ TimeToShowData % HeatmapSamplingRate = 0
  /\ TimeToBufferData % DataSamplingRate = 0
  /\ Shift < TimeToShowData /\ TimeToShowData + DataSamplingRate <= TimeToBufferData
  /\ 3 * ((TimeToShowData - Shift) % DataSamplingRate) >= 2 * DataSamplingRate
  /\ Size = TimeToBufferData \div DataSamplingRate

\* Rows are late by less than an axis moves by, the refreshes too.
ASSUME TimeAssumption ==
  /\ MaxTime \in Nat /\ MaxLag \in Nat
  /\ Value = 0 .. MaxTime /\ Zero = 0
  /\ MaxLag < Shift
  /\ \A d \in Interval :
       d \in Nat /\ d >= DataSamplingRate /\ d + MaxLag <= Shift + DataSamplingRate

VARIABLES
  mCurrentX, mIndexCurrentX,
  cells,       \* for each cell of a heatmap: places in the data it is mean of
  refresh,     \* what a refresh is at
  refreshed    \* history: the last time before the last refresh

heat == <<mCurrentX, mIndexCurrentX, cells, refresh, refreshed>>
hvars == <<vars, heat>>

bufferedSamples == ((TimeToBufferData - TimeToShowData) \div DataSamplingRate) - 1
showSamples == (TimeToShowData \div DataSamplingRate) - 1
factorDataToHeatmapSamplingRate == HeatmapSamplingRate \div DataSamplingRate
mBufferSize == TimeToShowData \div HeatmapSamplingRate
Cell == 0 .. (mBufferSize - 1)

HInit ==
  /\ Init
  /\ mCurrentX = 0 /\ mIndexCurrentX = 0
  /\ cells = [i \in Cell |-> {}]
  /\ refresh = "idle" /\ refreshed = 0

-----------------------------------------------------------------------------
(* The rows of a measurement. *)

LastX == mpData[mSecond - 1]

Collect(d) ==
  /\ LastX + d <= MaxTime /\ LastX + d <= refreshed + MaxLag
  /\ PushData(LastX + d)
  /\ UNCHANGED heat

GoOn == (PushMirror \/ PushAdvance) /\ UNCHANGED heat

TakePointer == TakeDataPtr /\ UNCHANGED heat

\* The buffers are reset before the forms are started again.
Restart ==
  /\ refresh = "idle" /\ Reset /\ refreshed' = 0
  /\ UNCHANGED <<mCurrentX, mIndexCurrentX, cells, refresh>>

-----------------------------------------------------------------------------
(* A refresh: visible or not, a form moves its axis. *)

X(i) == mpData[DataPtr + bufferedSamples + i]

\* Every 10 s, and back to the start after a reset.
MovedX ==
  LET shifted == IF X(showSamples) - mCurrentX > Shift
                 THEN mCurrentX + Shift ELSE mCurrentX
  IN IF X(showSamples) < shifted THEN 0 ELSE shifted

\* The last sample up to the mark, and a third of a sampling interval.
LastUpTo(current) ==
  LET upTo == {i \in 0 .. showSamples : 3 * X(i) <= 3 * current + DataSamplingRate}
  IN IF upTo = {} THEN 0 ELSE CHOOSE i \in upTo : \A j \in upTo : j <= i

\* Faulty: the times are compared exactly.
UpdateCurrentXExact ==
  LET upTo == {i \in 0 .. showSamples : X(i) <= MovedX}
  IN /\ refresh = "idle"
     /\ mCurrentX' = MovedX
     /\ mIndexCurrentX' = IF upTo = {} THEN 0
                          ELSE CHOOSE i \in upTo : \A j \in upTo : j <= i
     /\ refreshed' = LastX
     /\ refresh' = "data"
     /\ UNCHANGED <<vars, cells>>

UpdateCurrentX ==
  /\ refresh = "idle"
  /\ mCurrentX' = MovedX
  /\ mIndexCurrentX' = LastUpTo(MovedX)
  /\ refreshed' = LastX
  /\ refresh' = "data"
  /\ UNCHANGED <<vars, cells>>

\* indexStartX is a uint32_t.
UpdateHeatmapData ==
  LET start == (mIndexCurrentX - (TimeToShowData - Shift) \div DataSamplingRate)
                 % Word
      factor == factorDataToHeatmapSamplingRate
      filled == (mBufferSize - (start \div factor) - 1) % Word
  IN /\ refresh = "data"
     /\ cells' = [i \in Cell |->
                    IF i < filled
                    THEN {bufferedSamples + start + factor * i + j
                            : j \in 0 .. (factor - 1)}
                    ELSE {}]
     /\ refresh' = "idle"
     /\ UNCHANGED <<vars, mCurrentX, mIndexCurrentX, refreshed>>

HNext ==
  \/ \E d \in Interval : Collect(d)
  \/ GoOn \/ TakePointer \/ Restart
  \/ UpdateCurrentX \/ UpdateHeatmapData

HSpec == HInit /\ [][HNext]_hvars

-----------------------------------------------------------------------------
\* With the settings that msmonitor starts with, a heatmap is the mean of
\* samples that are there and that the plots show: it begins within the
\* window whatever the rows are late by, and ends before its newest sample,
\* which it reaches up to two cells (QMSMFormHeatmapTemperature.cpp:105).
HeatmapInWindow ==
  LET shown == UNION {cells[i] : i \in Cell}
      visible == bufferedSamples .. (bufferedSamples + showSamples)
  IN \/ shown = {}
     \/ /\ shown \subseteq visible
        /\ \E place \in shown :
             place + 2 * factorDataToHeatmapSamplingRate
               > bufferedSamples + showSamples
=============================================================================
