----------------------------- MODULE ViewsProofs -----------------------------
(* Theorems about what the two viewers show: about RingBuffer, for every   *)
(* size, set of values and word, about Heatmap, for every sampling rate,   *)
(* times and rows that are late, and about the window of the client of     *)
(* msmonitor_cs, for all levels, settings and numbers of rows: first that  *)
(* it runs on with the rows the server answered, then, from The median on, *)
(* what its plots, files, heat maps and overview show of them.             *)
EXTENDS Heatmap, ClientWindow, SequenceTheorems, FiniteSetTheorems,
        WellFoundedInduction, TLAPS

\* In the last third mFirst is two thirds behind mSecond.
FirstInv == mSecond >= 2 * Size => mFirst = mSecond - 2 * Size

\* Up to mSecond the first third is a copy of the last one.
MirrorInv ==
  \A x \in 2 * Size .. (3 * Size - 1) :
    x < mSecond \/ (x = mSecond /\ pc = "advance") => mpData[x - 2 * Size] = mpData[x]

\* Until it is stale, the age of a pointer says how far mSecond has moved.
AgeInv ==
  age <= Size => mSecond \in {ptr + Size + age, ptr + Size + age - 2 * Size}

\* Together they keep the pointers good.
IInv == TypeOK /\ FirstInv /\ MirrorInv /\ AgeInv /\ PointerGood

\* The buffer of a new monitor satisfies the invariant.
LEMMA InitInv == Init => IInv
<1> USE SizeAssumption, ZeroAssumption, WordAssumption
<1>1. Init => TypeOK
  BY DEF Init, TypeOK, Index, Stale
<1>2. Init => FirstInv /\ MirrorInv /\ AgeInv /\ PointerGood
  BY DEF Init, FirstInv, MirrorInv, AgeInv, PointerGood, Index, Stale
<1>3. QED
  BY <1>1, <1>2 DEF IInv

\* What the wrap of an unsigned integer returns.
LEMMA Modulo ==
  ASSUME NEW x \in Int, NEW w \in Nat, w > 0
  PROVE  /\ x % w \in 0 .. (w - 1)
         /\ 0 <= x /\ x < w => x % w = x
OBVIOUS

\* Where mSecond goes: it stays in the last two thirds, and mFirst follows.
LEMMA AdvanceStep ==
  ASSUME IInv, PushAdvance
  PROVE  /\ mSecond' \in {mSecond + 1, mSecond + 1 - 2 * Size}
         /\ mSecond' \in Size .. (3 * Size - 1)
         /\ mSecond' = mSecond + 1 - 2 * Size => mSecond = 3 * Size - 1
         /\ mFirst' \in 0 .. (Word - 1)
         /\ FirstInv'
<1> USE SizeAssumption, WordAssumption
<1>1. /\ mSecond' \in {mSecond + 1, mSecond + 1 - 2 * Size}
      /\ mSecond' \in Size .. (3 * Size - 1)
      /\ mSecond' = mSecond + 1 - 2 * Size => mSecond = 3 * Size - 1
  BY DEF IInv, TypeOK, PushAdvance
<1>2. mFirst' = (mSecond' - 2 * Size) % Word
  BY DEF PushAdvance
<1>3. \A n \in Size .. (3 * Size - 1) :
        /\ (n - 2 * Size) % Word \in 0 .. (Word - 1)
        /\ n >= 2 * Size => (n - 2 * Size) % Word = n - 2 * Size
  <2> SUFFICES ASSUME NEW n \in Size .. (3 * Size - 1)
               PROVE  /\ (n - 2 * Size) % Word \in 0 .. (Word - 1)
                      /\ n >= 2 * Size => (n - 2 * Size) % Word = n - 2 * Size
    OBVIOUS
  <2>1. n - 2 * Size \in Int /\ n - 2 * Size < Word
    OBVIOUS
  <2>2. n >= 2 * Size => n - 2 * Size >= 0
    OBVIOUS
  <2>3. QED
    BY <2>1, <2>2, Modulo
<1>4. QED
  BY <1>1, <1>2, <1>3 DEF FirstInv

\* Every step keeps the invariant.
LEMMA NextInv ==
  ASSUME IInv, [Next]_vars
  PROVE  IInv'
<1> USE SizeAssumption, ZeroAssumption, WordAssumption
<1>1. ASSUME NEW v \in Value, PushData(v) PROVE IInv'
  <2>1. TypeOK'
    BY <1>1 DEF PushData, IInv, TypeOK, Index, Stale, plot
  <2>2. FirstInv' /\ MirrorInv' /\ AgeInv'
    BY <1>1 DEF PushData, IInv, TypeOK, Index, Stale, plot, FirstInv, MirrorInv, AgeInv
  <2>3. PointerGood'
    BY <1>1 DEF PushData, IInv, TypeOK, Index, Stale, plot, AgeInv, PointerGood, From
  <2>4. QED
    BY <2>1, <2>2, <2>3 DEF IInv
<1>2. CASE PushMirror
  <2>1. TypeOK'
    BY <1>2 DEF PushMirror, IInv, TypeOK, Index, Stale, plot, FirstInv
  <2>2. FirstInv' /\ AgeInv'
    BY <1>2 DEF PushMirror, IInv, TypeOK, Index, Stale, plot, FirstInv, AgeInv
  <2>3. MirrorInv'
    BY <1>2 DEF PushMirror, IInv, TypeOK, Index, FirstInv, MirrorInv
  <2>4. PointerGood'
    BY <1>2 DEF PushMirror, IInv, TypeOK, Index, Stale, plot, FirstInv, AgeInv,
      PointerGood, From
  <2>5. QED
    BY <2>1, <2>2, <2>3, <2>4 DEF IInv
<1>3. CASE PushAdvance
  <2>1. TypeOK'
    BY <1>3, AdvanceStep DEF PushAdvance, IInv, TypeOK, Index, Stale
  <2>2. FirstInv'
    BY <1>3, AdvanceStep
  <2>3. MirrorInv'
    BY <1>3, AdvanceStep DEF PushAdvance, IInv, TypeOK, MirrorInv
  <2>4. AgeInv'
    BY <1>3, AdvanceStep DEF PushAdvance, IInv, TypeOK, AgeInv, Stale
  <2>5. PointerGood'
    BY <1>3 DEF PushAdvance, IInv, TypeOK, PointerGood, From, Stale
  <2>6. QED
    BY <2>1, <2>2, <2>3, <2>4, <2>5 DEF IInv
<1>4. CASE Reset
  <2>1. TypeOK'
    BY <1>4 DEF Reset, IInv, TypeOK, Index, Stale
  <2>2. FirstInv' /\ MirrorInv' /\ AgeInv' /\ PointerGood'
    BY <1>4 DEF Reset, IInv, TypeOK, FirstInv, MirrorInv, AgeInv, PointerGood, Index, Stale
  <2>3. QED
    BY <2>1, <2>2 DEF IInv
<1>5. CASE TakeDataPtr
  <2>1. From(DataPtr) \in [1 .. Size -> Value]
    BY DEF From, DataPtr, IInv, TypeOK, Index
  <2>2. TypeOK'
    BY <1>5, <2>1 DEF TakeDataPtr, IInv, TypeOK, DataPtr, Stale, buffer
  <2>3. FirstInv' /\ MirrorInv' /\ AgeInv'
    BY <1>5 DEF TakeDataPtr, IInv, TypeOK, FirstInv, MirrorInv, AgeInv, DataPtr, buffer
  <2>4. PointerGood'
    BY <1>5 DEF TakeDataPtr, PointerGood, From, buffer
  <2>5. QED
    BY <2>2, <2>3, <2>4 DEF IInv
<1>6. CASE UNCHANGED vars
  BY <1>6 DEF vars, buffer, plot, IInv, TypeOK, FirstInv, MirrorInv, AgeInv,
    PointerGood, From
<1>7. QED
  BY <1>1, <1>2, <1>3, <1>4, <1>5, <1>6 DEF Next, PushBack

\* The indices stay in the buffer, the values in it are values.
THEOREM BufferTypeCorrect == Spec => []TypeOK
<1>1. IInv => TypeOK
  BY DEF IInv
<1>2. IInv /\ [Next]_vars => IInv'
  BY NextInv
<1>3. QED
  BY InitInv, <1>1, <1>2, PTL DEF Spec

\* A pointer a plot holds is good for as many pushes as it shows values.
THEOREM PointersGood == Spec => []PointerGood
<1>1. IInv => PointerGood
  BY DEF IInv
<1>2. IInv /\ [Next]_vars => IInv'
  BY NextInv
<1>3. QED
  BY InitInv, <1>1, <1>2, PTL DEF Spec

\* The values a plot shows stay during a push, until mSecond moves on.
LEMMA PushKeepsWindow ==
  ASSUME IInv, (\E v \in Value : PushData(v)) \/ PushMirror
  PROVE  From(DataPtr)' = From(DataPtr)
<1> USE SizeAssumption
<1>1. ASSUME NEW v \in Value, PushData(v) PROVE From(DataPtr)' = From(DataPtr)
  BY <1>1 DEF PushData, IInv, TypeOK, Index, From, DataPtr
<1>2. CASE PushMirror
  BY <1>2 DEF PushMirror, IInv, TypeOK, Index, FirstInv, From, DataPtr
<1>3. QED
  BY <1>1, <1>2

\* Then they are those that followed the first, and the value pushed.
LEMMA AdvanceWindow ==
  ASSUME IInv, PushAdvance
  PROVE  From(DataPtr)' =
           [j \in 1 .. Size |-> IF j = Size THEN mpData[mSecond] ELSE From(DataPtr)[j + 1]]
<1> USE SizeAssumption, ZeroAssumption, WordAssumption
<1>1. \A j \in 1 .. Size :
        mpData[mSecond' - Size + j - 1] = mpData[mSecond + 1 - Size + j - 1]
  BY AdvanceStep DEF PushAdvance, IInv, TypeOK, MirrorInv
<1>2. From(DataPtr)' = [j \in 1 .. Size |-> mpData[mSecond + 1 - Size + j - 1]]
  BY <1>1 DEF PushAdvance, From, DataPtr
<1>3. QED
  BY <1>2 DEF From, DataPtr, IInv, TypeOK

\* CRingBuffer implements a sliding window of the last Size values: only
\* the write of mSecond moves it, and it moves by one value.
THEOREM ImplementsSlidingWindow == Spec => WindowSpec
<1> USE SizeAssumption, ZeroAssumption, WordAssumption
<1>1. Init => Window!Init
  BY DEF Init, Window!Init, From, DataPtr, Index
<1>2. IInv /\ [Next]_vars => [Window!Next]_(From(DataPtr))
  <2> SUFFICES ASSUME IInv, [Next]_vars PROVE [Window!Next]_(From(DataPtr))
    OBVIOUS
  <2>1. CASE (\E v \in Value : PushData(v)) \/ PushMirror
    BY <2>1, PushKeepsWindow
  <2>2. CASE PushAdvance
    <3>1. mpData[mSecond] \in Value
      BY DEF IInv, TypeOK, Index
    <3>2. Window!Push(mpData[mSecond])
      BY <2>2, AdvanceWindow DEF Window!Push
    <3>3. QED
      BY <3>1, <3>2 DEF Window!Next
  <2>3. CASE Reset
    <3>1. Window!Reset
      BY <2>3 DEF Reset, Window!Reset, From, DataPtr, Index
    <3>2. QED
      BY <3>1 DEF Window!Next
  <2>4. CASE TakeDataPtr \/ UNCHANGED vars
    BY <2>4 DEF TakeDataPtr, vars, buffer, From, DataPtr
  <2>5. QED
    BY <2>1, <2>2, <2>3, <2>4 DEF Next, PushBack
<1>3. IInv /\ [Next]_vars => IInv'
  BY NextInv
<1>4. QED
  BY InitInv, <1>1, <1>2, <1>3, PTL DEF Spec, WindowSpec, Window!Spec

-----------------------------------------------------------------------------
(* The heatmaps, over a buffer of times.                                   *)

\* The last Size times, the newest at Size.
Times == From(DataPtr)

\* Where the axis begins, in samples before the last one shown.
Offset == (TimeToShowData - Shift) \div DataSamplingRate

\* A row follows another one, or neither has come yet.
Follows(t, u) == (t = 0 /\ u = 0) \/ \E d \in Interval : u = t + d

\* The times ascend by a sampling interval for each row.
AscendInv ==
  /\ \A j, k \in 1 .. Size :
       j < k => Times[j] = 0 \/ Times[j] + (k - j) * DataSamplingRate <= Times[k]
  /\ Follows(Times[Size - 1], Times[Size])
  /\ pc # "idle" =>
       Follows(Times[Size], mpData[mSecond]) /\ mpData[mSecond] <= refreshed + MaxLag

\* The axis is not left behind, and after a reset it starts at the first refresh.
AxisInv ==
  /\ mCurrentX \in Nat /\ refreshed \in Nat
  /\ refreshed <= Times[Size] /\ Times[Size] <= refreshed + MaxLag
  /\ refreshed + MaxLag <= mCurrentX + 2 * Shift + DataSamplingRate
  /\ mCurrentX <= Times[Size - 1] \/ refreshed = 0

HeatInv ==
  /\ IInv /\ AscendInv /\ AxisInv
  /\ refresh \in {"idle", "data"}
  /\ refresh = "data" => mIndexCurrentX \in Offset .. showSamples
  /\ HeatmapInWindow

\* Every set of numbers has a least one.
LEMMA Least ==
  ASSUME NEW T \in SUBSET Nat, T # {}
  PROVE  \E m \in T : \A k \in T : m <= k
<1> DEFINE R == OpToRel(<, Nat)
<1>1. IsWellFoundedOn(R, Nat)
  BY NatLessThanWellFounded
<1>2. \A x, y \in Nat : x < y => <<x, y>> \in R
  BY DEF OpToRel
<1> HIDE DEF R
<1>3. PICK m \in T : \A y \in T : <<y, m>> \notin R
  BY <1>1, WFMin
<1>4. \A k \in T : ~(k < m)
  <2>1. SUFFICES ASSUME NEW k \in T, k < m PROVE FALSE
    OBVIOUS
  <2>2. k \in Nat /\ m \in Nat
    OBVIOUS
  <2>3. <<k, m>> \in R
    BY <1>2, <2>1, <2>2
  <2>4. QED
    BY <1>3, <2>3
<1>5. QED
  BY <1>4

\* Every bounded one has a greatest.
LEMMA Greatest ==
  ASSUME NEW n \in Nat, NEW T \in SUBSET (0 .. n), T # {}
  PROVE  \E m \in T : \A k \in T : k <= m
<1> DEFINE U == {n - i : i \in T}
<1>1. U \in SUBSET Nat /\ U # {}
  <2>1. \A i \in T : n - i \in Nat
    OBVIOUS
  <2>2. QED
    BY <2>1
<1>2. PICK u \in U : \A k \in U : u <= k
  BY <1>1, Least
<1>3. PICK m \in T : u = n - m
  OBVIOUS
<1>4. \A k \in T : n - m <= n - k
  BY <1>2, <1>3
<1>5. QED
  BY <1>4

\* Quotient and rest of a division.
LEMMA Division ==
  ASSUME NEW a \in Nat, NEW b \in Nat \ {0}
  PROVE  \E q \in Nat, r \in 0 .. (b - 1) :
           q = a \div b /\ r = a % b /\ a = b * q + r
<1>1. a \div b \in Nat /\ a % b \in 0 .. (b - 1)
  OBVIOUS
<1>2. a % b = a - (a \div b) * b
  BY SMTT(30)
<1>3. PICK q \in Nat, r \in 0 .. (b - 1) : q = a \div b /\ r = a % b
  BY <1>1
<1>4. r = a - q * b
  BY <1>2, <1>3
<1>5. a = b * q + r
  BY <1>4
<1>6. QED
  BY <1>3, <1>5

\* A product is divided by a factor.
LEMMA Quotient ==
  ASSUME NEW a \in Nat, NEW b \in Nat \ {0}
  PROVE  (b * a) \div b = a
  BY Z3

\* What the settings say of the samples shown: where the first and the last
\* of them lie, that the axis begins among them and within its tolerance, and
\* that the cells take them up.
LEMMA SettingsFacts ==
  /\ showSamples \in Nat /\ bufferedSamples \in Nat
  /\ bufferedSamples + showSamples + 2 = Size
  /\ Offset \in 0 .. showSamples
  /\ 3 * (Shift - (showSamples - Offset) * DataSamplingRate) <= DataSamplingRate
  /\ factorDataToHeatmapSamplingRate \in Nat \ {0} /\ mBufferSize \in Nat \ {0}
  /\ factorDataToHeatmapSamplingRate * mBufferSize = showSamples + 1
<1>a. /\ DataSamplingRate \in Nat \ {0} /\ HeatmapSamplingRate \in Nat \ {0}
      /\ TimeToBufferData \in Nat \ {0} /\ TimeToShowData \in Nat \ {0}
      /\ Shift \in Nat \ {0}
  BY SettingsAssumption
<1> DEFINE D == DataSamplingRate
<1>1. PICK f \in Nat : HeatmapSamplingRate = D * f /\ f = factorDataToHeatmapSamplingRate
  <2>1. PICK q \in Nat, r \in 0 .. (D - 1) :
          /\ q = HeatmapSamplingRate \div D /\ r = HeatmapSamplingRate % D
          /\ HeatmapSamplingRate = D * q + r
    BY <1>a, Division
  <2>2. r = 0
    BY <2>1, SettingsAssumption
  <2>3. HeatmapSamplingRate = D * q
    BY <1>a, <2>1, <2>2
  <2>4. QED
    BY <2>1, <2>3 DEF factorDataToHeatmapSamplingRate
<1>2. PICK h \in Nat : TimeToShowData = HeatmapSamplingRate * h /\ h = mBufferSize
  <2>1. PICK q \in Nat, r \in 0 .. (HeatmapSamplingRate - 1) :
          /\ q = TimeToShowData \div HeatmapSamplingRate /\ r = TimeToShowData % HeatmapSamplingRate
          /\ TimeToShowData = HeatmapSamplingRate * q + r
    BY <1>a, Division
  <2>2. r = 0
    BY <2>1, SettingsAssumption
  <2>3. TimeToShowData = HeatmapSamplingRate * q
    BY <1>a, <2>1, <2>2
  <2>4. QED
    BY <2>1, <2>3 DEF mBufferSize
<1>3. PICK s \in Nat : TimeToBufferData = D * s /\ s = Size
  <2>1. PICK q \in Nat, r \in 0 .. (D - 1) :
          /\ q = TimeToBufferData \div D /\ r = TimeToBufferData % D
          /\ TimeToBufferData = D * q + r
    BY <1>a, Division
  <2>2. r = 0 /\ q = Size
    BY <2>1, SettingsAssumption
  <2>3. TimeToBufferData = D * q
    BY <1>a, <2>1, <2>2
  <2>4. QED
    BY <2>2, <2>3
<1>4. f > 0 /\ h > 0
  BY <1>a, <1>1, <1>2
<1>5. PICK n \in Nat : n = f * h /\ n > 0 /\ TimeToShowData = D * n
  <2>1. f * h \in Nat /\ f * h > 0
    BY <1>4
  <2>2. TimeToShowData = D * (f * h)
    BY <1>a, <1>1, <1>2
  <2>3. QED
    BY <2>1, <2>2
<1>6. showSamples = n - 1
  <2>1. TimeToShowData \div D = n
    BY <1>a, <1>5, Quotient
  <2>2. QED
    BY <2>1 DEF showSamples
<1>7. s > n
  <2>1. D * (n + 1) <= D * s
    <3>1. D * n + D <= D * s
      BY <1>3, <1>5, SettingsAssumption
    <3>2. QED
      BY <1>a, <3>1
  <2>2. n + 1 <= s
    BY <1>a, <2>1
  <2>3. QED
    BY <2>2
<1>8. bufferedSamples = s - n - 1
  <2>1. TimeToBufferData - TimeToShowData = D * (s - n)
    BY <1>a, <1>3, <1>5
  <2>2. s - n \in Nat
    BY <1>7
  <2>3. (TimeToBufferData - TimeToShowData) \div D = s - n
    BY <1>a, <2>1, <2>2, Quotient
  <2>4. QED
    BY <2>3 DEF bufferedSamples
<1>9. PICK t \in Nat, r \in Nat : /\ TimeToShowData - Shift = D * t + r /\ t = Offset
                                   /\ r < D /\ 3 * r >= 2 * D
  <2>1. TimeToShowData - Shift \in Nat
    BY <1>a, SettingsAssumption
  <2>2. PICK t \in Nat, r \in 0 .. (D - 1) :
          /\ t = (TimeToShowData - Shift) \div D /\ r = (TimeToShowData - Shift) % D
          /\ TimeToShowData - Shift = D * t + r
    BY <1>a, <2>1, Division
  <2>3. 3 * r >= 2 * D
    BY <2>2, SettingsAssumption
  <2>4. t = Offset
    BY <2>2 DEF Offset
  <2>5. r \in Nat /\ r < D
    BY <1>a, <2>2
  <2>6. QED
    BY <2>2, <2>3, <2>4, <2>5
<1>10. t < n
  <2>1. D * t < D * n
    BY <1>a, <1>5, <1>9
  <2>2. QED
    BY <1>a, <2>1
<1>11. Shift - (n - 1 - t) * D = D - r
  <2>1. Shift = D * n - D * t - r
    BY <1>a, <1>5, <1>9
  <2>2. (n - 1 - t) * D = D * n - D - D * t
    BY <1>a
  <2>3. QED
    BY <1>a, <2>1, <2>2
<1>12. 3 * (Shift - (showSamples - Offset) * D) <= D
  <2>1. 3 * (D - r) <= D
    BY <1>a, <1>9
  <2>2. QED
    BY <1>6, <1>9, <1>11, <2>1
<1>13. QED
  BY <1>1, <1>2, <1>3, <1>4, <1>5, <1>6, <1>7, <1>8, <1>9, <1>10, <1>12

\* Of these, what most steps need.
LEMMA RateFacts ==
  /\ DataSamplingRate \in Nat \ {0} /\ Shift \in Nat \ {0}
  /\ showSamples \in Nat /\ bufferedSamples \in Nat
  /\ bufferedSamples + showSamples + 2 = Size
  /\ Size \in Nat /\ Size >= 2
  /\ Offset \in 0 .. showSamples
<1>1. DataSamplingRate \in Nat \ {0} /\ Shift \in Nat \ {0}
  BY SettingsAssumption
<1>2. QED
  BY <1>1, SettingsFacts

\* The times of the plots are those of the window before the newest one.
LEMMA TimesShown ==
  ASSUME IInv
  PROVE  /\ \A j \in 1 .. Size : Times[j] \in Nat
         /\ \A i \in 0 .. showSamples : X(i) = Times[bufferedSamples + i + 1]
         /\ X(showSamples) = Times[Size - 1]
         /\ LastX = Times[Size]
<1> USE RateFacts
<1>1. \A j \in 1 .. Size : Times[j] = mpData[mSecond - Size + j - 1]
  BY DEF Times, From, DataPtr
<1>2. \A j \in 1 .. Size : Times[j] \in Nat
  <2>1. \A j \in 1 .. Size : mSecond - Size + j - 1 \in Index
    BY DEF IInv, TypeOK, Index
  <2>2. \A x \in Index : mpData[x] \in Nat
    BY TimeAssumption DEF IInv, TypeOK
  <2>3. QED
    BY <1>1, <2>1, <2>2
<1>3. \A i \in 0 .. showSamples : X(i) = Times[bufferedSamples + i + 1]
  <2>1. \A i \in 0 .. showSamples : bufferedSamples + i + 1 \in 1 .. Size
    OBVIOUS
  <2>2. QED
    BY <1>1, <2>1 DEF X, DataPtr, IInv, TypeOK
<1>4. X(showSamples) = Times[Size - 1]
  <2>1. bufferedSamples + showSamples + 1 = Size - 1
    OBVIOUS
  <2>2. QED
    BY <1>3, <2>1
<1>5. LastX = Times[Size]
  BY <1>1 DEF LastX, IInv, TypeOK
<1>6. QED
  BY <1>2, <1>3, <1>4, <1>5

\* A refresh moves the axis to within its shift of the last time shown.
LEMMA AxisMoves ==
  ASSUME IInv, AscendInv, AxisInv
  PROVE  MovedX \in Nat /\ MovedX <= X(showSamples) /\ X(showSamples) <= MovedX + Shift
<1> USE RateFacts
<1>1. PICK x \in Nat, y \in Nat :
        /\ x = Times[Size - 1] /\ y = Times[Size] /\ x = X(showSamples)
  BY TimesShown, RateFacts
<1>2. x = 0 \/ x + DataSamplingRate <= refreshed + MaxLag
  <2>1. Follows(x, y)
    BY <1>1 DEF AscendInv
  <2>2. (x = 0 /\ y = 0) \/ x + DataSamplingRate <= y
    BY <2>1, TimeAssumption DEF Follows
  <2>3. refreshed \in Nat /\ y <= refreshed + MaxLag /\ MaxLag \in Nat
    BY <1>1, TimeAssumption DEF AxisInv
  <2>4. QED
    BY <2>2, <2>3
<1>3. /\ mCurrentX \in Nat /\ refreshed \in Nat
      /\ x <= mCurrentX + 2 * Shift
      /\ mCurrentX <= x \/ refreshed = 0
  <2>1. /\ mCurrentX \in Nat /\ refreshed \in Nat /\ MaxLag \in Nat
        /\ refreshed + MaxLag <= mCurrentX + 2 * Shift + DataSamplingRate
        /\ mCurrentX <= x \/ refreshed = 0
    BY <1>1, TimeAssumption DEF AxisInv
  <2>2. QED
    BY <1>2, <2>1
<1>4. MovedX = LET shifted == IF x - mCurrentX > Shift THEN mCurrentX + Shift ELSE mCurrentX
               IN IF x < shifted THEN 0 ELSE shifted
  BY <1>1 DEF MovedX
<1>5. MovedX \in Nat /\ MovedX <= x /\ x <= MovedX + Shift
  <2>1. CASE x - mCurrentX > Shift
    <3>1. MovedX = mCurrentX + Shift
      BY <1>3, <1>4, <2>1
    <3>2. QED
      BY <1>3, <2>1, <3>1
  <2>2. CASE ~(x - mCurrentX > Shift) /\ mCurrentX <= x
    <3>1. MovedX = mCurrentX
      BY <1>3, <1>4, <2>2
    <3>2. QED
      BY <1>3, <2>2, <3>1
  <2>3. CASE ~(mCurrentX <= x)
    <3>1. MovedX = 0
      BY <1>3, <1>4, <2>3
    <3>2. x <= Shift
      BY <1>2, <1>3, <2>3, TimeAssumption
    <3>3. QED
      BY <3>1, <3>2
  <2>4. QED
    BY <1>3, <2>1, <2>2, <2>3
<1>6. QED
  BY <1>1, <1>5

\* It finds the mark at least as far on as the axis begins.
LEMMA MarkFound ==
  ASSUME IInv, AscendInv, AxisInv
  PROVE  LastUpTo(MovedX) \in Offset .. showSamples
<1> USE RateFacts
<1>1. PICK c \in Nat : /\ c = MovedX /\ X(showSamples) <= c + Shift
  BY AxisMoves
<1> DEFINE upTo == {i \in 0 .. showSamples : 3 * X(i) <= 3 * c + DataSamplingRate}
<1>2. Offset \in upTo
  <2>1. PICK x \in Nat, y \in Nat : x = X(Offset) /\ y = X(showSamples)
    BY TimesShown
  <2>2. x = 0 \/ x + (showSamples - Offset) * DataSamplingRate <= y
    <3>1. CASE Offset = showSamples
      BY <2>1, <3>1, RateFacts
    <3>2. CASE Offset < showSamples
      <4>1. /\ bufferedSamples + Offset + 1 \in 1 .. Size
            /\ bufferedSamples + showSamples + 1 \in 1 .. Size
            /\ bufferedSamples + Offset + 1 < bufferedSamples + showSamples + 1
            /\ (bufferedSamples + showSamples + 1) - (bufferedSamples + Offset + 1)
                 = showSamples - Offset
        BY <3>2
      <4>2. x = Times[bufferedSamples + Offset + 1]
              /\ y = Times[bufferedSamples + showSamples + 1]
        BY <2>1, TimesShown
      <4>3. QED
        BY <4>1, <4>2 DEF AscendInv
    <3>3. QED
      BY <3>1, <3>2
  <2>3. 3 * x <= 3 * c + DataSamplingRate
    <3>1. PICK g \in Int : g = (showSamples - Offset) * DataSamplingRate
      BY RateFacts
    <3>2. 3 * (Shift - g) <= DataSamplingRate /\ (x = 0 \/ x + g <= y) /\ y <= c + Shift
      BY <1>1, <2>1, <2>2, <3>1, SettingsFacts
    <3>3. QED
      BY <3>2, RateFacts
  <2>4. QED
    BY <2>1, <2>3
<1>3. \E m \in upTo : \A k \in upTo : k <= m
  BY <1>2, Greatest
<1>4. LastUpTo(c) = CHOOSE i \in upTo : \A j \in upTo : j <= i
  BY <1>2 DEF LastUpTo
<1>5. LastUpTo(c) \in upTo /\ \A j \in upTo : j <= LastUpTo(c)
  BY <1>3, <1>4
<1>6. QED
  BY <1>1, <1>2, <1>5

\* The cells are filled from the window, as far as its end allows.
LEMMA CellsFilled ==
  ASSUME mIndexCurrentX \in Offset .. showSamples, UpdateHeatmapData
  PROVE  HeatmapInWindow'
<1> USE SettingsFacts
<1>1. PICK f \in Nat \ {0}, m \in Nat \ {0}, n \in Nat, b \in Nat :
        /\ f = factorDataToHeatmapSamplingRate /\ m = mBufferSize
        /\ n = showSamples /\ b = bufferedSamples /\ f * m = n + 1
  OBVIOUS
<1>2. PICK s \in Nat : s = mIndexCurrentX - Offset /\ s <= n
  BY <1>1
<1>3. PICK q \in Nat, r \in 0 .. (f - 1) :
        q = s \div f /\ r = s % f /\ s = f * q + r
  BY Division
<1>4. q < m
  <2>1. f * q < f * m
    BY <1>1, <1>2, <1>3
  <2>2. QED
    BY <2>1
<1>5. m <= n + 1 /\ n < Size /\ Word \in Nat /\ Word > Size
  <2>1. m <= f * m
    OBVIOUS
  <2>2. QED
    BY <1>1, <2>1, WordAssumption, SizeAssumption
<1>6. s % Word = s /\ (m - q - 1) % Word = m - q - 1
  <2>1. s < Word /\ m - q - 1 \in Nat /\ m - q - 1 < Word
    BY <1>2, <1>4, <1>5
  <2>2. QED
    BY <1>5, <2>1, Modulo
<1> DEFINE Places(i) == {b + s + f * i + j : j \in 0 .. (f - 1)}
<1>7. cells' = [i \in Cell |-> IF i < m - q - 1 THEN Places(i) ELSE {}]
  <2>1. (mIndexCurrentX - (TimeToShowData - Shift) \div DataSamplingRate) = s
    BY <1>2 DEF Offset
  <2>2. (mBufferSize - (s \div f) - 1) % Word = m - q - 1
    BY <1>1, <1>3, <1>6
  <2>3. QED
    BY <1>1, <1>6, <2>1, <2>2 DEF UpdateHeatmapData
<1>8. Cell = 0 .. (m - 1)
  BY <1>1 DEF Cell
<1> DEFINE places == UNION {cells'[i] : i \in Cell}
<1>9. ASSUME NEW i \in 0 .. (m - q - 2), NEW j \in 0 .. (f - 1)
      PROVE  b + s + f * i + j \in b .. (b + n)
  <2>1. f * i + f <= f * (m - q - 1)
    <3>1. f * (i + 1) <= f * (m - q - 1)
      <4>1. i + 1 <= m - q - 1 /\ i + 1 \in Nat /\ m - q - 1 \in Nat
        BY <1>4
      <4>2. QED
        BY <4>1
    <3>2. QED
      BY <3>1
  <2>2. f * (m - q - 1) = n + 1 - f * q - f
    BY <1>1
  <2>3. PICK g \in Nat, h \in Nat : g = f * i /\ h = f * q
    OBVIOUS
  <2>4. g + f <= n + 1 - h - f /\ s = h + r
    BY <1>3, <2>1, <2>2, <2>3
  <2>5. b + s + g + j \in b .. (b + n)
    BY <2>4
  <2>6. QED
    BY <2>3, <2>5
<1>10. places \subseteq b .. (b + n)
  <2>1. SUFFICES ASSUME NEW i \in Cell, NEW place \in cells'[i] PROVE place \in b .. (b + n)
    OBVIOUS
  <2>2. i < m - q - 1 /\ place \in Places(i)
    BY <1>7, <2>1
  <2>3. i \in 0 .. (m - q - 2)
    BY <1>4, <1>8, <2>2
  <2>4. QED
    BY <1>9, <2>2, <2>3
<1>11. CASE q = m - 1
  <2>1. \A i \in Cell : cells'[i] = {}
    BY <1>7, <1>8, <1>11
  <2>2. QED
    BY <2>1 DEF HeatmapInWindow
<1>12. CASE q # m - 1
  <2>1. m - q - 2 \in Cell /\ m - q - 2 < m - q - 1
    BY <1>4, <1>8, <1>12
  <2>2. PICK place \in Int : place = b + s + f * (m - q - 2) + (f - 1)
    BY <1>4
  <2>3. place \in cells'[m - q - 2]
    BY <1>7, <2>1, <2>2
  <2>4. place + 2 * f > b + n
    <3>1. f * (m - q - 2) = n + 1 - f * q - 2 * f
      BY <1>1
    <3>2. PICK g \in Int, h \in Int : g = f * (m - q - 2) /\ h = f * q
      OBVIOUS
    <3>3. g = n + 1 - h - 2 * f
      BY <3>1, <3>2
    <3>4. s = h + r
      BY <1>3, <3>2
    <3>5. place = b + s + g + f - 1
      BY <2>2, <3>2
    <3>6. QED
      BY <3>3, <3>4, <3>5
  <2>5. QED
    BY <1>1, <1>10, <2>1, <2>3, <2>4 DEF HeatmapInWindow
<1>13. QED
  BY <1>11, <1>12

\* The rows and the plots leave a heatmap alone.
LEMMA RowsKeepHeat ==
  ASSUME HeatInv, IInv', UNCHANGED heat, AscendInv', AxisInv'
  PROVE  HeatInv'
BY DEF HeatInv, heat, HeatmapInWindow

\* The window stays, and what is pushed follows.
LEMMA WindowKept ==
  ASSUME HeatInv, Times' = Times, UNCHANGED heat,
         pc' # "idle" => /\ Follows(Times[Size], mpData[mSecond])'
                         /\ mpData'[mSecond'] <= refreshed + MaxLag
  PROVE  AscendInv' /\ AxisInv'
<1>1. refreshed' = refreshed /\ mCurrentX' = mCurrentX
  BY DEF heat
<1>2. AscendInv'
  BY <1>1 DEF HeatInv, AscendInv, Follows
<1>3. AxisInv'
  BY <1>1 DEF HeatInv, AxisInv
<1>4. QED
  BY <1>2, <1>3

\* A row is collected.
LEMMA CollectKept ==
  ASSUME HeatInv, NEW d \in Interval, Collect(d)
  PROVE  HeatInv'
<1> USE SizeAssumption
<1>1. PICK v \in Value : v = LastX + d /\ v <= refreshed + MaxLag /\ PushData(v)
  <2>1. LastX \in Nat
    BY TimesShown DEF HeatInv
  <2>2. LastX + d \in Value
    BY <2>1, TimeAssumption DEF Collect
  <2>3. QED
    BY <2>2 DEF Collect
<1>2. IInv'
  <2>1. [Next]_vars
    BY <1>1 DEF Next, PushBack
  <2>2. QED
    BY <2>1, NextInv DEF HeatInv
<1>3. Times' = Times
  BY <1>1, PushKeepsWindow DEF HeatInv, Times
<1>4. mpData'[mSecond'] = v
  BY <1>1 DEF PushData, HeatInv, IInv, TypeOK, Index
<1>5. Follows(Times[Size], mpData[mSecond])'
  BY <1>1, <1>3, <1>4, TimesShown DEF Follows, HeatInv
<1>6. UNCHANGED heat
  BY DEF Collect
<1>7. QED
  BY <1>1, <1>2, <1>3, <1>4, <1>5, <1>6, WindowKept, RowsKeepHeat

\* Its time is copied to the first third.
LEMMA MirrorKept ==
  ASSUME HeatInv, PushMirror, UNCHANGED heat
  PROVE  HeatInv'
<1> USE SizeAssumption
<1>1. IInv'
  <2>1. [Next]_vars
    BY DEF Next, PushBack
  <2>2. QED
    BY <2>1, NextInv DEF HeatInv
<1>2. Times' = Times
  BY PushKeepsWindow DEF HeatInv, Times
<1>3. mpData'[mSecond'] = mpData[mSecond]
  BY DEF PushMirror, HeatInv, IInv, TypeOK, Index, FirstInv
<1>4. Follows(Times[Size], mpData[mSecond]) /\ mpData[mSecond] <= refreshed + MaxLag
  BY DEF HeatInv, AscendInv, PushMirror
<1>5. Follows(Times[Size], mpData[mSecond])'
  BY <1>2, <1>3, <1>4 DEF Follows
<1>6. QED
  BY <1>1, <1>2, <1>3, <1>4, <1>5, WindowKept, RowsKeepHeat

\* The window moves on by a row.
LEMMA AdvanceKept ==
  ASSUME HeatInv, PushAdvance, UNCHANGED heat
  PROVE  HeatInv'
<1> USE RateFacts
<1>1. IInv'
  <2>1. [Next]_vars
    BY DEF Next, PushBack
  <2>2. QED
    BY <2>1, NextInv DEF HeatInv
<1>2. PICK v \in Nat : v = mpData[mSecond]
  BY TimeAssumption DEF HeatInv, IInv, TypeOK, Index
<1>3. /\ \A j \in 1 .. (Size - 1) : Times'[j] = Times[j + 1]
      /\ Times'[Size] = v
  BY <1>2, AdvanceWindow DEF HeatInv, Times
<1>4. /\ pc' = "idle" /\ Follows(Times[Size], v) /\ v <= refreshed + MaxLag
      /\ refreshed' = refreshed /\ mCurrentX' = mCurrentX
  BY <1>2 DEF PushAdvance, HeatInv, AscendInv, heat
<1>5. \A j \in 1 .. Size : Times[j] \in Nat
  BY TimesShown DEF HeatInv
<1>6. (Times[Size] = 0 /\ v = 0) \/ Times[Size] + DataSamplingRate <= v
  BY <1>4, <1>5, TimeAssumption, RateFacts DEF Follows
<1>7. ASSUME NEW j \in 1 .. Size, NEW k \in 1 .. Size, j < k
      PROVE  Times'[j] = 0 \/ Times'[j] + (k - j) * DataSamplingRate <= Times'[k]
  <2>1. CASE k < Size
    <3>1. /\ j + 1 \in 1 .. Size /\ k + 1 \in 1 .. Size /\ j + 1 < k + 1
          /\ (k + 1) - (j + 1) = k - j
      BY <1>7, <2>1
    <3>2. Times'[j] = Times[j + 1] /\ Times'[k] = Times[k + 1]
      BY <1>3, <1>7, <2>1
    <3>3. QED
      BY <3>1, <3>2 DEF HeatInv, AscendInv
  <2>2. CASE k = Size /\ j = Size - 1
    <3>1. Times'[j] = Times[Size] /\ Times'[k] = v
      BY <1>3, <1>7, <2>2
    <3>2. (k - j) * DataSamplingRate = DataSamplingRate
      BY <2>2, RateFacts
    <3>3. QED
      BY <1>5, <1>6, <3>1, <3>2
  <2>3. CASE k = Size /\ j < Size - 1
    <3>1. PICK x \in Nat, y \in Nat : /\ x = Times[j + 1] /\ y = Times[Size]
                                       /\ x = Times'[j] /\ v = Times'[k]
      BY <1>3, <1>5, <2>3
    <3>2. x = 0 \/ x + (Size - (j + 1)) * DataSamplingRate <= y
      <4>1. j + 1 \in 1 .. Size /\ Size \in 1 .. Size /\ j + 1 < Size
        BY <2>3
      <4>2. QED
        BY <3>1, <4>1 DEF HeatInv, AscendInv
    <3>3. PICK g \in Nat : g = (Size - (j + 1)) * DataSamplingRate
      <4>1. Size - (j + 1) \in Nat
        BY <2>3
      <4>2. QED
        BY <4>1, RateFacts
    <3>4. (k - j) * DataSamplingRate = g + DataSamplingRate
      BY <2>3, <3>3, RateFacts
    <3>5. x = 0 \/ x + (g + DataSamplingRate) <= v
      BY <1>6, <3>1, <3>2, <3>3, RateFacts
    <3>6. QED
      BY <3>1, <3>4, <3>5
  <2>4. QED
    BY <1>7, <2>1, <2>2, <2>3
<1>8. Follows(Times[Size - 1], Times[Size])'
  <2>1. Times'[Size - 1] = Times[Size] /\ Times'[Size] = v
    BY <1>3
  <2>2. QED
    BY <1>4, <2>1 DEF Follows
<1>9. AscendInv'
  BY <1>4, <1>7, <1>8 DEF AscendInv
<1>10. AxisInv'
  <2>1. Times'[Size - 1] = Times[Size] /\ Times'[Size] = v
    BY <1>3
  <2>2. Times[Size - 1] <= Times[Size] /\ Times[Size] <= v
    <3>1. (Times[Size - 1] = 0 /\ Times[Size] = 0) \/ Times[Size - 1] <= Times[Size]
      BY <1>5, TimeAssumption DEF HeatInv, AscendInv, Follows
    <3>2. QED
      BY <1>5, <1>6, <3>1, RateFacts
  <2>3. Times[Size - 1] \in Nat /\ Times[Size] \in Nat
    BY <1>5
  <2>4. QED
    BY <1>4, <2>1, <2>2, <2>3 DEF HeatInv, AxisInv
<1>11. QED
  BY <1>1, <1>9, <1>10, RowsKeepHeat

\* A reset: the times begin again, the axis is moved back by the next refresh.
LEMMA RestartKept ==
  ASSUME HeatInv, Restart
  PROVE  HeatInv'
<1> USE RateFacts
<1>1. IInv'
  <2>1. [Next]_vars
    BY DEF Next, Restart
  <2>2. QED
    BY <2>1, NextInv DEF HeatInv
<1>2. \A j \in 1 .. Size : Times'[j] = 0
  BY <1>1, TimeAssumption DEF Restart, Reset, Times, From, DataPtr, IInv, TypeOK, Index
<1>3. pc' = "idle" /\ refreshed' = 0 /\ mCurrentX' = mCurrentX
  BY DEF Restart, Reset
<1>4. AscendInv'
  <2>1. \A j, k \in 1 .. Size : j < k => Times'[j] = 0
    BY <1>2
  <2>2. Follows(Times[Size - 1], Times[Size])'
    BY <1>2 DEF Follows
  <2>3. QED
    BY <1>3, <2>1, <2>2 DEF AscendInv
<1>5. AxisInv'
  <2>1. Times'[Size] = 0
    BY <1>2
  <2>2. QED
    BY <1>3, <2>1, TimeAssumption, RateFacts DEF HeatInv, AxisInv
<1>6. QED
  BY <1>1, <1>4, <1>5 DEF HeatInv, Restart, HeatmapInWindow

\* A refresh begins: the axis is moved and the mark found.
LEMMA RefreshKept ==
  ASSUME HeatInv, UpdateCurrentX
  PROVE  HeatInv'
<1> USE RateFacts
<1>1. IInv'
  <2>1. [Next]_vars
    BY DEF UpdateCurrentX
  <2>2. QED
    BY <2>1, NextInv DEF HeatInv
<1>2. /\ Times' = Times /\ pc' = pc /\ mpData' = mpData /\ mSecond' = mSecond
      /\ mCurrentX' = MovedX /\ refreshed' = LastX
  BY DEF UpdateCurrentX, vars, buffer, Times, From, DataPtr
<1>3. PICK x \in Nat, y \in Nat : /\ x = Times[Size - 1] /\ y = Times[Size]
                                   /\ x = X(showSamples) /\ y = LastX
  BY TimesShown DEF HeatInv
<1>4. MovedX \in Nat /\ MovedX <= x /\ x <= MovedX + Shift
  BY <1>3, AxisMoves DEF HeatInv
<1>5. refreshed \in Nat /\ refreshed <= y /\ y <= refreshed + MaxLag
  BY <1>3 DEF HeatInv, AxisInv
<1>6. (x = 0 /\ y = 0) \/ \E d \in Interval : y = x + d
  BY <1>3 DEF HeatInv, AscendInv, Follows
<1>7. AscendInv'
  <2>1. pc # "idle" => Follows(y, mpData[mSecond]) /\ mpData[mSecond] <= y + MaxLag
    <3>1. ASSUME pc # "idle"
          PROVE  Follows(y, mpData[mSecond]) /\ mpData[mSecond] <= refreshed + MaxLag
      BY <1>3, <3>1 DEF HeatInv, AscendInv
    <3>2. mpData[mSecond] \in Nat
      BY TimeAssumption DEF HeatInv, IInv, TypeOK, Index
    <3>3. QED
      BY <1>5, <3>1, <3>2, TimeAssumption
  <2>2. QED
    BY <1>2, <1>3, <2>1 DEF HeatInv, AscendInv, Follows
<1>8. AxisInv'
  <2>1. y + MaxLag <= MovedX + 2 * Shift + DataSamplingRate
    BY <1>4, <1>6, TimeAssumption, RateFacts
  <2>2. y <= y + MaxLag
    BY TimeAssumption
  <2>3. QED
    BY <1>2, <1>3, <1>4, <2>1, <2>2 DEF AxisInv
<1>9. mIndexCurrentX' \in Offset .. showSamples /\ refresh' = "data" /\ cells' = cells
  BY MarkFound DEF HeatInv, UpdateCurrentX
<1>10. QED
  BY <1>1, <1>7, <1>8, <1>9 DEF HeatInv, HeatmapInWindow

\* Every step of the heatmap and of its rows keeps the invariant.
LEMMA HeatStep == HeatInv /\ [HNext]_hvars => HeatInv'
<1> SUFFICES ASSUME HeatInv, [HNext]_hvars PROVE HeatInv'
  OBVIOUS
<1>1. ASSUME NEW d \in Interval, Collect(d) PROVE HeatInv'
  BY <1>1, CollectKept
<1>2. CASE GoOn
  BY <1>2, MirrorKept, AdvanceKept DEF GoOn
<1>3. CASE Restart
  BY <1>3, RestartKept
<1>4. CASE UpdateCurrentX
  BY <1>4, RefreshKept
<1>5. ASSUME [Next]_vars, UNCHANGED buffer, pc' = pc,
             UNCHANGED <<mCurrentX, refreshed>>
      PROVE  IInv' /\ AscendInv' /\ AxisInv'
  <2>1. IInv'
    BY <1>5, NextInv DEF HeatInv
  <2>2. Times' = Times
    BY <1>5 DEF buffer, Times, From, DataPtr
  <2>3. QED
    BY <1>5, <2>1, <2>2 DEF HeatInv, AscendInv, AxisInv, Follows, buffer
<1>6. CASE TakePointer
  <2>1. [Next]_vars /\ UNCHANGED buffer /\ pc' = pc /\ UNCHANGED heat
    BY <1>6 DEF TakePointer, TakeDataPtr, Next
  <2>2. QED
    BY <1>5, <2>1, RowsKeepHeat DEF heat
<1>7. CASE UpdateHeatmapData
  <2>1. [Next]_vars /\ UNCHANGED buffer /\ pc' = pc /\ UNCHANGED <<mCurrentX, refreshed>>
    BY <1>7 DEF UpdateHeatmapData, vars
  <2>2. HeatmapInWindow' /\ refresh' = "idle"
    BY <1>7, CellsFilled DEF HeatInv, UpdateHeatmapData
  <2>3. QED
    BY <1>5, <2>1, <2>2 DEF HeatInv
<1>8. CASE UNCHANGED hvars
  <2>1. [Next]_vars /\ UNCHANGED buffer /\ pc' = pc /\ UNCHANGED heat
    BY <1>8 DEF hvars, vars
  <2>2. QED
    BY <1>5, <2>1, RowsKeepHeat DEF heat
<1>9. QED
  BY <1>1, <1>2, <1>3, <1>4, <1>6, <1>7, <1>8 DEF HNext

LEMMA HeatInitInv == HInit => HeatInv
<1> SUFFICES ASSUME HInit PROVE HeatInv
  OBVIOUS
<1> USE RateFacts
<1>1. IInv
  BY InitInv DEF HInit
<1>2. \A j \in 1 .. Size : Times[j] = 0
  BY TimeAssumption DEF HInit, Init, Times, From, DataPtr, Index
<1>3. AscendInv
  <2>1. \A j, k \in 1 .. Size : j < k => Times[j] = 0
    BY <1>2
  <2>2. Follows(Times[Size - 1], Times[Size])
    BY <1>2 DEF Follows
  <2>3. QED
    BY <2>1, <2>2 DEF AscendInv, HInit, Init
<1>4. AxisInv
  <2>1. Times[Size] = 0
    BY <1>2
  <2>2. QED
    BY <2>1, TimeAssumption, RateFacts DEF AxisInv, HInit
<1>5. HeatmapInWindow
  BY DEF HInit, HeatmapInWindow
<1>6. QED
  BY <1>1, <1>3, <1>4, <1>5 DEF HeatInv, HInit

\* A heatmap shows samples of the window, however the rows come, and ends
\* with its newest ones; the third of a sampling interval that is allowed for
\* the mark is just what the settings need.
THEOREM HeatmapsInWindow == HSpec => []HeatmapInWindow
<1>1. HeatInv => HeatmapInWindow
  BY DEF HeatInv
<1>2. QED
  BY HeatInitInv, HeatStep, <1>1, PTL DEF HSpec

-----------------------------------------------------------------------------
(* The way of a row to the client.                                         *)

\* A sequence of a known set is continued by an element.
LEMMA OneMore ==
  ASSUME NEW E, NEW s \in Seq(E), NEW i \in 1 .. Len(s)
  PROVE  Append(SubSeq(s, 1, i - 1), s[i]) = SubSeq(s, 1, i)
<1>1. Len(s) \in Nat /\ i \in Nat /\ i - 1 \in Nat
  BY LenProperties
<1>2. \A j \in 1 .. i : s[j] \in E
  BY <1>1, ElementOfSeq
<1>3. PICK a : a = SubSeq(s, 1, i - 1)
  OBVIOUS
<1>4. /\ a \in Seq(E) /\ Len(a) = i - 1
      /\ \A j \in 1 .. i - 1 : a[j] = s[j]
  BY <1>1, <1>2, <1>3, SubSeqProperties
<1>5. PICK b : b = SubSeq(s, 1, i)
  OBVIOUS
<1>6. /\ b \in Seq(E) /\ Len(b) = i
      /\ \A j \in 1 .. i : b[j] = s[j]
  BY <1>1, <1>2, <1>5, SubSeqProperties
<1>7. PICK c : c = Append(a, s[i])
  OBVIOUS
<1>8. /\ c \in Seq(E) /\ Len(c) = i
      /\ \A j \in 1 .. i : c[j] = IF j = i THEN s[i] ELSE a[j]
  BY <1>1, <1>2, <1>4, <1>7, AppendProperties
<1>9. b = c
  BY <1>1, <1>4, <1>6, <1>8, SeqEqual
<1>10. QED
  BY <1>3, <1>5, <1>7, <1>9

\* The prefixes that Kept is computed by.
KeptBy(f, s, S) ==
  f = [i \in 0 .. Len(s) |->
         IF i = 0 THEN <<>>
         ELSE IF s[i] \in S THEN Append(f[i - 1], s[i]) ELSE f[i - 1]]

\* Of a sequence whose first m elements are in a set they are kept.
LEMMA KeptFirst ==
  ASSUME NEW E, NEW s \in Seq(E), NEW S, NEW m \in 0 .. Len(s),
         \A i \in 1 .. Len(s) : s[i] \in S <=> i <= m
  PROVE  Kept(s, S) = SubSeq(s, 1, m)
<1> DEFINE Min2(i) == IF i <= m THEN i ELSE m
<1>1. Len(s) \in Nat /\ m \in Nat
  BY LenProperties
<1>2. PICK f : f = [i \in 0 .. Len(s) |-> SubSeq(s, 1, Min2(i))]
  OBVIOUS
<1>3. ASSUME NEW i \in 0 .. Len(s)
      PROVE  f[i] = IF i = 0 THEN <<>>
                    ELSE IF s[i] \in S THEN Append(f[i - 1], s[i]) ELSE f[i - 1]
  <2>1. CASE i = 0
    <3>1. f[i] = SubSeq(s, 1, 0)
      BY <1>1, <1>2, <2>1
    <3>2. SubSeq(s, 1, 0) = <<>>
      BY SubSeqEmpty
    <3>3. QED
      BY <2>1, <3>1, <3>2
  <2>2. CASE i # 0 /\ i <= m
    <3>1. i \in 1 .. Len(s) /\ i - 1 \in 0 .. Len(s) /\ Min2(i) = i /\ Min2(i - 1) = i - 1
      BY <1>1, <2>2
    <3>2. f[i] = SubSeq(s, 1, i) /\ f[i - 1] = SubSeq(s, 1, i - 1)
      BY <1>2, <3>1
    <3>3. s[i] \in S
      BY <2>2, <3>1
    <3>4. QED
      BY <2>2, <3>1, <3>2, <3>3, OneMore
  <2>3. CASE i # 0 /\ i > m
    <3>1. i \in 1 .. Len(s) /\ s[i] \notin S /\ f[i] = SubSeq(s, 1, m) /\ f[i - 1] = SubSeq(s, 1, m)
      BY <1>1, <1>2, <2>3
    <3>2. QED
      BY <2>3, <3>1
  <2>4. QED
    BY <1>1, <2>1, <2>2, <2>3
<1>4. KeptBy(f, s, S)
  BY <1>2, <1>3 DEF KeptBy
<1>5. PICK g : g = CHOOSE h : KeptBy(h, s, S)
  OBVIOUS
<1>6. KeptBy(g, s, S) /\ Kept(s, S) = g[Len(s)]
  BY <1>4, <1>5 DEF KeptBy, Kept
<1>7. \A i \in 0 .. Len(s) : g[i] = f[i]
  <2> DEFINE T == {i \in 0 .. Len(s) : g[i] # f[i]}
  <2>1. SUFFICES ASSUME T # {} PROVE FALSE
    OBVIOUS
  <2>2. PICK k \in T : \A i \in T : k <= i
    <3>1. T \in SUBSET Nat
      OBVIOUS
    <3>2. QED
      BY <2>1, <3>1, Least
  <2>3. k \in 0 .. Len(s) /\ g[k] # f[k]
    OBVIOUS
  <2>4. k # 0
    BY <1>1, <1>4, <1>6, <2>3 DEF KeptBy
  <2>5. k - 1 \in 0 .. Len(s) /\ k - 1 \notin T
    BY <1>1, <2>2, <2>3, <2>4
  <2>6. g[k - 1] = f[k - 1]
    BY <2>5
  <2>7. g[k] = IF s[k] \in S THEN Append(g[k - 1], s[k]) ELSE g[k - 1]
    BY <1>6, <2>3, <2>4 DEF KeptBy
  <2>8. f[k] = IF s[k] \in S THEN Append(f[k - 1], s[k]) ELSE f[k - 1]
    BY <1>3, <2>3, <2>4
  <2>9. QED
    BY <2>3, <2>6, <2>7, <2>8
<1>8. f[Len(s)] = SubSeq(s, 1, m)
  <2>1. Len(s) \in 0 .. Len(s) /\ Min2(Len(s)) = m
    BY <1>1
  <2>2. QED
    BY <1>2, <2>1
<1>9. QED
  BY <1>1, <1>6, <1>7, <1>8

\* Nothing is lost where every element is kept.
LEMMA KeptAll ==
  ASSUME NEW E, NEW s \in Seq(E), NEW S, \A i \in 1 .. Len(s) : s[i] \in S
  PROVE  Kept(s, S) = s
<1>1. Len(s) \in Nat /\ Len(s) \in 0 .. Len(s)
  BY LenProperties
<1>2. \A i \in 1 .. Len(s) : s[i] \in S <=> i <= Len(s)
  BY <1>1
<1>3. Kept(s, S) = SubSeq(s, 1, Len(s))
  BY <1>1, <1>2, KeptFirst
<1>4. QED
  BY <1>3, SubSeqFull

\* enum DATA has 29 values.
LEMMA ValueSize == VALUESIZE = 29
BY DEF VALUESIZE, Data

\* The first byte on the wire is all ones, and the sign of it is read into
\* all other bits: the server sends every value whatever else is registered.
LEMMA EveryValueRegistered == 0 .. 30 \subseteq Registered
<1>1. PICK code : code = CreateDataCode(AddAll)
  OBVIOUS
<1>2. \A v \in 0 .. 7 : v \in code
  <2>1. SUFFICES ASSUME NEW v \in 0 .. 7 PROVE v \in code
    OBVIOUS
  <2>2. v \in Shifted({0}, v)
    BY <2>1 DEF Shifted, Widened
  <2>3. v + 1 \in DOMAIN AddAll /\ AddAll[v + 1] = v
    BY <2>1, ValueSize DEF AddAll
  <2>4. QED
    BY <1>1, <2>2, <2>3 DEF CreateDataCode
<1>3. Byte(code, 0) = 255
  <2>1. 2^0 = 1 /\ 2^1 = 2 /\ 2^2 = 4 /\ 2^3 = 8 /\ 2^4 = 16 /\ 2^5 = 32 /\ 2^6 = 64 /\ 2^7 = 128
    OBVIOUS
  <2>2. QED
    BY <1>2, <2>1 DEF Byte
<1>4. RegMsg(code)[1] = 19
  BY <1>3 DEF RegMsg
<1>5. IntBits(Signed(19) - 20) = 0 .. 31
  <2>1. Signed(19) - 20 = -1
    BY DEF Signed
  <2>2. \A b \in 0 .. 7 : b \in BitsOf(255)
    <3>1. 2^0 = 1 /\ 2^1 = 2 /\ 2^2 = 4 /\ 2^3 = 8 /\ 2^4 = 16 /\ 2^5 = 32 /\ 2^6 = 64 /\ 2^7 = 128
      OBVIOUS
    <3>2. SUFFICES ASSUME NEW b \in 0 .. 7 PROVE (255 \div 2^b) % 2 = 1
      BY DEF BitsOf
    <3>3. b = 0 \/ b = 1 \/ b = 2 \/ b = 3 \/ b = 4 \/ b = 5 \/ b = 6 \/ b = 7
      BY <3>2
    <3>4. /\ (255 \div 1) % 2 = 1 /\ (255 \div 2) % 2 = 1 /\ (255 \div 4) % 2 = 1
          /\ (255 \div 8) % 2 = 1 /\ (255 \div 16) % 2 = 1 /\ (255 \div 32) % 2 = 1
          /\ (255 \div 64) % 2 = 1 /\ (255 \div 128) % 2 = 1
      OBVIOUS
    <3>5. PICK p : p = 2^b
      OBVIOUS
    <3>6. p = 1 \/ p = 2 \/ p = 4 \/ p = 8 \/ p = 16 \/ p = 32 \/ p = 64 \/ p = 128
      <4>1. CASE b = 0 \/ b = 1
        BY <3>1, <3>5, <4>1
      <4>2. CASE b = 2 \/ b = 3
        BY <3>1, <3>5, <4>2
      <4>3. CASE b = 4 \/ b = 5
        BY <3>1, <3>5, <4>3
      <4>4. CASE b = 6 \/ b = 7
        BY <3>1, <3>5, <4>4
      <4>5. QED
        BY <3>3, <4>1, <4>2, <4>3, <4>4
    <3>7. (255 \div p) % 2 = 1
      BY <3>4, <3>6
    <3>8. QED
      BY <3>5, <3>7
  <2>3. BitsOf(255) = 0 .. 7
    BY <2>2 DEF BitsOf
  <2>4. IntBits(-1) = BitsOf(255) \cup 8 .. 31
    BY DEF IntBits
  <2>5. QED
    BY <2>1, <2>3, <2>4
<1>6. 0 .. 30 \subseteq Shifted(0 .. 31, 0)
  BY DEF Shifted, Widened
<1>7. Shifted(IntBits(Signed(RegMsg(code)[1]) - 20), (8 * (1 - 1)) % 32)
        \subseteq CheckData(RegMsg(code))
  BY DEF CheckData
<1>8. QED
  BY <1>1, <1>4, <1>5, <1>6, <1>7 DEF Registered

\* A sequence that is written element by element.
LEMMA Written ==
  ASSUME NEW E, NEW n \in Nat, NEW s, s = [i \in 1 .. n |-> s[i]], \A i \in 1 .. n : s[i] \in E
  PROVE  s \in Seq(E) /\ Len(s) = n /\ DOMAIN s = 1 .. n
<1>1. s \in [1 .. n -> E]
  OBVIOUS
<1>2. s \in Seq(E)
  BY <1>1, SeqDef
<1>3. QED
  BY <1>1, <1>2, LenProperties

\* The server sends the last values of all the names, in their order.
LEMMA AllValues ==
  ASSUME NEW last PROVE GetValues(Wanted, last) = [i \in 1 .. 29 |-> last[Data[i]]]
<1>1. PICK s : s = [i \in 1 .. 31 |-> i - 1]
  OBVIOUS
<1>2. s \in Seq(0 .. 30) /\ Len(s) = 31
  <2>1. s = [i \in 1 .. 31 |-> s[i]] /\ \A i \in 1 .. 31 : s[i] \in 0 .. 30
    BY <1>1
  <2>2. QED
    BY <2>1, Written
<1>3. Wanted = s
  <2>1. \A i \in 1 .. Len(s) : s[i] \in Registered
    BY <1>1, <1>2, EveryValueRegistered
  <2>2. Kept(s, Registered) = s
    BY <1>2, <2>1, KeptAll
  <2>3. QED
    BY <1>1, <2>2 DEF Wanted, ExtractData
<1>4. Kept(s, 0 .. 28) = SubSeq(s, 1, 29)
  <2>1. \A i \in 1 .. Len(s) : s[i] \in 0 .. 28 <=> i <= 29
    BY <1>1, <1>2
  <2>2. 29 \in 0 .. Len(s)
    BY <1>2
  <2>3. QED
    BY <1>2, <2>1, <2>2, KeptFirst
<1>5. PICK known : known = SubSeq(s, 1, 29)
  OBVIOUS
<1>6. DOMAIN known = 1 .. 29 /\ \A i \in 1 .. 29 : known[i] = i - 1
  <2>1. \A i \in 1 .. 29 : s[i] \in 0 .. 30
    BY <1>1
  <2>2. /\ known \in Seq(0 .. 30) /\ Len(known) = 29
        /\ \A i \in 1 .. 29 : known[i] = s[i]
    BY <1>5, <2>1, SubSeqProperties
  <2>3. QED
    BY <1>1, <2>2, LenProperties
<1>7. GetValues(Wanted, last) = [i \in DOMAIN known |-> last[Data[known[i] + 1]]]
  BY <1>3, <1>4, <1>5, ValueSize DEF GetValues
<1>8. QED
  BY <1>6, <1>7

\* The last value of each name, in the order of the enumeration.
Sent(last) == [i \in 1 .. 29 |-> last[Data[i]]]

\* What a client receives: the values, and all the strings behind them.
LEMMA ReceivedIs ==
  ASSUME NEW last, NEW E, NEW ps \in Seq(E), NEW signals \in Seq(E)
  PROVE  /\ Received(last, ps, signals).values = Sent(last)
         /\ Received(last, ps, signals).strings = ps \o signals
<1>0. PICK F : F = E \cup {last[Data[i]] : i \in 1 .. 29}
  OBVIOUS
<1>1. PICK v : v = [i \in 1 .. 29 |-> last[Data[i]]]
  OBVIOUS
<1>2. v \in Seq(F) /\ Len(v) = 29
  <2>1. v = [i \in 1 .. 29 |-> v[i]] /\ \A i \in 1 .. 29 : v[i] \in F
    BY <1>0, <1>1
  <2>2. QED
    BY <2>1, Written
<1>3. ps \in Seq(F) /\ signals \in Seq(F)
  BY <1>0, SeqMonotonic
<1>4. PICK w : w = ps \o signals
  OBVIOUS
<1>5. w \in Seq(F) /\ Len(w) \in Nat
  BY <1>3, <1>4, ConcatProperties, LenProperties
<1>6. CreateDataAnswer(Wanted, last, ps, signals) = v \o w
  <2>1. (v \o ps) \o signals = v \o (ps \o signals)
    BY <1>2, <1>3, ConcatAssociative
  <2>2. QED
    BY <1>1, <1>4, <2>1, AllValues DEF CreateDataAnswer
<1>7. PICK a : a = v \o w
  OBVIOUS
<1>8. /\ a \in Seq(F) /\ Len(a) = 29 + Len(w)
      /\ \A i \in 1 .. 29 : a[i] = v[i]
      /\ \A i \in 1 .. Len(w) : a[i + 29] = w[i]
  <2>1. /\ a \in Seq(F) /\ Len(a) = Len(v) + Len(w)
        /\ \A i \in 1 .. Len(v) + Len(w) : a[i] = IF i <= Len(v) THEN v[i] ELSE w[i - Len(v)]
    BY <1>2, <1>5, <1>7, ConcatProperties
  <2>2. PICK n \in Nat : n = Len(w)
    BY <1>5
  <2>3. ASSUME NEW i \in 1 .. 29 PROVE a[i] = v[i]
    <3>1. i \in 1 .. 29 + n /\ i <= 29
      BY <2>2, <2>3
    <3>2. QED
      BY <1>2, <2>1, <2>2, <3>1
  <2>4. ASSUME NEW i \in 1 .. n PROVE a[i + 29] = w[i]
    <3>1. i + 29 \in 1 .. 29 + n /\ ~(i + 29 <= 29) /\ i + 29 - 29 = i
      BY <2>2, <2>4
    <3>2. QED
      BY <1>2, <2>1, <2>2, <3>1
  <2>5. QED
    BY <1>2, <2>1, <2>2, <2>3, <2>4
<1>9. SubSeq(a, 1, 29) = v
  <2>1. PICK b : b = SubSeq(a, 1, 29)
    OBVIOUS
  <2>2. \A i \in 1 .. 29 : a[i] \in F
    BY <1>2, <1>8, ElementOfSeq
  <2>3. b \in Seq(F) /\ Len(b) = 29 /\ \A i \in 1 .. 29 : b[i] = a[i]
    BY <2>1, <2>2, SubSeqProperties
  <2>4. \A i \in 1 .. Len(b) : b[i] = v[i]
    BY <1>8, <2>3
  <2>5. b = v
    BY <1>2, <2>3, <2>4, SeqEqual
  <2>6. QED
    BY <2>1, <2>5
<1>10. SubSeq(a, 30, Len(a)) = w
  <2>1. PICK b : b = SubSeq(a, 30, Len(a))
    OBVIOUS
  <2>2. ASSUME NEW i \in 30 .. Len(a) PROVE a[i] \in F
    <3>1. i \in 1 .. Len(a)
      BY <1>5, <1>8
    <3>2. QED
      BY <1>8, <3>1, ElementOfSeq
  <2>3. /\ b \in Seq(F) /\ Len(b) = Len(w)
        /\ \A i \in 1 .. Len(w) : b[i] = a[i + 29]
    <3>1. 30 \in Int /\ Len(a) \in Int /\ Len(a) - 30 + 1 = Len(w)
      BY <1>5, <1>8
    <3>2. /\ b \in Seq(F) /\ Len(b) = IF 30 <= Len(a) THEN Len(a) - 30 + 1 ELSE 0
          /\ \A i \in 1 .. Len(a) - 30 + 1 : b[i] = a[30 + i - 1]
      BY <2>1, <2>2, <3>1, SubSeqProperties
    <3>3. QED
      BY <1>5, <3>1, <3>2
  <2>4. \A i \in 1 .. Len(w) : b[i] = w[i]
    BY <1>8, <2>3
  <2>5. QED
    BY <1>5, <2>1, <2>3, <2>4, SeqEqual
<1>11. QED
  <2>1. ~(Len(a) < 29)
    BY <1>5, <1>8
  <2>2. GetData(a) = [values |-> SubSeq(a, 1, 29), strings |-> SubSeq(a, 30, Len(a))]
    BY <2>1 DEF GetData
  <2>3. Received(last, ps, signals) = [values |-> v, strings |-> w]
    BY <1>6, <1>7, <1>9, <1>10, <2>2 DEF Received
  <2>4. Received(last, ps, signals).values = v /\ Received(last, ps, signals).strings = w
    BY <2>3
  <2>5. QED
    BY <1>1, <1>4, <2>4 DEF Sent

\* The number of a name is its place in the enumeration.
LEMMA NumberIs ==
  ASSUME NEW b \in Names
  PROVE  /\ Number(b) \in 0 .. 28 /\ Number(b) + 1 \in 1 .. 29
         /\ Data[Number(b) + 1] = b
<1>1. Names = {Data[i] : i \in 1 .. 29}
  <2>1. DOMAIN Data = 1 .. 29
    BY DEF Data
  <2>2. QED
    BY <2>1 DEF Names, ToSet
<1>2. PICK i \in 1 .. 29 : Data[i] = b
  BY <1>1
<1>3. i - 1 \in 0 .. 28 /\ Data[(i - 1) + 1] = b
  BY <1>2
<1>4. PICK v : v = CHOOSE k \in 0 .. 28 : Data[k + 1] = b
  OBVIOUS
<1>5. v \in 0 .. 28 /\ Data[v + 1] = b
  BY <1>3, <1>4
<1>6. Number(b) = v
  BY <1>4, ValueSize DEF Number, Numbers, Names
<1>7. QED
  BY <1>5, <1>6

\* The rows a server may answer with.
RowSet == [time : 1 .. MaxRows, level : Level]

\* A client finds the value of every name at the place of its number: the code
\* of the wanted values, its characters on the wire, the answer and its parsing
\* lose and exchange none (CProtocol.cpp, CProtocolC.cpp, CProtocolS.cpp).
THEOREM RowIs ==
  ASSUME NEW r \in RowSet, NEW b \in Names
  PROVE  Row(r)[Number(b) + 1] = Sample(b, r)
<1>1. Row(r) = Received(LastOf(r), <<>>, <<>>).values
  BY DEF Row, Rows, RowSet
<1>2. PICK E, empty : empty = <<>> /\ empty \in Seq(E)
  <2>1. <<>> \in Seq({})
    BY EmptySeq
  <2>2. QED
    BY <2>1
<1>3. PICK last : last = LastOf(r)
  OBVIOUS
<1>4. Received(last, empty, empty).values = Sent(last)
  BY <1>2, ReceivedIs
<1>5. Row(r)[Number(b) + 1] = last[b]
  <2>1. PICK k : k = Number(b) + 1
    OBVIOUS
  <2>2. k \in 1 .. 29 /\ Data[k] = b
    BY <2>1, NumberIs
  <2>3. Row(r) = [i \in 1 .. 29 |-> last[Data[i]]]
    BY <1>1, <1>2, <1>3, <1>4 DEF Sent
  <2>4. QED
    BY <2>1, <2>2, <2>3
<1>6. QED
  BY <1>3, <1>5 DEF LastOf

\* The client takes all that signals for signals.
LEMMA SignalsAre ==
  ASSUME NEW E, NEW s \in Seq(E), \A i \in 1 .. Len(s) : s[i].kind \in {"y", "z"}
  PROVE  ExtractAppSignals(s) = s
<1>1. DOMAIN s = 1 .. Len(s)
  BY LenProperties
<1>2. PICK S : S = {x \in ToSet(s) : x.kind \in {"y", "z"}}
  OBVIOUS
<1>3. \A i \in 1 .. Len(s) : s[i] \in S
  BY <1>1, <1>2 DEF ToSet
<1>4. QED
  BY <1>2, <1>3, KeptAll DEF ExtractAppSignals

-----------------------------------------------------------------------------
(* The invariant of the window and of a plot.                              *)

\* A sequence, whatever it is of.
IsSeq(s) == Len(s) \in Nat /\ s = [i \in 1 .. Len(s) |-> s[i]]

\* The strings of applications; the settings a user may choose.
Signals == [kind : {"y", "z"}, pid : Nat \X Nat]
Settings == [maxData : MaxData, mean : Intervals \cup {2}, median : Intervals \cup {2},
             rate : GuiRate \cup {1000}]

\* What the variables hold.
WindowTypes ==
  /\ kind \in Views /\ set \in Settings /\ shown \in Nat /\ boxes \in Seq(Nat)
  /\ mpTimer \in BOOLEAN /\ connected \in BOOLEAN /\ steady \in BOOLEAN /\ calm \in BOOLEAN
  /\ mValues \in [row : RowSet \cup {None}, filled : BOOLEAN]
  /\ server \in [up : BOOLEAN, mApplications : Seq(Signals)]
  /\ crashed \in {"no", "values", "erase"}
  /\ rows \in Nat /\ stops \in Nat
  /\ {got, all, answered} \subseteq Seq(RowSet)

\* What has been answered and what the view has taken of it.
HistoryInv ==
  /\ mValues.row # None => mValues.row.time = rows
  /\ \A k \in 1 .. Len(got) : got[k].time <= rows
  /\ \A k \in 1 .. Len(got) - 1 : got[k].time <= got[k + 1].time
  /\ answered # <<>> =>
       /\ mValues.row = answered[Len(answered)]
       /\ \A k \in 1 .. Len(got) : \E j \in 1 .. Len(answered) : got[k] = answered[j]
  /\ answered = <<>> /\ mpTimer => got = <<>> /\ boxes = <<>>
  /\ calm => boxes = <<>> /\ shown = 1
  /\ calm /\ Running /\ kind # "Overview" => got = answered

\* The server has stopped where there is no answer.
ServerInv ==
  /\ ~server.up \/ (mpTimer /\ ~connected) => stops > 0
  /\ boxes # <<>> /\ mValues.row = None => stops > 0
  /\ crashed = "values" => stops > 0

\* The vectors of a plot are as long as they should be.
Curves == ToSet(Plot[kind].init.curves)
\* The fields of a plot; how many means there are for T rows.
Fields == {"times", "values", "mean", "median", "min", "max", "ex", "apps",
           "currentAppSize", "markers"}
Filtered(T, n) == IF T > n THEN T - n ELSE 0
\* Means and medians of a steady plot begin with the row behind their interval.
Lengths(p) ==
  LET T == Len(p.times) IN
  /\ DOMAIN p = Fields /\ IsSeq(p.times)
  /\ {DOMAIN p.values, DOMAIN p.mean, DOMAIN p.median} = {Curves}
  /\ \A c \in Curves :
       /\ IsSeq(p.values[c]) /\ IsSeq(p.mean[c]) /\ IsSeq(p.median[c])
       /\ Len(p.values[c]) = T
       /\ steady => /\ Len(p.mean[c]) = Filtered(T, NumValues(set.mean, set.rate))
                    /\ Len(p.median[c]) = Filtered(T, NumValues(set.median, set.rate))
LengthsInv ==
  /\ kind \in Kinds => Lengths(view)
  /\ steady => SafeSettings(set)
  /\ crashed = "erase" => ~steady

\* The markers are those of the first applications that signalled.
Begins(s, t) == IsSeq(s) /\ Len(s) <= Len(t) /\ \A i \in 1 .. Len(s) : s[i] = t[i]
MarkersInv ==
  kind \in Kinds /\ stops = 0 =>
    /\ Begins(view.markers, view.apps) /\ Len(view.markers) = view.currentAppSize
    /\ Begins(view.apps, server.mApplications)
    /\ boxes # <<>> => Begins(strings, server.mApplications) /\ Begins(view.apps, strings)

ClientInv == WindowTypes /\ HistoryInv /\ ServerInv /\ LengthsInv /\ MarkersInv

-----------------------------------------------------------------------------
(* Sequences of anything.                                                  *)

\* A sequence over a set is one.
LEMMA SeqIs ==
  ASSUME NEW E, NEW s \in Seq(E) PROVE IsSeq(s)
<1>1. Len(s) \in Nat /\ s \in [1 .. Len(s) -> E]
  BY LenProperties
<1>2. QED
  BY <1>1 DEF IsSeq

\* And it is one over some set.
LEMMA IsSeqOf ==
  ASSUME NEW s, IsSeq(s)
  PROVE  \E E : s \in Seq(E)
<1>1. PICK n \in Nat : n = Len(s)
  BY DEF IsSeq
<1>2. PICK E : E = {s[i] : i \in 1 .. n}
  OBVIOUS
<1>3. s = [i \in 1 .. n |-> s[i]] /\ \A i \in 1 .. n : s[i] \in E
  BY <1>1, <1>2 DEF IsSeq
<1>4. s \in [1 .. n -> E]
  BY <1>3
<1>5. QED
  BY <1>4, SeqDef

\* The empty one.
LEMMA EmptyIs == IsSeq(<<>>) /\ Len(<<>>) = 0
<1>1. <<>> \in Seq({}) /\ Len(<<>>) = 0
  BY EmptySeq
<1>2. QED
  BY <1>1, SeqIs

\* What an append makes.
LEMMA AppendIs ==
  ASSUME NEW s, IsSeq(s), NEW e
  PROVE  /\ IsSeq(Append(s, e)) /\ Len(Append(s, e)) = Len(s) + 1
         /\ \A i \in 1 .. Len(s) : Append(s, e)[i] = s[i]
         /\ Append(s, e)[Len(s) + 1] = e
<1>1. PICK E : s \in Seq(E)
  BY IsSeqOf
<1>2. PICK F : F = E \cup {e}
  OBVIOUS
<1>3. s \in Seq(F) /\ e \in F
  BY <1>1, <1>2, SeqMonotonic
<1>4. PICK a : a = Append(s, e)
  OBVIOUS
<1>5. /\ a \in Seq(F) /\ Len(a) = Len(s) + 1
      /\ \A i \in 1 .. Len(s) + 1 : a[i] = IF i = Len(s) + 1 THEN e ELSE s[i]
  BY <1>3, <1>4, AppendProperties
<1>6. PICK n \in Nat : n = Len(s)
  BY DEF IsSeq
<1>7. /\ \A i \in 1 .. n : a[i] = s[i]
      /\ a[n + 1] = e
  BY <1>5, <1>6
<1>8. IsSeq(a)
  BY <1>5, SeqIs
<1>9. QED
  BY <1>4, <1>5, <1>6, <1>7, <1>8

\* What is left of a sequence without its first n elements.
LEMMA RestIs ==
  ASSUME NEW s, IsSeq(s), NEW n \in Nat
  PROVE  /\ IsSeq(SubSeq(s, n + 1, Len(s)))
         /\ Len(SubSeq(s, n + 1, Len(s))) = Filtered(Len(s), n)
         /\ \A i \in 1 .. Len(s) - n : SubSeq(s, n + 1, Len(s))[i] = s[n + i]
<1>1. PICK E : s \in Seq(E)
  BY IsSeqOf
<1>2. PICK m \in Nat : m = Len(s)
  BY DEF IsSeq
<1>3. ASSUME NEW i \in n + 1 .. m PROVE s[i] \in E
  <2>1. i \in 1 .. Len(s)
    BY <1>2, <1>3
  <2>2. QED
    BY <1>1, <2>1, ElementOfSeq
<1>4. PICK r : r = SubSeq(s, n + 1, m)
  OBVIOUS
<1>5. /\ r \in Seq(E)
      /\ Len(r) = IF n + 1 <= m THEN m - (n + 1) + 1 ELSE 0
      /\ \A i \in 1 .. m - (n + 1) + 1 : r[i] = s[n + 1 + i - 1]
  <2>1. n + 1 \in Int /\ m \in Int
    OBVIOUS
  <2>2. QED
    BY <1>3, <1>4, <2>1, SubSeqProperties
<1>6. Len(r) = Filtered(m, n)
  BY <1>5 DEF Filtered
<1>7. ASSUME NEW i \in 1 .. m - n PROVE r[i] = s[n + i]
  <2>1. i \in 1 .. m - (n + 1) + 1 /\ n + 1 + i - 1 = n + i
    BY <1>7
  <2>2. QED
    BY <1>5, <2>1
<1>8. QED
  BY <1>2, <1>4, <1>5, <1>6, <1>7, SeqIs

-----------------------------------------------------------------------------
(* The plots.                                                              *)

\* Each plot draws, erases and pushes the curves it makes.
WellNamed(names) ==
  LET C == ToSet(names.init.curves) IN
  /\ "Cpu0" \in C /\ names.erased = C
  /\ DOMAIN names.pushed = C
  /\ \A c \in C : names.pushed[c] \in Names
  /\ names.extremes.of \in Seq(C) /\ names.extremes.into \in Seq(C)
  /\ Len(names.extremes.of) \in Nat
  /\ Len(names.extremes.into) = Len(names.extremes.of)

\* Each of the five plots names the same curves in all its functions.
LEMMA PlotsWellNamed == kind \in Kinds => WellNamed(Plot[kind])
<1>1. CASE kind = "Power"
  <2>1. Plot[kind] =
          [init |-> PowerInit, drawn |-> PowerDrawn, shown |-> PowerShown,
           shownMax |-> PowerShownMax, shownMin |-> PowerShownMin,
           erased |-> PowerErased, pushed |-> PowerPushed,
           extremes |-> PowerExtremes, pens |-> PowerPens]
    BY <1>1 DEF Plot, PlotOf, Kinds
  <2>2. ToSet(PowerInit.curves) = PowerErased
    BY DEF PowerInit, PowerErased, ToSet
  <2>3. PowerExtremes.of \in Seq(PowerErased) /\ PowerExtremes.into \in Seq(PowerErased)
    BY DEF PowerExtremes, PowerErased
  <2>4. Len(PowerExtremes.of) = 6 /\ Len(PowerExtremes.into) = 6
    BY DEF PowerExtremes
  <2>5. DOMAIN PowerPushed = PowerErased /\ \A c \in PowerErased : PowerPushed[c] \in Names
    BY DEF PowerPushed, PowerErased, Names, Data, ToSet
  <2>6. QED
    BY <2>1, <2>2, <2>3, <2>4, <2>5 DEF WellNamed, PowerErased
<1>2. CASE kind = "Temperature"
  <2>1. Plot[kind] =
          [init |-> TemperatureInit, drawn |-> TemperatureDrawn, shown |-> TemperatureShown,
           shownMax |-> TemperatureShownMax, shownMin |-> TemperatureShownMin,
           erased |-> TemperatureErased, pushed |-> TemperaturePushed,
           extremes |-> TemperatureExtremes, pens |-> TemperaturePens]
    BY <1>2 DEF Plot, PlotOf, Kinds
  <2>2. ToSet(TemperatureInit.curves) = TemperatureErased
    BY DEF TemperatureInit, TemperatureErased, ToSet
  <2>3. /\ TemperatureExtremes.of \in Seq(TemperatureErased)
        /\ TemperatureExtremes.into \in Seq(TemperatureErased)
    BY DEF TemperatureExtremes, TemperatureErased
  <2>4. Len(TemperatureExtremes.of) = 7 /\ Len(TemperatureExtremes.into) = 7
    BY DEF TemperatureExtremes
  <2>5. /\ DOMAIN TemperaturePushed = TemperatureErased
        /\ \A c \in TemperatureErased : TemperaturePushed[c] \in Names
    BY DEF TemperaturePushed, TemperatureErased, Names, Data, ToSet
  <2>6. QED
    BY <2>1, <2>2, <2>3, <2>4, <2>5 DEF WellNamed, TemperatureErased
<1>3. CASE kind = "Clock"
  <2>1. Plot[kind] =
          [init |-> ClockInit, drawn |-> ClockDrawn, shown |-> ClockShown,
           shownMax |-> ClockShownMax, shownMin |-> ClockShownMin,
           erased |-> ClockErased, pushed |-> ClockPushed,
           extremes |-> ClockExtremes, pens |-> ClockPens]
    BY <1>3 DEF Plot, PlotOf, Kinds
  <2>2. ToSet(ClockInit.curves) = ClockErased
    BY DEF ClockInit, ClockErased, ToSet
  <2>3. ClockExtremes.of \in Seq(ClockErased) /\ ClockExtremes.into \in Seq(ClockErased)
    BY DEF ClockExtremes, ClockErased
  <2>4. Len(ClockExtremes.of) = 6 /\ Len(ClockExtremes.into) = 6
    BY DEF ClockExtremes
  <2>5. DOMAIN ClockPushed = ClockErased /\ \A c \in ClockErased : ClockPushed[c] \in Names
    BY DEF ClockPushed, ClockErased, Names, Data, ToSet
  <2>6. QED
    BY <2>1, <2>2, <2>3, <2>4, <2>5 DEF WellNamed, ClockErased
<1>4. CASE kind = "Util"
  <2>1. Plot[kind] =
          [init |-> UtilInit, drawn |-> UtilDrawn, shown |-> UtilShown,
           shownMax |-> UtilShownMax, shownMin |-> UtilShownMin,
           erased |-> UtilErased, pushed |-> UtilPushed,
           extremes |-> UtilExtremes, pens |-> UtilPens]
    BY <1>4 DEF Plot, PlotOf, Kinds
  <2>2. ToSet(UtilInit.curves) = UtilErased
    BY DEF UtilInit, UtilErased, ToSet
  <2>3. UtilExtremes.of \in Seq(UtilErased) /\ UtilExtremes.into \in Seq(UtilErased)
    BY DEF UtilExtremes, UtilErased
  <2>4. Len(UtilExtremes.of) = 5 /\ Len(UtilExtremes.into) = 5
    BY DEF UtilExtremes
  <2>5. DOMAIN UtilPushed = UtilErased /\ \A c \in UtilErased : UtilPushed[c] \in Names
    BY DEF UtilPushed, UtilErased, Names, Data, ToSet
  <2>6. QED
    BY <2>1, <2>2, <2>3, <2>4, <2>5 DEF WellNamed, UtilErased
<1>5. CASE kind = "Memory"
  <2>1. Plot[kind] =
          [init |-> MemoryInit, drawn |-> MemoryDrawn, shown |-> MemoryShown,
           shownMax |-> MemoryShownMax, shownMin |-> MemoryShownMin,
           erased |-> MemoryErased, pushed |-> MemoryPushed,
           extremes |-> MemoryExtremes, pens |-> MemoryPens]
    BY <1>5 DEF Plot, PlotOf, Kinds
  <2>2. ToSet(MemoryInit.curves) = MemoryErased
    BY DEF MemoryInit, MemoryErased, ToSet
  <2>3. MemoryExtremes.of \in Seq(MemoryErased) /\ MemoryExtremes.into \in Seq(MemoryErased)
    BY DEF MemoryExtremes, MemoryErased
  <2>4. Len(MemoryExtremes.of) = 4 /\ Len(MemoryExtremes.into) = 4
    BY DEF MemoryExtremes
  <2>5. DOMAIN MemoryPushed = MemoryErased /\ \A c \in MemoryErased : MemoryPushed[c] \in Names
    BY DEF MemoryPushed, MemoryErased, Names, Data, ToSet
  <2>6. QED
    BY <2>1, <2>2, <2>3, <2>4, <2>5 DEF WellNamed, MemoryErased
<1>6. QED
  BY <1>1, <1>2, <1>3, <1>4, <1>5 DEF Kinds

\* One row more makes one mean more once there are enough rows.
LEMMA FilteredIs ==
  ASSUME NEW T \in Nat, NEW n \in Nat
  PROVE  /\ Filtered(T, n) \in Nat /\ Filtered(T, n) <= T
         /\ Filtered(T + 1, n) = IF T + 1 > n THEN Filtered(T, n) + 1 ELSE Filtered(T, n)
BY DEF Filtered

\* Means of n rows and their rows are shortened together.
LEMMA FilteredTogether ==
  ASSUME NEW T \in Nat, NEW n \in Nat, NEW limit \in Nat, n <= limit
  PROVE  /\ Filtered(T, n) >= Filtered(T, limit)
         /\ Filtered(Filtered(T, n), Filtered(T, limit)) =
              Filtered(Filtered(T, Filtered(T, limit)), n)
BY DEF Filtered

\* Two plots that differ at most in the vectors.
SameRest(q, p) ==
  /\ q.min = p.min /\ q.max = p.max /\ q.ex = p.ex /\ q.apps = p.apps
  /\ q.markers = p.markers /\ q.currentAppSize = p.currentAppSize

\* A plot without its first n rows.
IsRest(q, p, n) ==
  /\ DOMAIN q = Fields
  /\ q.times = SubSeq(p.times, n + 1, Len(p.times))
  /\ {DOMAIN q.values, DOMAIN q.mean, DOMAIN q.median} = {Curves}
  /\ \A c \in Curves :
       /\ q.values[c] = SubSeq(p.values[c], n + 1, Len(p.values[c]))
       /\ q.mean[c] = SubSeq(p.mean[c], n + 1, Len(p.mean[c]))
       /\ q.median[c] = SubSeq(p.median[c], n + 1, Len(p.median[c]))
  /\ SameRest(q, p)

\* What the erasure leaves of a plot.
LEMMA ErasedIs ==
  ASSUME kind \in Kinds, NEW p, Lengths(p), NEW limit \in Nat
  PROVE  IsRest(Erase(kind, p, limit), p, Filtered(Len(p.times), limit))
<1>1. PICK q : q = Erase(kind, p, limit)
  OBVIOUS
<1>2. PICK T \in Nat : T = Len(p.times)
  BY DEF Lengths, IsSeq
<1>3. PICK n : n = Filtered(T, limit)
  OBVIOUS
<1>4. n \in Nat /\ Excess(p, limit) = n
  BY <1>2, <1>3, FilteredIs DEF Excess, Filtered
<1>5. Plot[kind].erased = Curves
  BY PlotsWellNamed DEF WellNamed, Curves
<1>6. DOMAIN p = Fields
  BY DEF Lengths
<1>7. q = [p EXCEPT !.times = SubSeq(@, n + 1, Len(@)), !.values = Drop(@, Curves, n),
                    !.mean = Drop(@, Curves, n), !.median = Drop(@, Curves, n)]
  BY <1>1, <1>4, <1>5 DEF Erase
<1>8. /\ DOMAIN q = Fields
      /\ q.times = SubSeq(p.times, n + 1, Len(p.times))
      /\ q.values = Drop(p.values, Curves, n)
      /\ q.mean = Drop(p.mean, Curves, n)
      /\ q.median = Drop(p.median, Curves, n)
      /\ q.min = p.min /\ q.max = p.max /\ q.ex = p.ex /\ q.apps = p.apps
      /\ q.markers = p.markers /\ q.currentAppSize = p.currentAppSize
  BY <1>6, <1>7 DEF Fields
<1>9. DOMAIN p.values = Curves /\ DOMAIN p.mean = Curves /\ DOMAIN p.median = Curves
  BY DEF Lengths
<1>10. {DOMAIN q.values, DOMAIN q.mean, DOMAIN q.median} = {Curves}
  BY <1>8, <1>9 DEF Drop
<1>11. \A c \in Curves :
         /\ q.values[c] = SubSeq(p.values[c], n + 1, Len(p.values[c]))
         /\ q.mean[c] = SubSeq(p.mean[c], n + 1, Len(p.mean[c]))
         /\ q.median[c] = SubSeq(p.median[c], n + 1, Len(p.median[c]))
  BY <1>8, <1>9 DEF Drop
<1>12. QED
  BY <1>1, <1>2, <1>3, <1>8, <1>10, <1>11 DEF IsRest, SameRest

\* A plot with one row more.
IsPushed(r, q, row, n, m) ==
  /\ DOMAIN r = Fields
  /\ r.times = Append(q.times, row[Number("X") + 1])
  /\ {DOMAIN r.values, DOMAIN r.mean, DOMAIN r.median} = {Curves}
  /\ \A c \in Curves :
       /\ r.values[c] = Append(q.values[c], row[Number(Plot[kind].pushed[c]) + 1])
       /\ r.mean[c] = ComputeMean(r.values[c], n, q.mean[c])
       /\ r.median[c] = ComputeMedian(r.values[c], m, q.median[c])
  /\ SameRest(r, q)

\* What a push makes of a plot.
LEMMA PushedIs ==
  ASSUME kind \in Kinds, NEW q, Lengths(q), NEW row, NEW n, NEW m
  PROVE  IsPushed(Push(kind, q, row, n, m), q, row, n, m)
<1>1. PICK r : r = Push(kind, q, row, n, m)
  OBVIOUS
<1>2. DOMAIN q = Fields
  BY DEF Lengths
<1>3. DOMAIN q.values = Curves /\ DOMAIN q.mean = Curves /\ DOMAIN q.median = Curves
  BY DEF Lengths
<1>4. PICK values : values = [c \in DOMAIN q.values |->
                       Append(q.values[c], row[Number(Plot[kind].pushed[c]) + 1])]
  OBVIOUS
<1>5. r = [q EXCEPT
            !.times = Append(@, row[Number("X") + 1]),
            !.values = values,
            !.mean = [c \in DOMAIN @ |-> ComputeMean(values[c], n, @[c])],
            !.median = [c \in DOMAIN @ |-> ComputeMedian(values[c], m, @[c])]]
  BY <1>1, <1>4 DEF Push
<1>6. /\ DOMAIN r = Fields
      /\ r.times = Append(q.times, row[Number("X") + 1])
      /\ r.values = values
      /\ r.mean = [c \in Curves |-> ComputeMean(values[c], n, q.mean[c])]
      /\ r.median = [c \in Curves |-> ComputeMedian(values[c], m, q.median[c])]
      /\ r.min = q.min /\ r.max = q.max /\ r.ex = q.ex /\ r.apps = q.apps
      /\ r.markers = q.markers /\ r.currentAppSize = q.currentAppSize
  BY <1>2, <1>3, <1>5 DEF Fields
<1>7. {DOMAIN r.values, DOMAIN r.mean, DOMAIN r.median} = {Curves}
  BY <1>3, <1>4, <1>6
<1>8. \A c \in Curves :
         /\ r.values[c] = Append(q.values[c], row[Number(Plot[kind].pushed[c]) + 1])
         /\ r.mean[c] = ComputeMean(r.values[c], n, q.mean[c])
         /\ r.median[c] = ComputeMedian(r.values[c], m, q.median[c])
  BY <1>3, <1>4, <1>6
<1>9. QED
  BY <1>1, <1>6, <1>7, <1>8 DEF IsPushed, SameRest

\* The limits of a plot and its intervals are numbers.
LEMMA SettingsAre ==
  ASSUME set \in Settings
  PROVE  /\ set.maxData \in Nat
         /\ steady /\ SafeSettings(set) =>
              /\ NumValues(set.mean, set.rate) \in Nat
              /\ NumValues(set.mean, set.rate) <= set.maxData
              /\ NumValues(set.median, set.rate) \in Nat
              /\ NumValues(set.median, set.rate) <= set.maxData
<1>1. set.maxData \in Nat
  <2>1. set.maxData \in MaxData
    BY DEF Settings
  <2>2. QED
    BY <2>1, BoundsAssumption
<1>2. QED
  BY <1>1 DEF SafeSettings

\* While the settings allow it, there are means enough to be erased.
LEMMA ErasureSucceeds ==
  ASSUME kind \in Kinds, NEW p, Lengths(p), set \in Settings, steady, SafeSettings(set)
  PROVE  ~EraseFails(kind, p, set.maxData)
<1>1. PICK T \in Nat : T = Len(p.times)
  BY DEF Lengths, IsSeq
<1>2. Excess(p, set.maxData) = Filtered(T, set.maxData)
  BY <1>1 DEF Excess, Filtered
<1>3. Plot[kind].erased = Curves
  BY PlotsWellNamed DEF WellNamed, Curves
<1>4. SUFFICES ASSUME NEW c \in Curves
      PROVE  /\ ~(Len(p.mean[c]) < Excess(p, set.maxData))
             /\ ~(Len(p.median[c]) < Excess(p, set.maxData))
  BY <1>3 DEF EraseFails
<1>5. PICK n \in Nat : n = NumValues(set.mean, set.rate) /\ n <= set.maxData
  BY SettingsAre
<1>6. PICK m \in Nat : m = NumValues(set.median, set.rate) /\ m <= set.maxData
  BY SettingsAre
<1>7. Len(p.mean[c]) = Filtered(T, n) /\ Len(p.median[c]) = Filtered(T, m)
  BY <1>1, <1>4, <1>5, <1>6 DEF Lengths
<1>8. set.maxData \in Nat
  BY SettingsAre
<1>9. /\ Filtered(T, n) >= Filtered(T, set.maxData)
      /\ Filtered(T, m) >= Filtered(T, set.maxData)
  BY <1>5, <1>6, <1>8, FilteredTogether
<1>10. /\ Filtered(T, n) \in Nat /\ Filtered(T, m) \in Nat
       /\ Filtered(T, set.maxData) \in Nat
  BY <1>5, <1>6, <1>8, FilteredIs
<1>11. QED
  BY <1>2, <1>7, <1>9, <1>10

\* An erasure keeps the lengths as they should be.
LEMMA ErasedLengths ==
  ASSUME kind \in Kinds, NEW p, Lengths(p), set \in Settings, steady => SafeSettings(set)
  PROVE  Lengths(Erase(kind, p, set.maxData))
<1>1. PICK q : q = Erase(kind, p, set.maxData)
  OBVIOUS
<1>2. PICK limit \in Nat : limit = set.maxData
  BY SettingsAre
<1>3. PICK T \in Nat : T = Len(p.times)
  BY DEF Lengths, IsSeq
<1>4. PICK n \in Nat : n = Filtered(T, limit)
  BY <1>2, <1>3, FilteredIs
<1>5. IsRest(q, p, n)
  BY <1>1, <1>2, <1>3, <1>4, ErasedIs
<1>6. IsSeq(q.times) /\ Len(q.times) = Filtered(T, n)
  <2>1. q.times = SubSeq(p.times, n + 1, Len(p.times)) /\ IsSeq(p.times)
    BY <1>5 DEF Lengths, IsRest
  <2>2. QED
    BY <1>3, <2>1, RestIs
<1>7. ASSUME NEW c \in Curves
      PROVE  /\ IsSeq(q.values[c]) /\ IsSeq(q.mean[c]) /\ IsSeq(q.median[c])
             /\ Len(q.values[c]) = Filtered(T, n)
             /\ Len(q.mean[c]) = Filtered(Len(p.mean[c]), n)
             /\ Len(q.median[c]) = Filtered(Len(p.median[c]), n)
  <2>1. IsSeq(p.values[c]) /\ IsSeq(p.mean[c]) /\ IsSeq(p.median[c]) /\ Len(p.values[c]) = T
    BY <1>3, <1>7 DEF Lengths
  <2>2. /\ q.values[c] = SubSeq(p.values[c], n + 1, Len(p.values[c]))
        /\ q.mean[c] = SubSeq(p.mean[c], n + 1, Len(p.mean[c]))
        /\ q.median[c] = SubSeq(p.median[c], n + 1, Len(p.median[c]))
    BY <1>5, <1>7 DEF IsRest
  <2>3. IsSeq(q.values[c]) /\ Len(q.values[c]) = Filtered(T, n)
    BY <2>1, <2>2, RestIs
  <2>4. IsSeq(q.mean[c]) /\ Len(q.mean[c]) = Filtered(Len(p.mean[c]), n)
    BY <2>1, <2>2, RestIs
  <2>5. IsSeq(q.median[c]) /\ Len(q.median[c]) = Filtered(Len(p.median[c]), n)
    BY <2>1, <2>2, RestIs
  <2>6. QED
    BY <2>3, <2>4, <2>5
<1>8. ASSUME steady, NEW c \in Curves
      PROVE  /\ Len(q.mean[c]) = Filtered(Len(q.times), NumValues(set.mean, set.rate))
             /\ Len(q.median[c]) = Filtered(Len(q.times), NumValues(set.median, set.rate))
  <2>1. PICK a \in Nat : a = NumValues(set.mean, set.rate) /\ a <= limit
    BY <1>2, <1>8, SettingsAre
  <2>2. PICK b \in Nat : b = NumValues(set.median, set.rate) /\ b <= limit
    BY <1>2, <1>8, SettingsAre
  <2>3. Len(p.mean[c]) = Filtered(T, a) /\ Len(p.median[c]) = Filtered(T, b)
    BY <1>3, <1>8, <2>1, <2>2 DEF Lengths
  <2>4. /\ Filtered(Filtered(T, a), n) = Filtered(Filtered(T, n), a)
        /\ Filtered(Filtered(T, b), n) = Filtered(Filtered(T, n), b)
    BY <1>4, <2>1, <2>2, FilteredTogether
  <2>5. QED
    BY <1>6, <1>7, <1>8, <2>1, <2>2, <2>3, <2>4
<1>9. DOMAIN q = Fields /\ {DOMAIN q.values, DOMAIN q.mean, DOMAIN q.median} = {Curves}
  BY <1>5 DEF IsRest
<1>10. QED
  BY <1>1, <1>6, <1>7, <1>8, <1>9 DEF Lengths

\* One mean and one median are appended once there are enough rows.
LEMMA ComputedIs ==
  ASSUME NEW src, NEW n, NEW dst, IsSeq(dst)
  PROVE  /\ IsSeq(ComputeMean(src, n, dst)) /\ IsSeq(ComputeMedian(src, n, dst))
         /\ Len(ComputeMean(src, n, dst)) = IF Len(src) > n THEN Len(dst) + 1 ELSE Len(dst)
         /\ Len(ComputeMedian(src, n, dst)) = IF Len(src) > n THEN Len(dst) + 1 ELSE Len(dst)
BY AppendIs DEF ComputeMean, ComputeMedian

\* A push keeps the lengths as they should be.
LEMMA PushedLengths ==
  ASSUME kind \in Kinds, NEW q, Lengths(q), set \in Settings, steady => SafeSettings(set),
         NEW row
  PROVE  Lengths(Push(kind, q, row, NumValues(set.mean, set.rate),
                      NumValues(set.median, set.rate)))
<1>1. PICK n : n = NumValues(set.mean, set.rate)
  OBVIOUS
<1>2. PICK m : m = NumValues(set.median, set.rate)
  OBVIOUS
<1>3. PICK r : r = Push(kind, q, row, n, m)
  OBVIOUS
<1>4. PICK T \in Nat : T = Len(q.times)
  BY DEF Lengths, IsSeq
<1>5. IsPushed(r, q, row, n, m)
  BY <1>3, PushedIs
<1>6. IsSeq(r.times) /\ Len(r.times) = T + 1
  <2>1. PICK x : r.times = Append(q.times, x) /\ IsSeq(q.times)
    BY <1>5 DEF Lengths, IsPushed
  <2>2. QED
    BY <1>4, <2>1, AppendIs
<1>7. ASSUME NEW c \in Curves
      PROVE  /\ IsSeq(r.values[c]) /\ IsSeq(r.mean[c]) /\ IsSeq(r.median[c])
             /\ Len(r.values[c]) = T + 1
             /\ Len(r.mean[c]) = IF T + 1 > n THEN Len(q.mean[c]) + 1 ELSE Len(q.mean[c])
             /\ Len(r.median[c]) = IF T + 1 > m THEN Len(q.median[c]) + 1 ELSE Len(q.median[c])
  <2>1. IsSeq(q.values[c]) /\ IsSeq(q.mean[c]) /\ IsSeq(q.median[c]) /\ Len(q.values[c]) = T
    BY <1>4, <1>7 DEF Lengths
  <2>2. IsSeq(r.values[c]) /\ Len(r.values[c]) = T + 1
    <3>1. PICK x : r.values[c] = Append(q.values[c], x)
      BY <1>5, <1>7 DEF IsPushed
    <3>2. QED
      BY <2>1, <3>1, AppendIs
  <2>3. PICK v : v = r.values[c]
    OBVIOUS
  <2>4. /\ r.mean[c] = ComputeMean(v, n, q.mean[c])
        /\ r.median[c] = ComputeMedian(v, m, q.median[c])
        /\ Len(v) = T + 1
    BY <1>5, <1>7, <2>2, <2>3 DEF IsPushed
  <2>5. /\ IsSeq(r.mean[c])
        /\ Len(r.mean[c]) = IF T + 1 > n THEN Len(q.mean[c]) + 1 ELSE Len(q.mean[c])
    BY <2>1, <2>4, ComputedIs
  <2>6. /\ IsSeq(r.median[c])
        /\ Len(r.median[c]) = IF T + 1 > m THEN Len(q.median[c]) + 1 ELSE Len(q.median[c])
    BY <2>1, <2>4, ComputedIs
  <2>7. QED
    BY <2>2, <2>5, <2>6
<1>8. ASSUME steady, NEW c \in Curves
      PROVE  /\ Len(r.mean[c]) = Filtered(T + 1, n)
             /\ Len(r.median[c]) = Filtered(T + 1, m)
  <2>1. n \in Nat /\ m \in Nat
    BY <1>1, <1>2, <1>8, SettingsAre
  <2>2. Len(q.mean[c]) = Filtered(T, n) /\ Len(q.median[c]) = Filtered(T, m)
    BY <1>1, <1>2, <1>4, <1>8 DEF Lengths
  <2>3. /\ Filtered(T + 1, n) = IF T + 1 > n THEN Filtered(T, n) + 1 ELSE Filtered(T, n)
        /\ Filtered(T + 1, m) = IF T + 1 > m THEN Filtered(T, m) + 1 ELSE Filtered(T, m)
    BY <2>1, FilteredIs
  <2>4. QED
    BY <1>7, <1>8, <2>2, <2>3
<1>9. DOMAIN r = Fields /\ {DOMAIN r.values, DOMAIN r.mean, DOMAIN r.median} = {Curves}
  BY <1>5 DEF IsPushed
<1>10. QED
  BY <1>1, <1>2, <1>3, <1>6, <1>7, <1>8, <1>9 DEF Lengths

\* The extremes of the first n boxes.
ExtremesBy(f, p, n) ==
  f = [i \in 0 .. n |-> IF i = 0 THEN p ELSE ExtremeOf(kind, f[i - 1], i)]

\* There is such a function, by the least number without one.
LEMMA ExtremesByThere ==
  ASSUME NEW p, NEW n \in Nat
  PROVE  \E f : ExtremesBy(f, p, n)
<1> DEFINE U == {k \in Nat : ~\E f : ExtremesBy(f, p, k)}
<1>1. SUFFICES ASSUME U # {} PROVE FALSE
  OBVIOUS
<1>2. PICK m \in U : \A k \in U : m <= k
  <2>1. U \in SUBSET Nat
    OBVIOUS
  <2>2. QED
    BY <1>1, <2>1, Least
<1>3. m \in Nat /\ ~\E f : ExtremesBy(f, p, m)
  OBVIOUS
<1>4. m # 0
  <2>1. SUFFICES ASSUME m = 0 PROVE FALSE
    OBVIOUS
  <2>2. PICK f : f = [i \in 0 .. 0 |-> p]
    OBVIOUS
  <2>3. f = [i \in 0 .. 0 |-> IF i = 0 THEN p ELSE ExtremeOf(kind, f[i - 1], i)]
    BY <2>2
  <2>4. QED
    BY <1>3, <2>1, <2>3 DEF ExtremesBy
<1>5. m - 1 \in Nat /\ m - 1 \notin U
  BY <1>2, <1>3, <1>4
<1>6. PICK f : ExtremesBy(f, p, m - 1)
  BY <1>5
<1>7. PICK g : g = [i \in 0 .. m |-> IF i = m THEN ExtremeOf(kind, f[m - 1], m) ELSE f[i]]
  OBVIOUS
<1>8. ASSUME NEW i \in 0 .. m
      PROVE  g[i] = IF i = 0 THEN p ELSE ExtremeOf(kind, g[i - 1], i)
  <2>1. CASE i = 0
    BY <1>3, <1>4, <1>5, <1>6, <1>7, <2>1 DEF ExtremesBy
  <2>2. CASE i = m
    <3>1. i # 0 /\ i - 1 \in 0 .. m /\ i - 1 # m /\ i - 1 = m - 1
      BY <1>3, <1>4, <2>2
    <3>2. g[i - 1] = f[m - 1]
      BY <1>7, <3>1
    <3>3. QED
      BY <1>7, <2>2, <3>1, <3>2
  <2>3. CASE i # 0 /\ i # m
    <3>1. i \in 0 .. m - 1 /\ i - 1 \in 0 .. m /\ i - 1 # m
      BY <1>3, <2>3
    <3>2. g[i] = f[i] /\ g[i - 1] = f[i - 1]
      BY <1>7, <2>3, <3>1
    <3>3. f[i] = ExtremeOf(kind, f[i - 1], i)
      BY <1>6, <2>3, <3>1 DEF ExtremesBy
    <3>4. QED
      BY <2>3, <3>2, <3>3
  <2>4. QED
    BY <2>1, <2>2, <2>3
<1>9. g = [i \in 0 .. m |-> IF i = 0 THEN p ELSE ExtremeOf(kind, g[i - 1], i)]
  BY <1>7, <1>8
<1>10. QED
  BY <1>3, <1>9 DEF ExtremesBy

\* Extremes is its last value.
LEMMA ExtremesAre ==
  ASSUME NEW p, NEW n \in Nat, n = Len(Plot[kind].extremes.of)
  PROVE  \E f : ExtremesBy(f, p, n) /\ Extremes(kind, p) = f[n]
<1>1. PICK f : f = CHOOSE g : ExtremesBy(g, p, n)
  OBVIOUS
<1>2. ExtremesBy(f, p, n)
  BY <1>1, ExtremesByThere
<1>3. Extremes(kind, p) = f[n]
  BY <1>1 DEF Extremes, ExtremesBy
<1>4. QED
  BY <1>2, <1>3

\* The extremes leave the rows and the markers alone.
SameRows(q, p) ==
  /\ DOMAIN q = Fields
  /\ q.times = p.times /\ q.values = p.values /\ q.mean = p.mean /\ q.median = p.median
  /\ q.apps = p.apps /\ q.markers = p.markers /\ q.currentAppSize = p.currentAppSize

\* An extreme leaves the rows alone.
LEMMA ExtremeKeepsRows ==
  ASSUME NEW p, DOMAIN p = Fields, NEW i
  PROVE  SameRows(ExtremeOf(kind, p, i), p)
<1>1. PICK q, x, max, min :
        q = [p EXCEPT !.ex[i] = x, !.max = max, !.min = min] /\ q = ExtremeOf(kind, p, i)
  BY DEF ExtremeOf
<1>2. SameRows(q, p)
  BY <1>1 DEF SameRows, Fields
<1>3. QED
  BY <1>1, <1>2

\* And so do all of them.
LEMMA ExtremesKeepRows ==
  ASSUME kind \in Kinds, NEW p, DOMAIN p = Fields
  PROVE  SameRows(Extremes(kind, p), p)
<1>1. PICK n \in Nat : n = Len(Plot[kind].extremes.of)
  BY PlotsWellNamed DEF WellNamed
<1>2. PICK f : ExtremesBy(f, p, n) /\ Extremes(kind, p) = f[n]
  BY <1>1, ExtremesAre
<1> DEFINE U == {i \in 0 .. n : ~SameRows(f[i], p)}
<1>3. U = {}
  <2>1. SUFFICES ASSUME U # {} PROVE FALSE
    OBVIOUS
  <2>2. PICK m \in U : \A k \in U : m <= k
    <3>1. U \in SUBSET Nat
      OBVIOUS
    <3>2. QED
      BY <2>1, <3>1, Least
  <2>3. m \in 0 .. n /\ ~SameRows(f[m], p)
    OBVIOUS
  <2>4. m # 0
    BY <1>2, <2>3 DEF ExtremesBy, SameRows
  <2>5. m - 1 \in 0 .. n /\ m - 1 \notin U
    BY <2>2, <2>3, <2>4
  <2>6. SameRows(f[m - 1], p)
    BY <2>5
  <2>7. f[m] = ExtremeOf(kind, f[m - 1], m)
    BY <1>2, <2>3, <2>4 DEF ExtremesBy
  <2>8. SameRows(f[m], f[m - 1])
    BY <2>6, <2>7, ExtremeKeepsRows DEF SameRows
  <2>9. QED
    BY <2>3, <2>6, <2>8 DEF SameRows
<1>4. n \in 0 .. n /\ n \notin U
  BY <1>3
<1>5. QED
  BY <1>2, <1>4

-----------------------------------------------------------------------------
(* The slots of the data timer.                                           *)

\* What the slots change, before the first one.
Before == [view |-> view, got |-> got, all |-> all, crashed |-> crashed]

\* What n slots make of it.
SlotsBy(f, row, sig, n) ==
  f = [i \in 0 .. n |-> IF i = 0 THEN Before ELSE UpdateSlot(f[i - 1], row, sig)]

\* There is such a function.
LEMMA SlotsByThere ==
  ASSUME NEW row, NEW sig, NEW n \in Nat
  PROVE  \E f : SlotsBy(f, row, sig, n)
<1> DEFINE U == {k \in Nat : ~\E f : SlotsBy(f, row, sig, k)}
<1>1. SUFFICES ASSUME U # {} PROVE FALSE
  OBVIOUS
<1>2. PICK m \in U : \A k \in U : m <= k
  <2>1. U \in SUBSET Nat
    OBVIOUS
  <2>2. QED
    BY <1>1, <2>1, Least
<1>3. m \in Nat /\ ~\E f : SlotsBy(f, row, sig, m)
  OBVIOUS
<1>4. m # 0
  <2>1. SUFFICES ASSUME m = 0 PROVE FALSE
    OBVIOUS
  <2>2. PICK f : f = [i \in 0 .. 0 |-> Before]
    OBVIOUS
  <2>3. f = [i \in 0 .. 0 |-> IF i = 0 THEN Before ELSE UpdateSlot(f[i - 1], row, sig)]
    BY <2>2
  <2>4. QED
    BY <1>3, <2>1, <2>3 DEF SlotsBy
<1>5. m - 1 \in Nat /\ m - 1 \notin U
  BY <1>2, <1>3, <1>4
<1>6. PICK f : SlotsBy(f, row, sig, m - 1)
  BY <1>5
<1>7. PICK g : g = [i \in 0 .. m |-> IF i = m THEN UpdateSlot(f[m - 1], row, sig) ELSE f[i]]
  OBVIOUS
<1>8. ASSUME NEW i \in 0 .. m
      PROVE  g[i] = IF i = 0 THEN Before ELSE UpdateSlot(g[i - 1], row, sig)
  <2>1. CASE i = 0
    BY <1>3, <1>4, <1>5, <1>6, <1>7, <2>1 DEF SlotsBy
  <2>2. CASE i = m
    <3>1. i # 0 /\ i - 1 \in 0 .. m /\ i - 1 # m /\ i - 1 = m - 1
      BY <1>3, <1>4, <2>2
    <3>2. g[i - 1] = f[m - 1]
      BY <1>7, <3>1
    <3>3. QED
      BY <1>7, <2>2, <3>1, <3>2
  <2>3. CASE i # 0 /\ i # m
    <3>1. i \in 0 .. m - 1 /\ i - 1 \in 0 .. m /\ i - 1 # m
      BY <1>3, <2>3
    <3>2. g[i] = f[i] /\ g[i - 1] = f[i - 1]
      BY <1>7, <2>3, <3>1
    <3>3. f[i] = UpdateSlot(f[i - 1], row, sig)
      BY <1>6, <2>3, <3>1 DEF SlotsBy
    <3>4. QED
      BY <2>3, <3>2, <3>3
  <2>4. QED
    BY <2>1, <2>2, <2>3
<1>9. g = [i \in 0 .. m |-> IF i = 0 THEN Before ELSE UpdateSlot(g[i - 1], row, sig)]
  BY <1>7, <1>8
<1>10. QED
  BY <1>3, <1>9 DEF SlotsBy

\* After is its last value.
LEMMA AfterIs ==
  ASSUME NEW row, NEW sig, NEW n \in Nat
  PROVE  \E f : SlotsBy(f, row, sig, n) /\ After(n, row, sig) = f[n]
<1>1. PICK f : f = CHOOSE g : SlotsBy(g, row, sig, n)
  OBVIOUS
<1>2. SlotsBy(f, row, sig, n)
  BY <1>1, SlotsByThere
<1>3. After(n, row, sig) = f[n]
  BY <1>1 DEF After, SlotsBy, Before
<1>4. QED
  BY <1>2, <1>3

\* The row a slot takes is appended to what the view got.
Appended(s, old, row) ==
  /\ s \in Seq(RowSet) /\ Len(s) >= Len(old)
  /\ \A j \in 1 .. Len(old) : s[j] = old[j]
  /\ \A j \in Len(old) + 1 .. Len(s) : s[j] = row
\* What n slots make of the window: each appends the row, or the client has ended.
SlotsTake(s, row, sig, n) ==
  /\ DOMAIN s = {"view", "got", "all", "crashed"}
  /\ s.crashed \in {"no", "values", "erase"}
  /\ Appended(s.got, got, row) /\ Appended(s.all, all, row)
  /\ s.crashed = "no" => Len(s.got) = Len(got) + n /\ Len(s.all) = Len(all) + n
  /\ row = None => s.got = got
  /\ s.crashed = "values" => row = None
  /\ s.crashed = "erase" => ~steady
  /\ kind \in Kinds =>
       /\ Lengths(s.view)
       /\ s.view.markers = view.markers /\ s.view.currentAppSize = view.currentAppSize
       /\ s.view.apps \in {view.apps, sig}

\* The window before the slots.
SlotsReady(row) ==
  /\ crashed = "no" /\ set \in Settings /\ steady \in BOOLEAN
  /\ got \in Seq(RowSet) /\ all \in Seq(RowSet)
  /\ row \in RowSet \cup {None}
  /\ kind \in Kinds => Lengths(view)
  /\ steady => SafeSettings(set)

\* One slot more appends the row once more.
LEMMA AppendedMore ==
  ASSUME NEW s, NEW old, IsSeq(old), NEW row \in RowSet, Appended(s, old, row)
  PROVE  Appended(Append(s, row), old, row) /\ Len(Append(s, row)) = Len(s) + 1
<1>1. PICK m \in Nat : m = Len(old)
  BY DEF IsSeq
<1>2. s \in Seq(RowSet)
  BY DEF Appended
<1>3. PICK n \in Nat : n = Len(s)
  BY <1>2, LenProperties
<1>4. n >= m
  BY <1>1, <1>3 DEF Appended
<1>5. PICK t : t = Append(s, row)
  OBVIOUS
<1>6. /\ t \in Seq(RowSet) /\ Len(t) = n + 1
      /\ \A j \in 1 .. n : t[j] = s[j]
      /\ t[n + 1] = row
  <2>1. /\ t \in Seq(RowSet) /\ Len(t) = Len(s) + 1
        /\ \A j \in 1 .. Len(s) + 1 : t[j] = IF j = Len(s) + 1 THEN row ELSE s[j]
    BY <1>2, <1>5, AppendProperties
  <2>2. QED
    BY <1>3, <2>1
<1>7. \A j \in 1 .. m : t[j] = old[j]
  <2>1. SUFFICES ASSUME NEW j \in 1 .. m PROVE t[j] = old[j]
    OBVIOUS
  <2>2. j \in 1 .. n
    BY <1>4, <2>1
  <2>3. s[j] = old[j]
    BY <1>1, <2>1 DEF Appended
  <2>4. QED
    BY <1>6, <2>2, <2>3
<1>8. ASSUME NEW j \in m + 1 .. n + 1 PROVE t[j] = row
  <2>1. CASE j = n + 1
    BY <1>6, <2>1
  <2>2. CASE j # n + 1
    <3>1. j \in m + 1 .. n /\ j \in 1 .. n
      BY <1>8, <2>2
    <3>2. s[j] = row
      BY <1>1, <1>3, <3>1 DEF Appended
    <3>3. QED
      BY <1>6, <3>1, <3>2
  <2>3. QED
    BY <2>1, <2>2
<1>9. QED
  BY <1>1, <1>3, <1>4, <1>5, <1>6, <1>7, <1>8 DEF Appended

\* A row that is pushed leaves the plot with vectors as long as they should be.
LEMMA UpdatedLengths ==
  ASSUME kind \in Kinds, NEW p, Lengths(p), set \in Settings, steady => SafeSettings(set),
         NEW row
  PROVE  LET q == UpdateValues(kind, p, row, set)
         IN /\ Lengths(q) /\ q.markers = p.markers /\ q.currentAppSize = p.currentAppSize
<1>1. PICK n, m : n = NumValues(set.mean, set.rate) /\ m = NumValues(set.median, set.rate)
  OBVIOUS
<1>2. PICK q : q = Erase(kind, p, set.maxData)
  OBVIOUS
<1>3. PICK r : r = Push(kind, q, row, n, m)
  OBVIOUS
<1>4. PICK x : x = Extremes(kind, r)
  OBVIOUS
<1>5. Lengths(q)
  BY <1>2, ErasedLengths
<1>6. Lengths(r)
  BY <1>1, <1>3, <1>5, PushedLengths
<1>7. set.maxData \in Nat
  BY SettingsAre
<1>8. SameRest(q, p)
  BY <1>2, <1>7, ErasedIs DEF IsRest
<1>9. SameRest(r, q)
  BY <1>3, <1>5, PushedIs DEF IsPushed
<1>10. DOMAIN r = Fields
  BY <1>6 DEF Lengths
<1>11. SameRows(x, r)
  BY <1>4, <1>10, ExtremesKeepRows
<1>12. Lengths(x)
  BY <1>6, <1>11 DEF Lengths, SameRows
<1>13. x.markers = p.markers /\ x.currentAppSize = p.currentAppSize
  BY <1>8, <1>9, <1>11 DEF SameRest, SameRows
<1>14. UpdateValues(kind, p, row, set) = x
  BY <1>1, <1>2, <1>3, <1>4 DEF UpdateValues
<1>15. QED
  BY <1>12, <1>13, <1>14

\* A slot.
LEMMA SlotTakes ==
  ASSUME NEW row, NEW sig, NEW n \in Nat, SlotsReady(row), NEW s, SlotsTake(s, row, sig, n)
  PROVE  SlotsTake(UpdateSlot(s, row, sig), row, sig, n + 1)
<1>1. PICK t : t = UpdateSlot(s, row, sig)
  OBVIOUS
<1>2. DOMAIN s = {"view", "got", "all", "crashed"}
  BY DEF SlotsTake
<1>3. IsSeq(got) /\ IsSeq(all) /\ Len(got) \in Nat /\ Len(all) \in Nat
  BY SeqIs DEF SlotsReady, IsSeq
<1>4. CASE s.crashed # "no"
  <2>1. t = s
    BY <1>1, <1>4 DEF UpdateSlot
  <2>2. QED
    BY <1>1, <1>4, <2>1 DEF SlotsTake
<1>5. CASE s.crashed = "no" /\ row = None
  <2>1. t = [s EXCEPT !.crashed = "values"]
    BY <1>1, <1>5 DEF UpdateSlot
  <2>2. /\ DOMAIN t = {"view", "got", "all", "crashed"} /\ t.crashed = "values"
        /\ t.view = s.view /\ t.got = s.got /\ t.all = s.all
    BY <1>2, <2>1
  <2>3. QED
    BY <1>1, <1>5, <2>2 DEF SlotsTake
<1>6. CASE s.crashed = "no" /\ row # None /\ kind \in Kinds /\ EraseFails(kind, s.view, set.maxData)
  <2>1. t = [s EXCEPT !.crashed = "erase"]
    BY <1>1, <1>6 DEF UpdateSlot
  <2>2. /\ DOMAIN t = {"view", "got", "all", "crashed"} /\ t.crashed = "erase"
        /\ t.view = s.view /\ t.got = s.got /\ t.all = s.all
    BY <1>2, <2>1
  <2>3. ~steady
    <3>1. Lengths(s.view) /\ set \in Settings
      BY <1>6 DEF SlotsTake, SlotsReady
    <3>2. QED
      BY <1>6, <3>1, ErasureSucceeds DEF SlotsReady
  <2>4. QED
    BY <1>1, <1>6, <2>2, <2>3 DEF SlotsTake
<1>7. CASE /\ s.crashed = "no" /\ row # None
           /\ ~(kind \in Kinds /\ EraseFails(kind, s.view, set.maxData))
  <2>1. PICK v : v = IF kind \in Kinds
                       THEN [UpdateValues(kind, s.view, Row(row), set) EXCEPT !.apps = sig]
                       ELSE UpdateMaps(kind, s.view, Row(row))
    OBVIOUS
  <2>2. t = [s EXCEPT !.view = v, !.got = Append(@, row), !.all = Append(@, row)]
    BY <1>1, <1>7, <2>1 DEF UpdateSlot
  <2>3. /\ DOMAIN t = {"view", "got", "all", "crashed"} /\ t.crashed = "no" /\ t.view = v
        /\ t.got = Append(s.got, row) /\ t.all = Append(s.all, row)
    BY <1>2, <1>7, <2>2
  <2>4. row \in RowSet
    BY <1>7 DEF SlotsReady
  <2>5. Appended(s.got, got, row) /\ Appended(s.all, all, row)
    BY DEF SlotsTake
  <2>6. Appended(t.got, got, row) /\ Len(t.got) = Len(s.got) + 1
    BY <1>3, <2>3, <2>4, <2>5, AppendedMore
  <2>7. Appended(t.all, all, row) /\ Len(t.all) = Len(s.all) + 1
    BY <1>3, <2>3, <2>4, <2>5, AppendedMore
  <2>8. Len(t.got) = Len(got) + (n + 1) /\ Len(t.all) = Len(all) + (n + 1)
    <3>1. Len(s.got) = Len(got) + n /\ Len(s.all) = Len(all) + n
      BY <1>7 DEF SlotsTake
    <3>2. QED
      BY <1>3, <2>6, <2>7, <3>1
  <2>9. ASSUME kind \in Kinds
        PROVE  /\ Lengths(v) /\ v.markers = view.markers
               /\ v.currentAppSize = view.currentAppSize /\ v.apps = sig
    <3>1. PICK q : q = UpdateValues(kind, s.view, Row(row), set)
      OBVIOUS
    <3>2. Lengths(s.view) /\ set \in Settings /\ (steady => SafeSettings(set))
      BY <2>9 DEF SlotsTake, SlotsReady
    <3>3. /\ Lengths(q) /\ q.markers = s.view.markers
          /\ q.currentAppSize = s.view.currentAppSize
      BY <2>9, <3>1, <3>2, UpdatedLengths
    <3>4. v = [q EXCEPT !.apps = sig] /\ DOMAIN q = Fields
      BY <2>1, <2>9, <3>1, <3>3 DEF Lengths
    <3>5. /\ DOMAIN v = Fields /\ v.times = q.times /\ v.values = q.values
          /\ v.mean = q.mean /\ v.median = q.median /\ v.markers = q.markers
          /\ v.currentAppSize = q.currentAppSize /\ v.apps = sig
      BY <3>4 DEF Fields
    <3>6. Lengths(v)
      BY <3>3, <3>5 DEF Lengths
    <3>7. QED
      BY <2>9, <3>3, <3>5, <3>6 DEF SlotsTake
  <2>10. QED
    BY <1>1, <1>7, <2>3, <2>6, <2>7, <2>8, <2>9 DEF SlotsTake
<1>8. QED
  BY <1>4, <1>5, <1>6, <1>7

\* What each of the slots behind a row makes of the window.
LEMMA SlotsEach ==
  ASSUME NEW row, NEW sig, NEW n \in Nat, SlotsReady(row), NEW f, SlotsBy(f, row, sig, n)
  PROVE  \A i \in 0 .. n : SlotsTake(f[i], row, sig, i)
<1>1. SlotsTake(Before, row, sig, 0)
  <2>1. IsSeq(got) /\ IsSeq(all) /\ Len(got) \in Nat /\ Len(all) \in Nat
    BY SeqIs DEF SlotsReady, IsSeq
  <2>2. Appended(got, got, row) /\ Appended(all, all, row)
    BY <2>1 DEF Appended, SlotsReady
  <2>3. QED
    BY <2>1, <2>2 DEF SlotsTake, Before, SlotsReady
<1> DEFINE U == {i \in 0 .. n : ~SlotsTake(f[i], row, sig, i)}
<1>2. U = {}
  <2>1. SUFFICES ASSUME U # {} PROVE FALSE
    OBVIOUS
  <2>2. PICK m \in U : \A k \in U : m <= k
    <3>1. U \in SUBSET Nat
      OBVIOUS
    <3>2. QED
      BY <2>1, <3>1, Least
  <2>3. m \in 0 .. n /\ ~SlotsTake(f[m], row, sig, m)
    OBVIOUS
  <2>4. m # 0
    BY <1>1, <2>3 DEF SlotsBy
  <2>5. m - 1 \in 0 .. n /\ m - 1 \in Nat /\ m - 1 \notin U
    BY <2>2, <2>3, <2>4
  <2>6. SlotsTake(f[m - 1], row, sig, m - 1)
    BY <2>5
  <2>7. f[m] = UpdateSlot(f[m - 1], row, sig)
    BY <2>3, <2>4 DEF SlotsBy
  <2>8. SlotsTake(f[m], row, sig, (m - 1) + 1)
    BY <2>5, <2>6, <2>7, SlotTakes
  <2>9. m - 1 + 1 = m
    BY <2>3
  <2>10. QED
    BY <2>3, <2>8, <2>9
<1>3. QED
  BY <1>2

\* What all of them make of it.
LEMMA SlotsAre ==
  ASSUME NEW row, NEW sig, NEW n \in Nat, SlotsReady(row)
  PROVE  SlotsTake(After(n, row, sig), row, sig, n)
<1>1. PICK f : SlotsBy(f, row, sig, n) /\ After(n, row, sig) = f[n]
  BY AfterIs
<1>2. \A i \in 0 .. n : SlotsTake(f[i], row, sig, i)
  BY <1>1, SlotsEach
<1>3. n \in 0 .. n
  OBVIOUS
<1>4. QED
  BY <1>1, <1>2, <1>3

-----------------------------------------------------------------------------
(* The steps of the window.                                                *)

\* A plot without rows.
NoRows(p) ==
  /\ DOMAIN p = Fields /\ p.times = <<>>
  /\ p.values = NoVectors(kind) /\ p.mean = NoVectors(kind) /\ p.median = NoVectors(kind)

\* Its vectors are as long as they should be.
LEMMA NoRowsLengths ==
  ASSUME kind \in Kinds, NEW p, NoRows(p), ~steady PROVE Lengths(p)
<1>1. IsSeq(<<>>) /\ Len(<<>>) = 0
  BY EmptyIs
<1>2. \A c \in Curves : p.values[c] = <<>> /\ p.mean[c] = <<>> /\ p.median[c] = <<>>
  BY DEF NoRows, NoVectors, Curves
<1>3. {DOMAIN p.values, DOMAIN p.mean, DOMAIN p.median} = {Curves}
  BY DEF NoRows, NoVectors, Curves
<1>4. QED
  BY <1>1, <1>2, <1>3 DEF Lengths, NoRows

\* A start forgets the rows.
LEMMA ClearedLengths ==
  ASSUME kind \in Kinds, NEW p, NoRows(p), set \in Settings,
         view' = p, UNCHANGED <<kind, set>>, steady' => SafeSettings(set)
  PROVE  Lengths(view)'
<1>1. IsSeq(<<>>) /\ Len(<<>>) = 0
  BY EmptyIs
<1>2. \A c \in Curves : p.values[c] = <<>> /\ p.mean[c] = <<>> /\ p.median[c] = <<>>
  BY DEF NoRows, NoVectors, Curves
<1>3. {DOMAIN p.values, DOMAIN p.mean, DOMAIN p.median} = {Curves}
  BY DEF NoRows, NoVectors, Curves
<1>4. set.maxData \in Nat
  <2>1. set.maxData \in MaxData
    BY DEF Settings
  <2>2. QED
    BY <2>1, BoundsAssumption
<1>5. steady' => /\ Filtered(0, NumValues(set.mean, set.rate)) = 0
                 /\ Filtered(0, NumValues(set.median, set.rate)) = 0
  BY <1>4 DEF SafeSettings, Filtered
<1>6. Curves' = Curves
  BY DEF Curves
<1>7. QED
  BY <1>1, <1>2, <1>3, <1>5, <1>6 DEF Lengths, NoRows

\* Nothing begins everything.
LEMMA BeginsEmpty == ASSUME NEW t, IsSeq(t) PROVE Begins(<<>>, t)
BY EmptyIs DEF Begins, IsSeq

\* The window of a new client satisfies the invariant.
LEMMA ClientInit == CInit => ClientInv
<1> SUFFICES ASSUME CInit PROVE ClientInv
  OBVIOUS
<1>1. <<>> \in Seq(RowSet) /\ <<>> \in Seq(Nat) /\ <<>> \in Seq(Signals)
  BY EmptySeq
<1>2. WindowTypes
  <2>1. set \in Settings
    BY BoundsAssumption DEF CInit, Settings
  <2>2. QED
    BY <1>1, <2>1 DEF CInit, WindowTypes
<1>3. HistoryInv
  <2>1. Len(got) = 0
    BY EmptyIs DEF CInit
  <2>2. QED
    BY <2>1 DEF CInit, HistoryInv
<1>4. ServerInv
  BY DEF CInit, ServerInv
<1>5. ASSUME kind \in Kinds
      PROVE  /\ Lengths(view) /\ view.apps = <<>> /\ view.markers = <<>>
             /\ view.currentAppSize = 0
  <2>1. view = NewPlot(kind)
    BY <1>5 DEF CInit, NewView
  <2>2. NoRows(view) /\ view.apps = <<>> /\ view.markers = <<>> /\ view.currentAppSize = 0
    BY <2>1 DEF NewPlot, Fields, NoRows
  <2>3. ~steady
    BY DEF CInit
  <2>4. QED
    BY <1>5, <2>2, <2>3, NoRowsLengths
<1>6. LengthsInv
  BY <1>5 DEF CInit, LengthsInv
<1>7. MarkersInv
  <2>1. Begins(<<>>, <<>>) /\ Len(<<>>) = 0
    BY BeginsEmpty, EmptyIs
  <2>2. QED
    BY <1>5, <2>1 DEF CInit, MarkersInv
<1>8. QED
  BY <1>2, <1>3, <1>4, <1>6, <1>7 DEF ClientInv

\* A plot that stays has vectors as long as before, unless the intervals change.
LEMMA LengthsStay ==
  ASSUME NEW p, Lengths(p), kind' = kind, view' = p,
         steady' => /\ steady
                    /\ set'.mean = set.mean /\ set'.median = set.median
                    /\ set'.rate = set.rate
  PROVE  Lengths(view)'
<1>1. Curves' = Curves
  BY DEF Curves
<1>2. QED
  BY <1>1 DEF Lengths

\* The steps that change neither a plot nor what it was given.
LEMMA LengthsUnchanged ==
  ASSUME LengthsInv, UNCHANGED <<kind, view, set, steady, crashed>> PROVE LengthsInv'
<1>1. kind \in Kinds => Lengths(view)'
  BY LengthsStay DEF LengthsInv
<1>2. QED
  BY <1>1 DEF LengthsInv, SafeSettings

\* The slots of a row.
LEMMA SlotsDone ==
  ASSUME NEW row, NEW sig, NEW n \in Nat, ClientInv, Running, row \in RowSet \cup {None},
         UpdateSlots(n, row, sig), UNCHANGED <<kind, set, steady>>
  PROVE  /\ got' \in Seq(RowSet) /\ all' \in Seq(RowSet)
         /\ Appended(got', got, row)
         /\ crashed' \in {"no", "values", "erase"}
         /\ crashed' = "values" => row = None
         /\ crashed' = "no" => Len(got') = Len(got) + n
         /\ row = None => got' = got
         /\ LengthsInv'
         /\ kind \in Kinds =>
              /\ view'.markers = view.markers /\ view'.currentAppSize = view.currentAppSize
              /\ view'.apps \in {view.apps, sig}
<1>1. SlotsReady(row)
  BY DEF SlotsReady, ClientInv, WindowTypes, LengthsInv, Running
<1>2. PICK s : s = After(n, row, sig) /\ SlotsTake(s, row, sig, n)
  BY <1>1, SlotsAre
<1>3. view' = s.view /\ got' = s.got /\ all' = s.all /\ crashed' = s.crashed
  BY <1>2 DEF UpdateSlots
<1>4. LengthsInv'
  <2>1. ASSUME kind \in Kinds PROVE Lengths(view)'
    <3>1. PICK p : p = s.view
      OBVIOUS
    <3>2. Lengths(p)
      BY <1>2, <2>1, <3>1 DEF SlotsTake
    <3>3. QED
      BY <1>3, <3>1, <3>2, LengthsStay
  <2>2. steady => SafeSettings(set)
    BY DEF ClientInv, LengthsInv
  <2>3. crashed' = "erase" => ~steady
    BY <1>2, <1>3 DEF SlotsTake
  <2>4. QED
    BY <2>1, <2>2, <2>3 DEF LengthsInv, SafeSettings
<1>5. QED
  BY <1>2, <1>3, <1>4 DEF SlotsTake, Appended

\* A beginning of a beginning.
LEMMA BeginsThen ==
  ASSUME NEW s, NEW t, NEW u, Begins(s, t), Begins(t, u)
  PROVE  Begins(s, u)
<1>1. PICK n \in Nat : n = Len(s)
  BY DEF Begins, IsSeq
<1>2. PICK m \in Nat : m = Len(t)
  BY DEF Begins, IsSeq
<1>3. n <= m /\ m <= Len(u)
  BY <1>1, <1>2 DEF Begins
<1>4. n <= Len(u) \/ Len(u) \notin Int
  BY <1>3
<1>5. QED
  BY <1>1, <1>2, <1>3 DEF Begins

\* A sequence that is continued still begins the same way.
LEMMA BeginsMore ==
  ASSUME NEW s, NEW t, Begins(s, t), IsSeq(t), NEW e
  PROVE  Begins(s, Append(t, e))
<1>1. PICK n \in Nat : n = Len(s)
  BY DEF Begins, IsSeq
<1>2. PICK m \in Nat : m = Len(t) /\ n <= m
  BY <1>1 DEF Begins, IsSeq
<1>3. /\ Len(Append(t, e)) = m + 1
      /\ \A i \in 1 .. m : Append(t, e)[i] = t[i]
  BY <1>2, AppendIs
<1>4. QED
  BY <1>1, <1>2, <1>3 DEF Begins

\* All of it.
LEMMA BeginsSelf == ASSUME NEW s, IsSeq(s) PROVE Begins(s, s)
BY DEF Begins, IsSeq

\* The markers that a redraw adds are those of the applications without one.
LEMMA Redrawn ==
  ASSUME NEW p, DOMAIN p = Fields, IsSeq(p.apps), Begins(p.markers, p.apps),
         Len(p.markers) = p.currentAppSize
  PROVE  LET q == RedrawApplications(p)
         IN Begins(q.markers, p.apps) /\ Len(q.markers) = q.currentAppSize
<1>1. PICK q : q = RedrawApplications(p)
  OBVIOUS
<1>2. CASE ~(p.currentAppSize < Len(p.apps))
  BY <1>1, <1>2 DEF RedrawApplications
<1>3. CASE p.currentAppSize < Len(p.apps)
  <2>1. PICK n \in Nat : n = Len(p.markers)
    BY DEF Begins, IsSeq
  <2>2. PICK m \in Nat : m = Len(p.apps)
    BY DEF IsSeq
  <2>3. PICK r : r = SubSeq(p.apps, n + 1, m)
    OBVIOUS
  <2>4. PICK t : t = p.markers \o r
    OBVIOUS
  <2>5. q = [p EXCEPT !.markers = t, !.currentAppSize = m]
    BY <1>1, <1>3, <2>1, <2>2, <2>3, <2>4 DEF RedrawApplications
  <2>6. q.markers = t /\ q.currentAppSize = m
    BY <2>5 DEF Fields
  <2>7. /\ IsSeq(r) /\ Len(r) = m - n
        /\ \A i \in 1 .. m - n : r[i] = p.apps[n + i]
    BY <1>3, <2>1, <2>2, <2>3, RestIs DEF Filtered
  <2>8. /\ IsSeq(t) /\ Len(t) = m
        /\ \A i \in 1 .. m : t[i] = IF i <= n THEN p.markers[i] ELSE r[i - n]
    <3>1. IsSeq(p.markers)
      BY DEF Begins
    <3>2. PICK E : p.markers \in Seq(E)
      BY <3>1, IsSeqOf
    <3>3. PICK F : r \in Seq(F)
      BY <2>7, IsSeqOf
    <3>4. PICK G : G = E \cup F
      OBVIOUS
    <3>5. p.markers \in Seq(G) /\ r \in Seq(G)
      BY <3>2, <3>3, <3>4, SeqMonotonic
    <3>6. /\ t \in Seq(G) /\ Len(t) = Len(p.markers) + Len(r)
          /\ \A i \in 1 .. Len(p.markers) + Len(r) :
               t[i] = IF i <= Len(p.markers) THEN p.markers[i] ELSE r[i - Len(p.markers)]
      BY <2>4, <3>5, ConcatProperties
    <3>7. Len(p.markers) + Len(r) = m
      BY <2>1, <2>7
    <3>8. IsSeq(t)
      BY <3>6, SeqIs
    <3>9. QED
      BY <2>1, <3>6, <3>7, <3>8
  <2>9. ASSUME NEW i \in 1 .. m PROVE t[i] = p.apps[i]
    <3>1. CASE i <= n
      BY <2>1, <2>8, <3>1 DEF Begins
    <3>2. CASE i > n
      <4>1. i - n \in 1 .. m - n /\ n + (i - n) = i /\ ~(i <= n)
        BY <3>2
      <4>2. r[i - n] = p.apps[i]
        BY <2>7, <4>1
      <4>3. QED
        BY <2>8, <4>1, <4>2
    <3>3. QED
      BY <3>1, <3>2
  <2>10. QED
    BY <1>1, <2>2, <2>6, <2>8, <2>9 DEF Begins
<1>4. QED
  BY <1>2, <1>3

\* A start: the rows are forgotten, the markers stay.
LEMMA StartKeeps == ClientInv /\ Start => ClientInv'
<1> SUFFICES ASSUME ClientInv, Start PROVE ClientInv'
  OBVIOUS
<1>0. /\ WindowTypes /\ HistoryInv /\ ServerInv /\ LengthsInv /\ MarkersInv
      /\ crashed = "no" /\ boxes = <<>>
      /\ UNCHANGED <<kind, set, shown, boxes, server, crashed, rows, stops, all>>
  BY DEF ClientInv, Start, Clickable, Running
<1>1. CASE ~server.up
  <2>1. /\ connected' = FALSE
        /\ UNCHANGED <<mpTimer, mValues, strings, view, answered, got, steady, calm>>
    BY <1>1 DEF Start
  <2>2. WindowTypes'
    BY <1>0, <2>1 DEF WindowTypes
  <2>3. HistoryInv'
    BY <1>0, <2>1 DEF HistoryInv, Running
  <2>4. ServerInv'
    BY <1>0, <1>1, <2>1 DEF ServerInv
  <2>5. LengthsInv'
    BY <1>0, <2>1, LengthsUnchanged
  <2>6. MarkersInv'
    BY <1>0, <2>1 DEF MarkersInv
  <2>7. QED
    BY <2>2, <2>3, <2>4, <2>5, <2>6 DEF ClientInv
<1>2. CASE server.up
  <2>1. /\ connected' = TRUE /\ mpTimer' = TRUE
        /\ mValues' = [mValues EXCEPT !.filled = FALSE]
        /\ view' = ClearedView
        /\ answered' = <<>> /\ got' = <<>> /\ steady' = SafeSettings(set)
        /\ calm' = (shown = 1)
    BY <1>2 DEF Start
  <2>2. /\ mValues'.row = mValues.row
        /\ mValues' \in [row : RowSet \cup {None}, filled : BOOLEAN]
    BY <1>0, <2>1 DEF WindowTypes
  <2>3. Len(<<>>) = 0 /\ <<>> \in Seq(RowSet)
    BY EmptySeq
  <2>4. WindowTypes'
    <3>1. steady' \in BOOLEAN /\ calm' \in BOOLEAN
      BY <2>1 DEF SafeSettings
    <3>2. QED
      BY <1>0, <2>1, <2>2, <2>3, <3>1 DEF WindowTypes
  <2>5. HistoryInv'
    BY <1>0, <2>1, <2>2, <2>3 DEF HistoryInv
  <2>6. ServerInv'
    BY <1>0, <1>2, <2>1, <2>2 DEF ServerInv
  <2>7. ASSUME kind \in Kinds
        PROVE  /\ Lengths(view)'
               /\ view'.apps = view.apps /\ view'.markers = view.markers
               /\ view'.currentAppSize = view.currentAppSize
    <3>1. PICK p : p = ClearAllData(kind, view)
      OBVIOUS
    <3>2. view' = p
      <4>1. kind # "UtilMaps"
        BY <2>7 DEF Kinds
      <4>2. QED
        BY <2>1, <2>7, <3>1, <4>1 DEF ClearedView
    <3>3. /\ NoRows(p) /\ p.apps = view.apps /\ p.markers = view.markers
          /\ p.currentAppSize = view.currentAppSize
      BY <3>1 DEF ClearAllData, NewPlot, NoRows, Fields
    <3>4. Lengths(view)'
      BY <1>0, <2>1, <2>7, <3>2, <3>3, ClearedLengths DEF WindowTypes
    <3>5. QED
      BY <3>2, <3>3, <3>4
  <2>8. LengthsInv'
    BY <1>0, <2>1, <2>7 DEF LengthsInv, SafeSettings
  <2>9. MarkersInv'
    BY <1>0, <2>7 DEF MarkersInv
  <2>10. QED
    BY <2>4, <2>5, <2>6, <2>8, <2>9 DEF ClientInv
<1>3. QED
  BY <1>1, <1>2

\* A stop.
LEMMA StopKeeps == ClientInv /\ Stop => ClientInv'
<1> SUFFICES ASSUME ClientInv, Stop PROVE ClientInv'
  OBVIOUS
<1>1. /\ WindowTypes /\ HistoryInv /\ ServerInv /\ LengthsInv /\ MarkersInv
      /\ mpTimer' = FALSE /\ connected' = FALSE /\ boxes = <<>>
      /\ UNCHANGED <<kind, view, set, shown, boxes, mValues, strings, server, crashed>>
      /\ UNCHANGED <<rows, stops, answered, got, all, steady, calm>>
  BY DEF ClientInv, Stop, Clickable, bounds, history
<1>2. WindowTypes'
  BY <1>1 DEF WindowTypes
<1>3. HistoryInv'
  BY <1>1 DEF HistoryInv, Running
<1>4. ServerInv'
  BY <1>1 DEF ServerInv
<1>5. LengthsInv'
  BY <1>1, LengthsUnchanged
<1>6. MarkersInv'
  BY <1>1 DEF MarkersInv
<1>7. QED
  BY <1>2, <1>3, <1>4, <1>5, <1>6 DEF ClientInv

\* No answer: the server must have stopped.
LEMMA RequestFailsKeeps == ClientInv /\ RequestFails => ClientInv'
<1> SUFFICES ASSUME ClientInv, RequestFails PROVE ClientInv'
  OBVIOUS
<1>1. /\ WindowTypes /\ HistoryInv /\ ServerInv /\ LengthsInv /\ MarkersInv
      /\ mpTimer /\ ~connected /\ mpTimer' = FALSE /\ calm' = FALSE
      /\ boxes' = Append(boxes, Slots)
      /\ UNCHANGED <<kind, view, set, shown, mValues, strings, connected, server, crashed>>
      /\ UNCHANGED <<rows, stops, answered, got, all, steady>>
  BY DEF ClientInv, RequestFails, bounds
<1>2. stops > 0
  BY <1>1 DEF ServerInv
<1>3. boxes' \in Seq(Nat)
  BY <1>1, AppendProperties DEF WindowTypes, Slots
<1>4. WindowTypes'
  BY <1>1, <1>3 DEF WindowTypes
<1>5. HistoryInv'
  BY <1>1 DEF HistoryInv
<1>6. ServerInv'
  BY <1>1, <1>2 DEF ServerInv
<1>7. LengthsInv'
  BY <1>1, LengthsUnchanged
<1>8. MarkersInv'
  BY <1>1, <1>2 DEF MarkersInv
<1>9. QED
  BY <1>4, <1>5, <1>6, <1>7, <1>8 DEF ClientInv

\* One more connection of the view.
LEMMA ShowKeeps == ClientInv /\ Show => ClientInv'
<1> SUFFICES ASSUME ClientInv, Show PROVE ClientInv'
  OBVIOUS
<1>1. /\ WindowTypes /\ HistoryInv /\ ServerInv /\ LengthsInv /\ MarkersInv
      /\ shown' = shown + 1 /\ calm' = FALSE
      /\ UNCHANGED <<kind, view, set, mpTimer, boxes, mValues, strings, connected, server>>
      /\ UNCHANGED <<crashed, rows, stops, answered, got, all, steady>>
  BY DEF ClientInv, Show
<1>2. WindowTypes'
  <2>1. shown' \in Nat
    BY <1>1 DEF WindowTypes
  <2>2. QED
    BY <1>1, <2>1 DEF WindowTypes
<1>3. HistoryInv'
  BY <1>1 DEF HistoryInv
<1>4. ServerInv'
  BY <1>1 DEF ServerInv
<1>5. LengthsInv'
  BY <1>1, LengthsUnchanged
<1>6. MarkersInv'
  BY <1>1 DEF MarkersInv
<1>7. QED
  BY <1>2, <1>3, <1>4, <1>5, <1>6 DEF ClientInv

\* A setting that changes.
LEMMA ChangedKeeps ==
  ASSUME ClientInv, NEW s \in Settings, NEW filters \in BOOLEAN, Changed(s, filters),
         ~filters => s.mean = set.mean /\ s.median = set.median /\ s.rate = set.rate
  PROVE  ClientInv'
<1>1. /\ WindowTypes /\ HistoryInv /\ ServerInv /\ LengthsInv /\ MarkersInv
      /\ set' = s /\ steady' = (steady /\ ~filters /\ SafeSettings(s))
      /\ UNCHANGED <<kind, view, shown, mpTimer, boxes, mValues, strings, connected>>
      /\ UNCHANGED <<server, crashed, rows, stops, answered, got, all, calm>>
  BY DEF ClientInv, Changed, window
<1>2. steady' \in BOOLEAN
  BY <1>1
<1>3. WindowTypes'
  BY <1>1, <1>2 DEF WindowTypes
<1>4. HistoryInv'
  BY <1>1 DEF HistoryInv, Running
<1>5. ServerInv'
  BY <1>1 DEF ServerInv
<1>6. LengthsInv'
  <2>1. steady' => /\ steady /\ SafeSettings(set)'
                   /\ set'.mean = set.mean /\ set'.median = set.median
                   /\ set'.rate = set.rate
    BY <1>1 DEF SafeSettings
  <2>2. kind \in Kinds => Lengths(view)'
    BY <1>1, <2>1, LengthsStay DEF LengthsInv
  <2>3. QED
    BY <1>1, <2>1, <2>2 DEF LengthsInv
<1>7. MarkersInv'
  BY <1>1 DEF MarkersInv
<1>8. QED
  BY <1>3, <1>4, <1>5, <1>6, <1>7 DEF ClientInv

\* What an imported configuration makes of settings are settings.
LEMMA VariableSet ==
  ASSUME NEW s \in Settings, NEW m \in MaxData, NEW g \in GuiRate
  PROVE  SetVariable(s, m, g) \in Settings
<1>1. [s EXCEPT !.maxData = m] \in Settings
  BY DEF Settings
<1>2. PICK t \in Settings : t = [s EXCEPT !.maxData = m]
  BY <1>1
<1>3. PICK r \in GuiRate \cup {1000} : r = IF g \div 1000 # 0 THEN g ELSE s.rate
  BY DEF Settings
<1>4. [t EXCEPT !.rate = r] \in Settings
  BY DEF Settings
<1>5. SetVariable(s, m, g) = [s EXCEPT !.maxData = m, !.rate = r]
  BY <1>3 DEF SetVariable, Settings
<1>6. [s EXCEPT !.maxData = m, !.rate = r] = [[s EXCEPT !.maxData = m] EXCEPT !.rate = r]
  BY DEF Settings
<1>7. QED
  BY <1>2, <1>4, <1>5, <1>6

\* All the settings.
LEMMA SettingsKeep ==
  ClientInv /\ (SetMaxData \/ SpinBoxIntervalMean \/ SpinBoxIntervalMedian \/ SetGuiInterval
                \/ ImportConfig) => ClientInv'
<1>0. ClientInv => set \in Settings
  BY DEF ClientInv, WindowTypes
<1>1. ASSUME ClientInv, SetMaxData PROVE ClientInv'
  <2>1. PICK m \in MaxData : Changed([set EXCEPT !.maxData = m], FALSE)
    BY <1>1 DEF SetMaxData
  <2>2. PICK s : s = [set EXCEPT !.maxData = m]
    OBVIOUS
  <2>3. /\ s \in Settings /\ s.mean = set.mean /\ s.median = set.median
        /\ s.rate = set.rate
    BY <1>0, <1>1, <2>2 DEF Settings
  <2>4. QED
    BY <1>1, <2>1, <2>2, <2>3, ChangedKeeps
<1>2. ASSUME ClientInv, SpinBoxIntervalMean PROVE ClientInv'
  <2>1. PICK n \in Intervals : Changed([set EXCEPT !.mean = n], TRUE)
    BY <1>2 DEF SpinBoxIntervalMean
  <2>2. [set EXCEPT !.mean = n] \in Settings
    BY <1>0, <1>2 DEF Settings
  <2>3. QED
    BY <1>2, <2>1, <2>2, ChangedKeeps
<1>3. ASSUME ClientInv, SpinBoxIntervalMedian PROVE ClientInv'
  <2>1. PICK n \in Intervals : Changed([set EXCEPT !.median = n], TRUE)
    BY <1>3 DEF SpinBoxIntervalMedian
  <2>2. [set EXCEPT !.median = n] \in Settings
    BY <1>0, <1>3 DEF Settings
  <2>3. QED
    BY <1>3, <2>1, <2>2, ChangedKeeps
<1>4. ASSUME ClientInv, SetGuiInterval PROVE ClientInv'
  <2>1. PICK g \in GuiRate : Changed([set EXCEPT !.rate = g], TRUE)
    BY <1>4 DEF SetGuiInterval
  <2>2. [set EXCEPT !.rate = g] \in Settings
    BY <1>0, <1>4, BoundsAssumption DEF Settings
  <2>3. QED
    BY <1>4, <2>1, <2>2, ChangedKeeps
<1>5. ASSUME ClientInv, ImportConfig PROVE ClientInv'
  <2>1. PICK m \in MaxData, g \in GuiRate : Changed(SetVariable(set, m, g), TRUE)
    BY <1>5 DEF ImportConfig
  <2>2. SetVariable(set, m, g) \in Settings
    <3>1. set \in Settings
      BY <1>0, <1>5
    <3>2. QED
      BY <2>1, <3>1, VariableSet
  <2>3. QED
    BY <1>5, <2>1, <2>2, ChangedKeeps
<1>6. QED
  BY <1>1, <1>2, <1>3, <1>4, <1>5

\* Times stay in their order when a later row is appended.
LEMMA OrderedThen ==
  ASSUME NEW t \in Nat, NEW u \in Nat, t <= u, NEW row \in RowSet, row.time = u,
         NEW old \in Seq(RowSet), NEW g, Appended(g, old, row),
         \A k \in 1 .. Len(old) : old[k].time <= t,
         \A k \in 1 .. Len(old) - 1 : old[k].time <= old[k + 1].time
  PROVE  /\ \A k \in 1 .. Len(g) : g[k].time <= u
         /\ \A k \in 1 .. Len(g) - 1 : g[k].time <= g[k + 1].time
<1>1. PICK m \in Nat : m = Len(old)
  BY LenProperties
<1>2. PICK n \in Nat : n = Len(g) /\ m <= n
  BY <1>1, LenProperties DEF Appended
<1>3. /\ \A k \in 1 .. m : g[k] = old[k] /\ old[k] \in RowSet
      /\ \A k \in m + 1 .. n : g[k] = row
  BY <1>1, <1>2, ElementOfSeq DEF Appended
<1>4. \A k \in 1 .. m : old[k].time \in Nat
  BY <1>3, BoundsAssumption DEF RowSet
<1>5. ASSUME NEW k \in 1 .. n PROVE g[k].time <= u
  <2>1. CASE k \in 1 .. m
    BY <1>1, <1>3, <1>4, <2>1
  <2>2. CASE k \in m + 1 .. n
    BY <1>3, <2>2
  <2>3. QED
    BY <2>1, <2>2
<1>6. ASSUME NEW k \in 1 .. n - 1 PROVE g[k].time <= g[k + 1].time
  <2>1. k + 1 \in 1 .. n
    BY <1>6
  <2>2. CASE k + 1 \in 1 .. m
    BY <1>1, <1>3, <2>2
  <2>3. CASE k + 1 \in m + 1 .. n
    BY <1>3, <1>5, <2>3
  <2>4. QED
    BY <2>1, <2>2, <2>3
<1>7. QED
  BY <1>2, <1>5, <1>6

\* The same sequence, continued by one row.
LEMMA OneAppended ==
  ASSUME NEW old \in Seq(RowSet), NEW row \in RowSet, NEW g, Appended(g, old, row),
         Len(g) = Len(old) + 1
  PROVE  g = Append(old, row)
<1>1. PICK m \in Nat : m = Len(old)
  BY LenProperties
<1>2. PICK a : a = Append(old, row)
  OBVIOUS
<1>3. /\ a \in Seq(RowSet) /\ Len(a) = m + 1 /\ a[m + 1] = row
      /\ \A i \in 1 .. m : a[i] = old[i]
  BY <1>1, <1>2, AppendProperties
<1>4. g \in Seq(RowSet) /\ Len(g) = m + 1
  BY <1>1 DEF Appended
<1>5. ASSUME NEW i \in 1 .. m + 1 PROVE g[i] = a[i]
  BY <1>1, <1>3, <1>4 DEF Appended
<1>6. QED
  BY <1>2, <1>3, <1>4, <1>5, SeqEqual

\* The answer to a plot: the strings are those of all applications.
LEMMA AnswerIs ==
  ASSUME NEW last, NEW signals \in Seq(Signals)
  PROVE  /\ Received(last, <<>>, signals).strings = signals
         /\ ExtractAppSignals(signals) = signals
<1>1. PICK empty : empty = <<>> /\ empty \in Seq(Signals)
  BY EmptySeq
<1>2. Received(last, empty, signals).strings = empty \o signals
  BY <1>1, ReceivedIs
<1>3. empty \o signals = signals
  BY <1>1, ConcatEmptySeq
<1>4. \A i \in 1 .. Len(signals) : signals[i].kind \in {"y", "z"}
  <2>1. ASSUME NEW i \in 1 .. Len(signals) PROVE signals[i].kind \in {"y", "z"}
    <3>1. signals[i] \in Signals
      BY ElementOfSeq
    <3>2. QED
      BY <3>1 DEF Signals
  <2>2. QED
    BY <2>1
<1>5. ExtractAppSignals(signals) = signals
  BY <1>4, SignalsAre
<1>6. QED
  BY <1>1, <1>2, <1>3, <1>5

\* An answer, and what the slots behind it make of it.
LEMMA RequestDataKeeps ==
  ASSUME ClientInv, NEW slow \in BOOLEAN, RequestData(slow)
  PROVE  ClientInv'
<1>1. /\ WindowTypes /\ HistoryInv /\ ServerInv /\ LengthsInv /\ MarkersInv
      /\ crashed = "no" /\ Running /\ mpTimer /\ connected
      /\ rows < MaxRows /\ rows' = rows + 1
      /\ UNCHANGED <<kind, set, shown, mpTimer, connected, server, stops, steady>>
  BY DEF ClientInv, RequestData, Running
<1>2. PICK l \in Level, ps \in IF kind = "Overview" THEN Processes ELSE {<<>>} :
        LET row == [time |-> rows + 1, level |-> l]
            data == Received(LastOf(row), ps, server.mApplications)
        IN /\ mValues' = [row |-> row, filled |-> data.values # <<>>]
           /\ strings' = data.strings
           /\ answered' = Append(answered, row)
           /\ IF slow
                THEN /\ boxes' = Append(boxes, Slots) /\ calm' = FALSE
                     /\ UNCHANGED <<view, got, all, crashed>>
                ELSE /\ UpdateSlots(Slots, row, ExtractAppSignals(data.strings))
                     /\ UNCHANGED <<boxes, calm>>
  BY DEF RequestData
<1>3. PICK row : row = [time |-> rows + 1, level |-> l]
  OBVIOUS
<1>4. PICK data : data = Received(LastOf(row), ps, server.mApplications)
  OBVIOUS
<1>5. PICK sig : sig = ExtractAppSignals(data.strings)
  OBVIOUS
<1>6. /\ mValues' = [row |-> row, filled |-> data.values # <<>>]
      /\ strings' = data.strings /\ answered' = Append(answered, row)
      /\ slow => /\ boxes' = Append(boxes, Slots) /\ calm' = FALSE
                 /\ UNCHANGED <<view, got, all, crashed>>
      /\ ~slow => UpdateSlots(Slots, row, sig) /\ UNCHANGED <<boxes, calm>>
  BY <1>2, <1>3, <1>4, <1>5
<1>7. rows \in Nat /\ rows + 1 \in 1 .. MaxRows
  BY <1>1, BoundsAssumption DEF WindowTypes
<1>8. row \in RowSet /\ row.time = rows + 1 /\ row # None
  <2>1. row.time = rows + 1 /\ row \in RowSet
    BY <1>3, <1>7 DEF RowSet
  <2>2. None.time = 0
    BY DEF None
  <2>3. QED
    BY <1>7, <2>1, <2>2
<1>9. got \in Seq(RowSet) /\ answered \in Seq(RowSet) /\ Slots \in Nat
  BY <1>1 DEF WindowTypes, Slots
<1>10. PICK n \in Nat : n = Len(answered)
  BY <1>9, LenProperties
<1>11. /\ answered' \in Seq(RowSet) /\ Len(answered') = n + 1 /\ answered' # <<>>
       /\ answered'[n + 1] = row /\ \A j \in 1 .. n : answered'[j] = answered[j]
  BY <1>6, <1>8, <1>9, <1>10, AppendProperties
<1>12. \A k \in 1 .. Len(got) : \E j \in 1 .. n + 1 : got[k] = answered'[j]
  <2>1. CASE answered = <<>>
    <3>1. got = <<>>
      BY <1>1, <2>1 DEF HistoryInv
    <3>2. Len(got) = 0
      BY <3>1, EmptyIs
    <3>3. QED
      BY <3>2
  <2>2. CASE answered # <<>>
    BY <1>1, <1>10, <1>11, <2>2 DEF HistoryInv
  <2>3. QED
    BY <2>1, <2>2
<1>13. kind \in Kinds => strings' = server.mApplications /\ sig = server.mApplications
  <2>1. SUFFICES ASSUME kind \in Kinds
                 PROVE  strings' = server.mApplications /\ sig = server.mApplications
    OBVIOUS
  <2>2. ps = <<>>
    BY <1>2, <2>1 DEF Kinds
  <2>3. PICK signals \in Seq(Signals) : signals = server.mApplications
    BY <1>1 DEF WindowTypes
  <2>4. PICK last : last = LastOf(row)
    OBVIOUS
  <2>5. data.strings = signals
    BY <1>4, <2>2, <2>3, <2>4, AnswerIs
  <2>6. QED
    BY <1>5, <1>6, <2>3, <2>5, AnswerIs
<1>14. mValues' \in [row : RowSet \cup {None}, filled : BOOLEAN] /\ mValues'.row = row
  BY <1>6, <1>8
<1>15. kind \in Kinds => IsSeq(server.mApplications)
  BY <1>1, SeqIs DEF WindowTypes
<1>16. CASE slow
  <2>1. /\ boxes' = Append(boxes, Slots) /\ calm' = FALSE
        /\ UNCHANGED <<view, got, all, crashed>>
    BY <1>6, <1>16
  <2>2. boxes' \in Seq(Nat) /\ rows' \in Nat
    BY <1>1, <1>7, <1>9, <2>1, AppendProperties DEF WindowTypes
  <2>3. WindowTypes'
    BY <1>1, <1>11, <1>14, <2>1, <2>2 DEF WindowTypes
  <2>4. \A k \in 1 .. Len(got) : got[k].time <= rows'
    <3>1. ASSUME NEW k \in 1 .. Len(got) PROVE got[k].time <= rows + 1
      <4>1. got[k] \in RowSet
        BY <1>9, ElementOfSeq
      <4>2. got[k].time \in Nat /\ got[k].time <= rows
        BY <1>1, <4>1, BoundsAssumption DEF HistoryInv, RowSet
      <4>3. QED
        BY <1>7, <4>2
    <3>2. QED
      BY <1>1, <3>1
  <2>5. HistoryInv'
    BY <1>1, <1>8, <1>11, <1>12, <1>14, <2>1, <2>4 DEF HistoryInv
  <2>6. ServerInv'
    BY <1>1, <1>8, <1>14, <2>1 DEF ServerInv
  <2>7. LengthsInv'
    BY <1>1, <2>1, LengthsUnchanged
  <2>8. MarkersInv'
    BY <1>1, <1>13, <1>15, <2>1, BeginsSelf DEF MarkersInv
  <2>9. QED
    BY <2>3, <2>5, <2>6, <2>7, <2>8 DEF ClientInv
<1>17. CASE ~slow
  <2>1. UpdateSlots(Slots, row, sig) /\ UNCHANGED <<boxes, calm>>
    BY <1>6, <1>17
  <2>2. PICK slots \in Nat : slots = Slots
    BY <1>9
  <2>3. /\ got' \in Seq(RowSet) /\ all' \in Seq(RowSet)
        /\ Appended(got', got, row)
        /\ crashed' \in {"no", "values", "erase"}
        /\ crashed' = "values" => row = None
        /\ crashed' = "no" => Len(got') = Len(got) + slots
        /\ LengthsInv'
        /\ kind \in Kinds =>
             /\ view'.markers = view.markers /\ view'.currentAppSize = view.currentAppSize
             /\ view'.apps \in {view.apps, sig}
    BY <1>1, <1>8, <2>1, <2>2, SlotsDone
  <2>4. WindowTypes'
    <3>1. rows' \in Nat
      BY <1>1, <1>7
    <3>2. QED
      BY <1>1, <1>11, <1>14, <2>1, <2>3, <3>1 DEF WindowTypes
  <2>5. /\ \A k \in 1 .. Len(got') : got'[k].time <= rows'
        /\ \A k \in 1 .. Len(got') - 1 : got'[k].time <= got'[k + 1].time
    <3>1. PICK g : g = got'
      OBVIOUS
    <3>2. rows + 1 \in Nat /\ rows <= rows + 1
      BY <1>7
    <3>3. /\ \A k \in 1 .. Len(g) : g[k].time <= rows + 1
          /\ \A k \in 1 .. Len(g) - 1 : g[k].time <= g[k + 1].time
      <4>1. /\ \A k \in 1 .. Len(got) : got[k].time <= rows
            /\ \A k \in 1 .. Len(got) - 1 : got[k].time <= got[k + 1].time
        BY <1>1 DEF HistoryInv
      <4>2. PICK t \in Nat, u \in Nat : t = rows /\ u = rows + 1
        BY <1>7
      <4>3. PICK old \in Seq(RowSet) : old = got
        BY <1>9
      <4>4. Appended(g, old, row)
        BY <2>3, <3>1, <4>3
      <4>5. t <= u /\ row.time = u
        BY <1>8, <4>2
      <4>6. /\ \A k \in 1 .. Len(g) : g[k].time <= u
            /\ \A k \in 1 .. Len(g) - 1 : g[k].time <= g[k + 1].time
        BY <1>8, <4>1, <4>2, <4>3, <4>4, <4>5, OrderedThen
      <4>7. QED
        BY <4>2, <4>6
    <3>4. QED
      BY <1>1, <3>1, <3>3
  <2>6. \A k \in 1 .. Len(got') : \E j \in 1 .. n + 1 : got'[k] = answered'[j]
    <3>1. Len(got) \in Nat /\ Len(got') \in Nat
      BY <1>9, <2>3, LenProperties
    <3>2. ASSUME NEW k \in 1 .. Len(got') PROVE \E j \in 1 .. n + 1 : got'[k] = answered'[j]
      <4>1. CASE k \in 1 .. Len(got)
        BY <1>12, <2>3, <4>1 DEF Appended
      <4>2. CASE k \in Len(got) + 1 .. Len(got')
        BY <1>11, <2>3, <4>2 DEF Appended
      <4>3. QED
        BY <3>1, <4>1, <4>2
    <3>3. QED
      BY <3>2
  <2>7. calm' /\ Running' /\ kind' # "Overview" => got' = answered'
    <3>1. SUFFICES ASSUME calm, crashed' = "no", kind # "Overview"
                   PROVE  got' = answered'
      BY <1>1, <2>1 DEF Running
    <3>2. got = answered /\ shown = 1
      BY <1>1, <3>1 DEF HistoryInv
    <3>3. slots = 1
      BY <2>2, <3>1, <3>2 DEF Slots
    <3>4. Len(got') = Len(got) + 1
      BY <2>3, <3>1, <3>3
    <3>5. PICK g : g = got'
      OBVIOUS
    <3>6. g = Append(got, row)
      BY <1>8, <1>9, <2>3, <3>4, <3>5, OneAppended
    <3>7. QED
      BY <1>6, <3>2, <3>5, <3>6
  <2>8. HistoryInv'
    BY <1>1, <1>8, <1>11, <1>14, <2>1, <2>5, <2>6, <2>7 DEF HistoryInv
  <2>9. ServerInv'
    BY <1>1, <1>8, <1>14, <2>1, <2>3 DEF ServerInv
  <2>10. MarkersInv'
    <3>1. SUFFICES ASSUME kind \in Kinds, stops = 0 PROVE MarkersInv'
      BY <1>1 DEF MarkersInv
    <3>2. /\ Begins(view.markers, view.apps) /\ Len(view.markers) = view.currentAppSize
          /\ Begins(view.apps, server.mApplications)
      BY <1>1, <3>1 DEF MarkersInv
    <3>3. Begins(server.mApplications, server.mApplications)
      BY <1>15, <3>1, BeginsSelf
    <3>4. Begins(view.markers, server.mApplications)
      BY <3>2, BeginsThen
    <3>5. view'.apps \in {view.apps, server.mApplications}
      BY <1>13, <2>3, <3>1
    <3>6. QED
      BY <1>1, <1>13, <2>3, <3>1, <3>2, <3>3, <3>4, <3>5 DEF MarkersInv
  <2>11. QED
    BY <2>3, <2>4, <2>8, <2>9, <2>10 DEF ClientInv
<1>18. QED
  BY <1>16, <1>17

\* The slots behind a box take the row that is in memory when it is closed.
LEMMA CloseBoxKeeps == ClientInv /\ CloseBox => ClientInv'
<1> SUFFICES ASSUME ClientInv, CloseBox PROVE ClientInv'
  OBVIOUS
<1>1. /\ WindowTypes /\ HistoryInv /\ ServerInv /\ LengthsInv /\ MarkersInv
      /\ Running /\ boxes # <<>> /\ boxes' = Front(boxes)
      /\ UNCHANGED <<kind, set, shown, mpTimer, mValues, strings, connected, server>>
      /\ UNCHANGED <<rows, stops, answered, steady, calm>>
  BY DEF ClientInv, CloseBox, bounds
<1>2. PICK row, sig : row = mValues.row /\ sig = ExtractAppSignals(strings)
  OBVIOUS
<1>3. row \in RowSet \cup {None} /\ got \in Seq(RowSet) /\ rows \in Nat /\ ~calm
  BY <1>1, <1>2 DEF WindowTypes, HistoryInv
<1>4. boxes' \in Seq(Nat) /\ Last(boxes) \in Nat
  <2>1. PICK n \in Nat : n = Len(boxes) /\ boxes \in Seq(Nat)
    BY <1>1, LenProperties DEF WindowTypes
  <2>2. n # 0
    BY <1>1, <2>1, EmptySeq, SeqEqual
  <2>3. \A i \in 1 .. n : boxes[i] \in Nat
    BY <2>1, ElementOfSeq
  <2>4. \A i \in 1 .. n - 1 : boxes[i] \in Nat
    BY <2>3
  <2>5. SubSeq(boxes, 1, n - 1) \in Seq(Nat)
    BY <2>1, <2>4, SubSeqProperties
  <2>6. QED
    BY <1>1, <2>1, <2>2, <2>3, <2>5 DEF Front, Last
<1>5. PICK slots \in Nat : slots = Last(boxes)
  BY <1>4
<1>6. UpdateSlots(slots, row, sig)
  BY <1>2, <1>5 DEF CloseBox
<1>7. /\ got' \in Seq(RowSet) /\ all' \in Seq(RowSet)
      /\ Appended(got', got, row)
      /\ crashed' \in {"no", "values", "erase"}
      /\ crashed' = "values" => row = None
      /\ row = None => got' = got
      /\ LengthsInv'
      /\ kind \in Kinds =>
           /\ view'.markers = view.markers /\ view'.currentAppSize = view.currentAppSize
           /\ view'.apps \in {view.apps, sig}
  BY <1>1, <1>3, <1>6, SlotsDone
<1>8. WindowTypes'
  BY <1>1, <1>4, <1>7 DEF WindowTypes
<1>9. /\ \A k \in 1 .. Len(got) : got[k].time <= rows
      /\ \A k \in 1 .. Len(got) - 1 : got[k].time <= got[k + 1].time
  BY <1>1 DEF HistoryInv
<1>10. /\ \A k \in 1 .. Len(got') : got'[k].time <= rows'
       /\ \A k \in 1 .. Len(got') - 1 : got'[k].time <= got'[k + 1].time
  <2>1. CASE row = None
    BY <1>1, <1>7, <1>9, <2>1
  <2>2. CASE row # None
    <3>1. PICK g : g = got'
      OBVIOUS
    <3>2. PICK old \in Seq(RowSet) : old = got
      BY <1>3
    <3>3. PICK t \in Nat : t = rows
      BY <1>3
    <3>4. row \in RowSet /\ row.time = t /\ t <= t
      BY <1>1, <1>2, <1>3, <2>2, <3>3 DEF HistoryInv
    <3>5. Appended(g, old, row)
      BY <1>7, <3>1, <3>2
    <3>6. /\ \A k \in 1 .. Len(old) : old[k].time <= t
          /\ \A k \in 1 .. Len(old) - 1 : old[k].time <= old[k + 1].time
      BY <1>9, <3>2, <3>3
    <3>7. /\ \A k \in 1 .. Len(g) : g[k].time <= t
          /\ \A k \in 1 .. Len(g) - 1 : g[k].time <= g[k + 1].time
      BY <3>4, <3>5, <3>6, OrderedThen
    <3>8. QED
      BY <1>1, <3>1, <3>3, <3>7
  <2>3. QED
    BY <2>1, <2>2
<1>11. ASSUME answered # <<>>, NEW k \in 1 .. Len(got')
       PROVE  \E j \in 1 .. Len(answered) : got'[k] = answered[j]
  <2>1. \A i \in 1 .. Len(got) : \E j \in 1 .. Len(answered) : got[i] = answered[j]
    BY <1>1, <1>11 DEF HistoryInv
  <2>2. row = answered[Len(answered)]
    BY <1>1, <1>2, <1>11 DEF HistoryInv
  <2>3. Len(answered) \in 1 .. Len(answered)
    <3>1. answered \in Seq(RowSet) /\ Len(answered) \in Nat
      BY <1>1, LenProperties DEF WindowTypes
    <3>2. Len(answered) # 0
      BY <1>11, <3>1, EmptySeq, SeqEqual
    <3>3. QED
      BY <3>1, <3>2
  <2>4. Len(got) \in Nat /\ Len(got') \in Nat
    BY <1>3, <1>7, LenProperties
  <2>5. CASE k \in 1 .. Len(got)
    BY <1>7, <2>1, <2>5 DEF Appended
  <2>6. CASE k \in Len(got) + 1 .. Len(got')
    BY <1>7, <2>2, <2>3, <2>6 DEF Appended
  <2>7. QED
    BY <1>11, <2>4, <2>5, <2>6
<1>12. HistoryInv'
  BY <1>1, <1>3, <1>10, <1>11 DEF HistoryInv
<1>13. ServerInv'
  BY <1>1, <1>2, <1>7 DEF ServerInv
<1>14. MarkersInv'
  <2>1. SUFFICES ASSUME kind \in Kinds, stops = 0 PROVE MarkersInv'
    BY <1>1 DEF MarkersInv
  <2>2. /\ Begins(view.markers, view.apps) /\ Len(view.markers) = view.currentAppSize
        /\ Begins(view.apps, server.mApplications)
        /\ Begins(strings, server.mApplications) /\ Begins(view.apps, strings)
    BY <1>1, <2>1 DEF MarkersInv
  <2>3. sig = strings
    <3>1. PICK signals \in Seq(Signals) : signals = server.mApplications
      BY <1>1 DEF WindowTypes
    <3>2. IsSeq(strings)
      BY <2>2 DEF Begins
    <3>3. PICK E : strings \in Seq(E)
      BY <3>2, IsSeqOf
    <3>4. ASSUME NEW i \in 1 .. Len(strings) PROVE strings[i].kind \in {"y", "z"}
      <4>1. strings[i] = signals[i] /\ i \in 1 .. Len(signals)
        <5>1. Len(strings) \in Nat /\ Len(signals) \in Nat /\ Len(strings) <= Len(signals)
          BY <2>2, <3>1, <3>2, LenProperties DEF Begins, IsSeq
        <5>2. QED
          BY <2>2, <3>1, <5>1 DEF Begins
      <4>2. signals[i] \in Signals
        BY <4>1, ElementOfSeq
      <4>3. QED
        BY <4>1, <4>2 DEF Signals
    <3>5. QED
      BY <1>2, <3>3, <3>4, SignalsAre
  <2>4. Begins(view.markers, strings)
    BY <2>2, BeginsThen
  <2>5. Begins(strings, strings)
    BY <2>2, BeginsSelf DEF Begins
  <2>6. view'.apps \in {view.apps, strings}
    BY <1>7, <2>1, <2>3
  <2>7. QED
    BY <1>1, <1>7, <2>1, <2>2, <2>4, <2>5, <2>6 DEF MarkersInv
<1>15. QED
  BY <1>7, <1>8, <1>12, <1>13, <1>14 DEF ClientInv

\* A redraw adds the missing markers.
LEMMA RedrawKeeps == ClientInv /\ Redraw => ClientInv'
<1> SUFFICES ASSUME ClientInv, Redraw PROVE ClientInv'
  OBVIOUS
<1>1. /\ WindowTypes /\ HistoryInv /\ ServerInv /\ LengthsInv /\ MarkersInv
      /\ UNCHANGED <<kind, set, shown, mpTimer, boxes, mValues, strings, connected, server>>
      /\ UNCHANGED <<crashed, rows, stops, answered, got, all, steady, calm>>
  BY DEF ClientInv, Redraw, bounds, history, window
<1>2. WindowTypes'
  BY <1>1 DEF WindowTypes
<1>3. HistoryInv'
  BY <1>1 DEF HistoryInv, Running
<1>4. ServerInv'
  BY <1>1 DEF ServerInv
<1>5. ASSUME kind \in Kinds
      PROVE  /\ Lengths(view)' /\ view'.apps = view.apps
             /\ stops = 0 => /\ Begins(view'.markers, view.apps)
                             /\ Len(view'.markers) = view'.currentAppSize
  <2>1. PICK p : p = RedrawApplications(view)
    OBVIOUS
  <2>2. view' = p
    BY <1>5, <2>1 DEF Redraw, Kinds
  <2>3. Lengths(view)
    BY <1>1, <1>5 DEF LengthsInv
  <2>4. DOMAIN view = Fields
    BY <2>3 DEF Lengths
  <2>5. /\ DOMAIN p = Fields /\ p.times = view.times /\ p.values = view.values
        /\ p.mean = view.mean /\ p.median = view.median /\ p.apps = view.apps
    BY <2>1, <2>4 DEF RedrawApplications, Fields
  <2>6. Lengths(p)
    BY <2>3, <2>5 DEF Lengths
  <2>7. Lengths(view)'
    BY <1>1, <2>2, <2>6, LengthsStay
  <2>8. ASSUME stops = 0
        PROVE  Begins(p.markers, view.apps) /\ Len(p.markers) = p.currentAppSize
    <3>1. /\ Begins(view.markers, view.apps) /\ Len(view.markers) = view.currentAppSize
          /\ IsSeq(view.apps)
      BY <1>1, <1>5, <2>8 DEF MarkersInv, Begins
    <3>2. QED
      BY <2>1, <2>4, <3>1, Redrawn
  <2>9. QED
    BY <2>2, <2>5, <2>7, <2>8
<1>6. LengthsInv'
  BY <1>1, <1>5 DEF LengthsInv, SafeSettings
<1>7. MarkersInv'
  BY <1>1, <1>5 DEF MarkersInv
<1>8. QED
  BY <1>2, <1>3, <1>4, <1>6, <1>7 DEF ClientInv

\* An application signals the server.
LEMMA SignalKeeps == ClientInv /\ Signal => ClientInv'
<1> SUFFICES ASSUME ClientInv, Signal PROVE ClientInv'
  OBVIOUS
<1>1. /\ WindowTypes /\ HistoryInv /\ ServerInv /\ LengthsInv /\ MarkersInv
      /\ UNCHANGED <<kind, view, set, shown, mpTimer, boxes, mValues, strings, connected>>
      /\ UNCHANGED <<crashed, rows, stops, answered, got, all, steady, calm>>
  BY DEF ClientInv, Signal, history, window
<1>2. PICK signals \in Seq(Signals) : signals = server.mApplications
  BY <1>1 DEF WindowTypes
<1>3. PICK n \in Nat : n = Len(signals)
  BY LenProperties
<1>4. PICK e : e = [kind |-> IF n % 2 = 0 THEN "y" ELSE "z", pid |-> <<stops, n>>]
  OBVIOUS
<1>5. e \in Signals
  BY <1>1, <1>4 DEF Signals, WindowTypes
<1>6. PICK t : t = Append(signals, e)
  OBVIOUS
<1>7. t \in Seq(Signals)
  BY <1>5, <1>6, AppendProperties
<1>8. server' = [server EXCEPT !.mApplications = t]
  BY <1>2, <1>3, <1>4, <1>6 DEF Signal
<1>9. /\ server' \in [up : BOOLEAN, mApplications : Seq(Signals)]
      /\ server'.up = server.up /\ server'.mApplications = t
  BY <1>1, <1>7, <1>8 DEF WindowTypes
<1>10. WindowTypes'
  BY <1>1, <1>9 DEF WindowTypes
<1>11. HistoryInv'
  BY <1>1 DEF HistoryInv, Running
<1>12. ServerInv'
  BY <1>1, <1>9 DEF ServerInv
<1>13. LengthsInv'
  BY <1>1, LengthsUnchanged
<1>14. MarkersInv'
  <2>1. ASSUME NEW s, Begins(s, server.mApplications) PROVE Begins(s, t)
    BY <1>2, <1>6, <2>1, BeginsMore, SeqIs
  <2>2. QED
    BY <1>1, <1>9, <2>1 DEF MarkersInv
<1>15. QED
  BY <1>10, <1>11, <1>12, <1>13, <1>14 DEF ClientInv

\* The server stops or is started again.
LEMMA ServerKeeps == ClientInv /\ (ServerStops \/ ServerStarts) => ClientInv'
<1> SUFFICES ASSUME ClientInv, ServerStops \/ ServerStarts PROVE ClientInv'
  OBVIOUS
<1>1. /\ WindowTypes /\ HistoryInv /\ ServerInv /\ LengthsInv /\ MarkersInv
      /\ UNCHANGED <<kind, view, set, shown, mpTimer, boxes, mValues, strings>>
      /\ UNCHANGED <<crashed, rows, answered, got, all, steady, calm>>
  BY DEF ClientInv, ServerStops, ServerStarts, history, window, bounds
<1>2. stops \in Nat /\ stops' \in Nat /\ stops' > 0
  <2>1. stops \in Nat
    BY <1>1 DEF WindowTypes
  <2>2. CASE ServerStops
    BY <2>1, <2>2 DEF ServerStops
  <2>3. CASE ServerStarts
    BY <1>1, <2>1, <2>3 DEF ServerStarts, ServerInv, history
  <2>4. QED
    BY <2>1, <2>2, <2>3
<1>3. WindowTypes'
  <2>1. connected' \in BOOLEAN
    BY <1>1 DEF WindowTypes, ServerStops, ServerStarts
  <2>2. server' \in [up : BOOLEAN, mApplications : Seq(Signals)]
    <3>1. <<>> \in Seq(Signals)
      BY EmptySeq
    <3>2. server \in [up : BOOLEAN, mApplications : Seq(Signals)]
      BY <1>1 DEF WindowTypes
    <3>3. CASE ServerStops
      <4>1. server' = [server EXCEPT !.up = FALSE]
        BY <3>3 DEF ServerStops
      <4>2. QED
        BY <3>2, <4>1
    <3>4. CASE ServerStarts
      <4>1. server' = [up |-> TRUE, mApplications |-> <<>>]
        BY <3>4 DEF ServerStarts
      <4>2. QED
        BY <3>1, <4>1
    <3>5. QED
      BY <3>3, <3>4
  <2>3. QED
    BY <1>1, <1>2, <2>1, <2>2 DEF WindowTypes
<1>4. HistoryInv'
  BY <1>1 DEF HistoryInv, Running
<1>5. ServerInv'
  BY <1>2 DEF ServerInv
<1>6. LengthsInv'
  BY <1>1, LengthsUnchanged
<1>7. MarkersInv'
  BY <1>2 DEF MarkersInv
<1>8. QED
  BY <1>3, <1>4, <1>5, <1>6, <1>7 DEF ClientInv

\* The invariant of the window, whatever view is shown: what RunsOn and
\* RowsAreAnswers need of the rows, of the lengths of the vectors and of the
\* markers (mainwindow.cpp, QMSMplot.cpp).
THEOREM ClientInvariant == CSpec => []ClientInv
<1>1. CInit => ClientInv
  BY ClientInit
<1>2. ClientInv /\ [CNext]_cvars => ClientInv'
  <2> SUFFICES ASSUME ClientInv, [CNext]_cvars PROVE ClientInv'
    OBVIOUS
  <2>1. CASE UNCHANGED cvars
    <3>1. /\ WindowTypes /\ HistoryInv /\ ServerInv /\ LengthsInv /\ MarkersInv
          /\ UNCHANGED <<kind, view, set, shown, mpTimer, boxes, mValues, strings>>
          /\ UNCHANGED <<connected, server, crashed, rows, stops, answered, got, all>>
          /\ UNCHANGED <<steady, calm>>
      BY <2>1 DEF ClientInv, cvars, history, window, bounds
    <3>2. WindowTypes'
      BY <3>1 DEF WindowTypes
    <3>3. HistoryInv' /\ ServerInv' /\ MarkersInv'
      BY <3>1 DEF HistoryInv, ServerInv, MarkersInv, Running
    <3>4. LengthsInv'
      BY <3>1, LengthsUnchanged
    <3>5. QED
      BY <3>2, <3>3, <3>4 DEF ClientInv
  <2>2. CASE RequestData(TRUE) \/ RequestData(FALSE)
    BY <2>2, RequestDataKeeps
  <2>3. CASE Start \/ Stop \/ RequestFails \/ CloseBox \/ Redraw \/ Show
    BY <2>3, StartKeeps, StopKeeps, RequestFailsKeeps, CloseBoxKeeps, RedrawKeeps,
       ShowKeeps
  <2>4. CASE \/ SetMaxData \/ SpinBoxIntervalMean \/ SpinBoxIntervalMedian
             \/ SetGuiInterval \/ ImportConfig
    BY <2>4, SettingsKeep
  <2>5. CASE Signal \/ ServerStops \/ ServerStarts
    BY <2>5, SignalKeeps, ServerKeeps
  <2>6. QED
    BY <2>1, <2>2, <2>3, <2>4, <2>5 DEF CNext
<1>3. QED
  BY <1>1, <1>2, PTL DEF CSpec

\* The client never erases a mean or median that is not there while the
\* settings are steady, and reads a row that is not there only when the server
\* has stopped.
THEOREM ClientRunsOn == CSpec => []RunsOn
<1>1. ClientInv => RunsOn
  BY DEF ClientInv, LengthsInv, ServerInv, RunsOn
<1>2. QED
  BY <1>1, ClientInvariant, PTL

\* The rows a view takes are those the server answered, in their order, and a
\* plot marks the applications in the order they signalled.
THEOREM ClientRowsAreAnswers == CSpec => []RowsAreAnswers
<1>1. ASSUME ClientInv PROVE RowsAreAnswers
  <2>1. WindowTypes /\ HistoryInv /\ LengthsInv /\ MarkersInv
    BY <1>1 DEF ClientInv
  <2>2. answered # <<>> => ToSet(got) \subseteq ToSet(answered)
    <3>1. DOMAIN got = 1 .. Len(got) /\ DOMAIN answered = 1 .. Len(answered)
      BY <2>1, LenProperties DEF WindowTypes
    <3>2. QED
      BY <2>1, <3>1 DEF HistoryInv, ToSet
  <2>3. ASSUME kind \in Kinds, stops = 0
        PROVE  view.markers = SubSeq(server.mApplications, 1, view.currentAppSize)
    <3>1. /\ Begins(view.markers, view.apps) /\ Len(view.markers) = view.currentAppSize
          /\ Begins(view.apps, server.mApplications)
      BY <2>1, <2>3 DEF MarkersInv
    <3>2. Begins(view.markers, server.mApplications)
      BY <3>1, BeginsThen
    <3>3. PICK markers : markers = view.markers
      OBVIOUS
    <3>4. PICK signals \in Seq(Signals) : signals = server.mApplications
      BY <2>1 DEF WindowTypes
    <3>5. /\ IsSeq(markers) /\ Len(markers) <= Len(signals)
          /\ \A i \in 1 .. Len(markers) : markers[i] = signals[i]
      BY <3>2, <3>4, <3>3 DEF Begins
    <3>6. PICK n \in Nat : n = Len(markers)
      BY <3>5 DEF IsSeq
    <3>7. PICK m \in Nat : m = Len(signals) /\ n <= m
      BY <3>5, <3>6, LenProperties
    <3>8. \A i \in 1 .. n : signals[i] \in Signals
      BY <3>7, ElementOfSeq
    <3>9. PICK first : first = SubSeq(signals, 1, n)
      OBVIOUS
    <3>10. /\ first \in Seq(Signals) /\ Len(first) = IF 1 <= n THEN n - 1 + 1 ELSE 0
          /\ \A i \in 1 .. n - 1 + 1 : first[i] = signals[1 + i - 1]
      BY <3>8, <3>9, SubSeqProperties
    <3>11. Len(first) = n /\ \A i \in 1 .. n : first[i] = signals[i]
      BY <3>10
    <3>12. first = [i \in 1 .. n |-> signals[i]]
      BY <3>10, <3>11, SeqIs DEF IsSeq
    <3>13. markers = [i \in 1 .. n |-> signals[i]]
      BY <3>5, <3>6 DEF IsSeq
    <3>14. QED
      BY <3>1, <3>4, <3>6, <3>9, <3>12, <3>13, <3>3
  <2>4. QED
    BY <2>1, <2>2, <2>3 DEF HistoryInv, RowsAreAnswers
<1>2. QED
  BY <1>1, ClientInvariant, PTL

-----------------------------------------------------------------------------
(* The median.                                                             *)

-----------------------------------------------------------------------------
(* The median of some values.                                              *)

\* Among finitely many places there is one of a smallest element.
LEMMA SmallestIs ==
  ASSUME NEW s \in Seq(Int), NEW P \in SUBSET (1 .. Len(s)), P # {}
  PROVE  Smallest(s, P) \in P /\ \A j \in P : s[Smallest(s, P)] <= s[j]
<1>1. PICK n \in Nat : n = Len(s)
  BY LenProperties
<1>2. \A i \in 1 .. n : s[i] \in Int
  BY <1>1, ElementOfSeq
<1>3. PICK U : U = {k \in Nat :
                       /\ \E i \in P : i <= k
                       /\ ~\E i \in P : i <= k /\ \A j \in P : j <= k => s[i] <= s[j]}
  OBVIOUS
<1>4. U = {}
  <2>1. SUFFICES ASSUME U # {} PROVE FALSE
    OBVIOUS
  <2>2. PICK m \in U : \A k \in U : m <= k
    <3>1. U \in SUBSET Nat
      BY <1>3
    <3>2. QED
      BY <2>1, <3>1, Least
  <2>3. m \in Nat /\ \E i \in P : i <= m
    BY <1>3, <2>2
  <2>4. ~\E i \in P : i <= m /\ \A j \in P : j <= m => s[i] <= s[j]
    BY <1>3, <2>2
  <2>5. P \subseteq 1 .. n /\ m # 0 /\ m - 1 \in Nat
    <3>1. P \subseteq 1 .. n
      BY <1>1
    <3>2. PICK i \in P : i <= m
      BY <2>3
    <3>3. i >= 1 /\ i \in Nat
      BY <3>1
    <3>4. QED
      BY <2>3, <3>1, <3>2, <3>3
  <2>6. CASE ~\E i \in P : i <= m - 1
    <3>1. \A j \in P : j <= m => j = m
      BY <2>3, <2>5, <2>6
    <3>2. m \in P
      BY <2>3, <3>1
    <3>3. \A j \in P : j <= m => s[m] <= s[j]
      BY <1>2, <2>5, <3>1, <3>2
    <3>4. QED
      BY <2>3, <2>4, <3>2, <3>3
  <2>7. CASE \E i \in P : i <= m - 1
    <3>1. m - 1 \notin U
      BY <2>2, <2>3, <2>5
    <3>2. PICK q \in P : q <= m - 1 /\ \A j \in P : j <= m - 1 => s[q] <= s[j]
      BY <1>3, <2>5, <2>7, <3>1
    <3>3. \A j \in P : j <= m => j <= m - 1 \/ j = m
      BY <2>3, <2>5
    <3>4. q <= m /\ s[q] \in Int
      BY <1>2, <2>3, <2>5, <3>2
    <3>5. CASE m \in P /\ s[m] < s[q]
      <4>1. s[m] \in Int /\ \A j \in P : s[j] \in Int
        BY <1>2, <2>5, <3>5
      <4>2. ASSUME NEW j \in P, j <= m PROVE s[m] <= s[j]
        <5>1. CASE j = m
          BY <4>1, <5>1
        <5>2. CASE j <= m - 1
          BY <3>2, <3>4, <3>5, <4>1, <5>2
        <5>3. QED
          BY <3>3, <4>2, <5>1, <5>2
      <4>3. QED
        BY <2>3, <2>4, <3>5, <4>2
    <3>6. CASE ~(m \in P /\ s[m] < s[q])
      <4>1. \A j \in P : s[j] \in Int
        BY <1>2, <2>5
      <4>2. ASSUME NEW j \in P, j <= m PROVE s[q] <= s[j]
        <5>1. CASE j = m
          BY <3>4, <3>6, <4>1, <5>1
        <5>2. CASE j <= m - 1
          BY <3>2, <5>2
        <5>3. QED
          BY <3>3, <4>2, <5>1, <5>2
      <4>3. QED
        BY <2>4, <3>2, <3>4, <4>2
    <3>7. QED
      BY <3>5, <3>6
  <2>8. QED
    BY <2>6, <2>7
<1>5. P \subseteq 1 .. n /\ \A j \in P : j <= n
  BY <1>1
<1>6. \E i \in P : i <= n
  BY <1>5
<1>7. n \notin U
  BY <1>4
<1>8. \E i \in P : \A j \in P : s[i] <= s[j]
  BY <1>5, <1>6, <1>7, <1>3
<1>9. QED
  BY <1>8 DEF Smallest

\* The places that are left when the k smallest elements are gone, for each k.
LeftBy(f, s, n) ==
  f = [i \in 0 .. n |-> IF i = 0 THEN DOMAIN s ELSE f[i - 1] \ {Smallest(s, f[i - 1])}]

\* There is such a function, by the least number without one.
LEMMA LeftByThere ==
  ASSUME NEW s, NEW n \in Nat
  PROVE  \E f : LeftBy(f, s, n)
<1> DEFINE U == {k \in Nat : ~\E f : LeftBy(f, s, k)}
<1>1. SUFFICES ASSUME U # {} PROVE FALSE
  OBVIOUS
<1>2. PICK m \in U : \A k \in U : m <= k
  <2>1. U \in SUBSET Nat
    OBVIOUS
  <2>2. QED
    BY <1>1, <2>1, Least
<1>3. m \in Nat /\ ~\E f : LeftBy(f, s, m)
  OBVIOUS
<1>4. m # 0
  <2>1. SUFFICES ASSUME m = 0 PROVE FALSE
    OBVIOUS
  <2>2. PICK f : f = [i \in 0 .. 0 |-> DOMAIN s]
    OBVIOUS
  <2>3. f = [i \in 0 .. 0 |-> IF i = 0 THEN DOMAIN s ELSE f[i - 1] \ {Smallest(s, f[i - 1])}]
    BY <2>2
  <2>4. QED
    BY <1>3, <2>1, <2>3 DEF LeftBy
<1>5. m - 1 \in Nat /\ m - 1 \notin U
  BY <1>2, <1>3, <1>4
<1>6. PICK f : LeftBy(f, s, m - 1)
  BY <1>5
<1>7. PICK g : g = [i \in 0 .. m |-> IF i = m THEN f[m - 1] \ {Smallest(s, f[m - 1])} ELSE f[i]]
  OBVIOUS
<1>8. ASSUME NEW i \in 0 .. m
      PROVE  g[i] = IF i = 0 THEN DOMAIN s ELSE g[i - 1] \ {Smallest(s, g[i - 1])}
  <2>1. CASE i = 0
    BY <1>3, <1>4, <1>5, <1>6, <1>7, <2>1 DEF LeftBy
  <2>2. CASE i = m
    <3>1. i # 0 /\ i - 1 \in 0 .. m /\ i - 1 # m /\ i - 1 = m - 1
      BY <1>3, <1>4, <2>2
    <3>2. g[i - 1] = f[m - 1]
      BY <1>7, <3>1
    <3>3. QED
      BY <1>7, <2>2, <3>1, <3>2
  <2>3. CASE i # 0 /\ i # m
    <3>1. i \in 0 .. m - 1 /\ i - 1 \in 0 .. m /\ i - 1 # m
      BY <1>3, <2>3
    <3>2. g[i] = f[i] /\ g[i - 1] = f[i - 1]
      BY <1>7, <2>3, <3>1
    <3>3. f[i] = f[i - 1] \ {Smallest(s, f[i - 1])}
      BY <1>6, <2>3, <3>1 DEF LeftBy
    <3>4. QED
      BY <2>3, <3>2, <3>3
  <2>4. QED
    BY <2>1, <2>2, <2>3
<1>9. g = [i \in 0 .. m |-> IF i = 0 THEN DOMAIN s ELSE g[i - 1] \ {Smallest(s, g[i - 1])}]
  BY <1>7, <1>8
<1>10. QED
  BY <1>3, <1>9 DEF LeftBy


\* Remaining is its last value.
LEMMA RemainingIs ==
  ASSUME NEW s, NEW k \in Nat
  PROVE  \E f : LeftBy(f, s, k) /\ Remaining(s, k) = f[k]
<1>1. PICK f : f = CHOOSE g : LeftBy(g, s, k)
  OBVIOUS
<1>2. LeftBy(f, s, k)
  BY <1>1, LeftByThere
<1>3. Remaining(s, k) = f[k]
  BY <1>1 DEF Remaining, LeftBy
<1>4. QED
  BY <1>2, <1>3

\* The places that are left: all but k, of elements at least as large as the others.
Largest(s, P, n, k) ==
  /\ P \subseteq 1 .. n /\ Cardinality(P) = n - k
  /\ \A i \in 1 .. n, j \in P : i \notin P => s[i] <= s[j]

\* Those that remain are as many, and the largest.
LEMMA LargestAre ==
  ASSUME NEW s \in Seq(Int), NEW n \in Nat, n = Len(s), NEW k \in Nat, k <= n
  PROVE  Largest(s, Remaining(s, k), n, k)
<1>1. PICK f : LeftBy(f, s, k) /\ Remaining(s, k) = f[k]
  BY RemainingIs
<1>2. DOMAIN s = 1 .. n /\ IsFiniteSet(1 .. n) /\ Cardinality(1 .. n) = n
  <2>1. /\ IsFiniteSet(1 .. n)
        /\ Cardinality(1 .. n) = IF 1 > n THEN 0 ELSE n - 1 + 1
    <3>1. 1 \in Int /\ n \in Int
      OBVIOUS
    <3>2. QED
      BY <3>1, FS_Interval
  <2>2. Cardinality(1 .. n) = n
    BY <2>1
  <2>3. QED
    BY <2>1, <2>2, LenProperties
<1>3. \A i \in 1 .. n : s[i] \in Int
  BY ElementOfSeq
<1> DEFINE U == {i \in 0 .. k : ~Largest(s, f[i], n, i)}
<1>4. U = {}
  <2>1. SUFFICES ASSUME U # {} PROVE FALSE
    OBVIOUS
  <2>2. PICK m \in U : \A i \in U : m <= i
    <3>1. U \in SUBSET Nat
      OBVIOUS
    <3>2. QED
      BY <2>1, <3>1, Least
  <2>3. m \in 0 .. k /\ ~Largest(s, f[m], n, m)
    OBVIOUS
  <2>4. m # 0
    <3>1. f[0] = 1 .. n
      BY <1>1, <1>2 DEF LeftBy
    <3>2. Largest(s, f[0], n, 0)
      BY <1>2, <3>1 DEF Largest
    <3>3. QED
      BY <2>3, <3>2
  <2>5. m - 1 \in 0 .. k /\ m - 1 \notin U
    BY <2>2, <2>3, <2>4
  <2>6. PICK P : P = f[m - 1]
    OBVIOUS
  <2>7. Largest(s, P, n, m - 1)
    BY <2>5, <2>6
  <2>8. P \subseteq 1 .. n /\ IsFiniteSet(P) /\ Cardinality(P) = n - (m - 1)
    BY <1>2, <2>7, FS_Subset DEF Largest
  <2>9. P # {}
    <3>1. Cardinality(P) # 0
      BY <2>3, <2>8
    <3>2. QED
      BY <3>1, FS_EmptySet
  <2>10. PICK q : q = Smallest(s, P)
    OBVIOUS
  <2>11. q \in P /\ \A j \in P : s[q] <= s[j]
    BY <2>8, <2>9, <2>10, SmallestIs
  <2>12. f[m] = P \ {q}
    BY <1>1, <2>3, <2>4, <2>6, <2>10 DEF LeftBy
  <2>13. Cardinality(P \ {q}) = n - m
    <3>1. Cardinality(P \ {q}) = n - (m - 1) - 1
      BY <2>8, <2>11, FS_RemoveElement
    <3>2. QED
      BY <2>3, <3>1
  <2>14. Largest(s, P \ {q}, n, m)
    BY <2>7, <2>8, <2>11, <2>13 DEF Largest
  <2>15. QED
    BY <2>3, <2>12, <2>14
<1>5. k \notin U
  BY <1>4
<1>6. QED
  BY <1>1, <1>5

\* The median of the client is one: at most half of the values are less, and
\* less than half are larger.
THEOREM MiddleIs ==
  ASSUME NEW s \in Seq(Int), Len(s) > 0
  PROVE  IsUpperMedian(Middle(s), s)
<1>1. PICK n \in Nat : n = Len(s) /\ n > 0
  BY LenProperties
<1>2. PICK k : k = n \div 2
  OBVIOUS
<1>3. k \in Nat /\ k < n
  BY <1>1, <1>2
<1>4. PICK P : P = Remaining(s, k)
  OBVIOUS
<1>5. Largest(s, P, n, k)
  BY <1>1, <1>3, <1>4, LargestAre
<1>6. DOMAIN s = 1 .. n /\ IsFiniteSet(1 .. n) /\ Cardinality(1 .. n) = n
  <2>1. /\ IsFiniteSet(1 .. n)
        /\ Cardinality(1 .. n) = IF 1 > n THEN 0 ELSE n - 1 + 1
    BY FS_Interval
  <2>2. Cardinality(1 .. n) = n
    BY <1>1, <2>1
  <2>3. QED
    BY <1>1, <2>1, <2>2, LenProperties
<1>7. P \subseteq 1 .. n /\ IsFiniteSet(P) /\ Cardinality(P) = n - k
  BY <1>5, <1>6, FS_Subset DEF Largest
<1>8. P # {}
  <2>1. Cardinality(P) # 0
    BY <1>3, <1>7
  <2>2. QED
    BY <2>1, FS_EmptySet
<1>9. PICK m : m = Smallest(s, P)
  OBVIOUS
<1>10. m \in P /\ \A j \in P : s[m] <= s[j]
  BY <1>1, <1>7, <1>8, <1>9, SmallestIs
<1>11. PICK v : v = s[m]
  OBVIOUS
<1>12. Middle(s) = v /\ v \in ToSet(s)
  BY <1>1, <1>2, <1>4, <1>6, <1>7, <1>9, <1>10, <1>11 DEF Middle, ToSet
<1>13. \A i \in 1 .. n : s[i] \in Int
  BY <1>1, ElementOfSeq
<1>14. Cardinality({j \in DOMAIN s : s[j] < v}) <= k
  <2>1. PICK Q : Q = (1 .. n) \ P
    OBVIOUS
  <2>2. IsFiniteSet(Q) /\ Cardinality(Q) = k
    <3>1. Cardinality((1 .. n) \ P) = Cardinality(1 .. n) - Cardinality((1 .. n) \cap P)
      BY <1>6, FS_Difference
    <3>2. (1 .. n) \cap P = P
      BY <1>7
    <3>3. IsFiniteSet(Q)
      BY <1>6, <2>1, FS_Subset
    <3>4. Cardinality((1 .. n) \ P) = n - (n - k)
      BY <1>6, <1>7, <3>1, <3>2
    <3>5. QED
      BY <1>1, <1>3, <2>1, <3>3, <3>4
  <2>3. PICK L : L = {j \in DOMAIN s : s[j] < v}
    OBVIOUS
  <2>4. L \subseteq Q
    <3>1. ASSUME NEW j \in L, j \in P PROVE FALSE
      <4>1. j \in 1 .. n /\ s[j] < v /\ v \in Int /\ s[j] \in Int
        BY <1>6, <1>7, <1>10, <1>11, <1>13, <2>3
      <4>2. v <= s[j]
        BY <1>10, <1>11, <3>1
      <4>3. QED
        BY <4>1, <4>2
    <3>2. QED
      BY <1>6, <2>1, <2>3, <3>1
  <2>5. Cardinality(L) <= k
    BY <2>2, <2>4, FS_Subset
  <2>6. QED
    BY <2>3, <2>5
<1>15. Cardinality({j \in DOMAIN s : s[j] > v}) < n - k
  <2>1. PICK Q : Q = P \ {m}
    OBVIOUS
  <2>2. IsFiniteSet(Q) /\ Cardinality(Q) = n - k - 1
    BY <1>7, <1>10, <2>1, FS_RemoveElement
  <2>3. PICK G : G = {j \in DOMAIN s : s[j] > v}
    OBVIOUS
  <2>4. G \subseteq Q
    <3>1. ASSUME NEW j \in G PROVE j \in Q
      <4>1. j \in 1 .. n /\ s[j] > v /\ v \in Int /\ s[j] \in Int
        BY <1>6, <1>7, <1>10, <1>11, <1>13, <2>3, <3>1
      <4>2. j # m
        BY <1>11, <4>1
      <4>3. j \in P
        <5>1. j \notin P => s[j] <= s[m]
          BY <1>5, <1>10, <4>1 DEF Largest
        <5>2. QED
          BY <1>11, <4>1, <5>1
      <4>4. QED
        BY <2>1, <4>2, <4>3
    <3>2. QED
      BY <3>1
  <2>5. Cardinality(G) <= n - k - 1 /\ Cardinality(G) \in Nat
    BY <2>2, <2>4, FS_Subset, FS_CardinalityType
  <2>6. QED
    BY <1>3, <2>3, <2>5
<1>16. QED
  BY <1>1, <1>2, <1>12, <1>14, <1>15 DEF IsUpperMedian

-----------------------------------------------------------------------------
(* The names of the curves, and the columns of a file.                     *)

\* The curves of a plot, and the number of its boxes.
CurvesOf(k) == ToSet(Plot[k].init.curves)
Boxes(k) == Len(Plot[k].extremes.of)

\* A box whose curve has lines of its own.
Own(names, i) ==
  LET x == names.extremes IN
  /\ x.into[i] = x.of[i]
  /\ \A j \in DOMAIN x.of : j # i => x.of[j] # x.of[i] /\ x.into[j] # x.of[i]

\* What a box of a plot is about.
BoxMeant(names, header, meant, i) ==
  LET c == names.extremes.of[i] IN
  /\ c \in names.drawn /\ names.extremes.into[i] \in names.drawn
  /\ names.shown[i] = c /\ names.shownMax[i] = c /\ names.shownMin[i] = c
  /\ header[i] = c
  /\ meant[i][1] = names.init.boxes[i] /\ meant[i][2] = names.pushed[c]
  /\ names.init.curves[i] = c /\ names.init.legend[i] = names.init.boxes[i]

\* What the names of a plot mean.
WellMeant(k) ==
  LET names == Plot[k]
  IN /\ Boxes(k) \in Nat /\ DOMAIN names.extremes.of = 1 .. Boxes(k)
     /\ DOMAIN Meant[k] = 1 .. Boxes(k) /\ DOMAIN names.init.boxes = 1 .. Boxes(k)
     /\ DOMAIN names.init.curves = 1 .. Boxes(k) /\ names.drawn = CurvesOf(k)
     /\ \A c, d \in DOMAIN names.pens : c # d => names.pens[c] # names.pens[d]
     /\ \A i \in 1 .. Boxes(k) : BoxMeant(names, CsvHeader(k), Meant[k], i)
     /\ \A i \in 1 .. Boxes(k) : ~(k = "Temperature" /\ i \in {4, 5}) => Own(names, i)
     /\ \A c \in CurvesOf(k) : names.pushed[c] \in Names \ {"X"}

\* In each of the five plots the names in initPlot, redraw, updateValues and the
\* file are about the same curve and the value its label names.
LEMMA PlotsWellMeant == ASSUME NEW k \in Kinds PROVE WellMeant(k)
<1>1. CASE k = "Power"
  <2>1. PICK names : names =
          [init |-> PowerInit, drawn |-> PowerDrawn, shown |-> PowerShown,
           shownMax |-> PowerShownMax, shownMin |-> PowerShownMin,
           erased |-> PowerErased, pushed |-> PowerPushed,
           extremes |-> PowerExtremes, pens |-> PowerPens]
    OBVIOUS
  <2>2. Plot[k] = names
    BY <1>1, <2>1 DEF Plot, PlotOf, Kinds
  <2>3. CurvesOf(k) = PowerDrawn
    <3>1. ToSet(PowerInit.curves) = PowerDrawn
      BY DEF PowerInit, PowerDrawn, ToSet
    <3>2. QED
      BY <2>1, <2>2, <3>1 DEF CurvesOf
  <2>4. Boxes(k) = 6 /\ DOMAIN names.extremes.of = 1 .. 6
    <3>1. Len(PowerExtremes.of) = 6 /\ DOMAIN PowerExtremes.of = 1 .. 6
      BY DEF PowerExtremes
    <3>2. QED
      BY <2>1, <2>2, <3>1 DEF Boxes
  <2>5. PICK meant : meant =
          <<<<"CPU0", "PowerCpu0">>, <<"CPU1", "PowerCpu1">>, <<"GPU",
            "PowerGpu">>, <<"FPGA", "PowerFpga">>, <<"MIC", "PowerMic">>,
            <<"System", "PowerSystem">>>>
    OBVIOUS
  <2>6. Meant[k] = meant
    BY <1>1, <2>5, Zenon DEF Meant
  <2>7. /\ PowerInit.boxes =
             <<"CPU0", "CPU1", "GPU", "FPGA", "MIC", "System">>
         /\ PowerInit.legend =
             <<"CPU0", "CPU1", "GPU", "FPGA", "MIC", "System">>
         /\ PowerInit.curves =
             <<"Cpu0", "Cpu1", "Gpu0", "Fpga0", "Mic0", "System">>
    BY  DEF PowerInit
  <2>8. PICK header : header = <<"Cpu0", "Cpu1", "Gpu0", "Fpga0", "Mic0", "System">>
    OBVIOUS
  <2>9. CsvHeader(k) = header
    BY <1>1, <2>8 DEF CsvHeader
  <2>10. DOMAIN Meant[k] = 1 .. 6 /\ DOMAIN names.init.boxes = 1 .. 6
        /\ DOMAIN names.init.curves = 1 .. 6
    <3>1. DOMAIN meant = 1 .. 6
      BY <2>5
    <3>2. DOMAIN PowerInit.boxes = 1 .. 6 /\ DOMAIN PowerInit.curves = 1 .. 6
      BY <2>7
    <3>3. QED
      BY <2>1, <2>6, <3>1, <3>2
  <2>11. ASSUME NEW i \in 1 .. 6 PROVE BoxMeant(names, CsvHeader(k), Meant[k], i)
    <3>1. /\ PowerExtremes.of[i] \in PowerDrawn /\ PowerExtremes.into[i] \in PowerDrawn
          /\ PowerShown[i] = PowerExtremes.of[i] /\ PowerShownMax[i] = PowerExtremes.of[i]
          /\ PowerShownMin[i] = PowerExtremes.of[i] /\ header[i] = PowerExtremes.of[i]
      BY <2>8 DEF PowerExtremes, PowerDrawn, PowerShown, PowerShownMax, PowerShownMin
    <3>2. meant[i][1] = PowerInit.boxes[i]
      BY <2>5, <2>7
    <3>3. PowerInit.curves[i] = PowerExtremes.of[i] /\ PowerInit.legend[i] = PowerInit.boxes[i]
      BY <2>7 DEF PowerExtremes
    <3>4. meant[i][2] = PowerPushed[PowerExtremes.of[i]]
      BY <2>5 DEF PowerExtremes, PowerPushed
    <3>5. QED
      BY <2>1, <2>6, <2>9, <3>1, <3>2, <3>4, <3>3 DEF BoxMeant
  <2>12. ASSUME NEW i \in 1 .. 6 PROVE Own(names, i)
    BY <2>1, <2>12 DEF Own, PowerExtremes
  <2>13. \A c \in PowerDrawn : names.pushed[c] \in Names \ {"X"}
    <3>1. \A c \in PowerDrawn : PowerPushed[c] \in Names \ {"X"}
      BY DEF PowerPushed, PowerDrawn, Names, Data, ToSet
    <3>2. QED
      BY <2>1, <3>1
  <2>14. names.drawn = PowerDrawn
    BY <2>1
  <2>15. \A c, d \in DOMAIN names.pens : c # d => names.pens[c] # names.pens[d]
    <3>1. \A c, d \in DOMAIN PowerPens : c # d => PowerPens[c] # PowerPens[d]
      BY DEF PowerPens
    <3>2. QED
      BY <2>1, <3>1
  <2>16. QED
    BY <2>2, <2>3, <2>4, <2>10, <2>11, <2>12, <2>13, <2>14, <2>15 DEF WellMeant
<1>2. CASE k = "Temperature"
  <2>1. PICK names : names =
          [init |-> TemperatureInit, drawn |-> TemperatureDrawn, shown |-> TemperatureShown,
           shownMax |-> TemperatureShownMax, shownMin |-> TemperatureShownMin,
           erased |-> TemperatureErased, pushed |-> TemperaturePushed,
           extremes |-> TemperatureExtremes, pens |-> TemperaturePens]
    OBVIOUS
  <2>2. Plot[k] = names
    BY <1>2, <2>1 DEF Plot, PlotOf, Kinds
  <2>3. CurvesOf(k) = TemperatureDrawn
    <3>1. ToSet(TemperatureInit.curves) = TemperatureDrawn
      BY DEF TemperatureInit, TemperatureDrawn, ToSet
    <3>2. QED
      BY <2>1, <2>2, <3>1 DEF CurvesOf
  <2>4. Boxes(k) = 7 /\ DOMAIN names.extremes.of = 1 .. 7
    <3>1. Len(TemperatureExtremes.of) = 7 /\ DOMAIN TemperatureExtremes.of = 1 .. 7
      BY DEF TemperatureExtremes
    <3>2. QED
      BY <2>1, <2>2, <3>1 DEF Boxes
  <2>5. PICK l1 : l1 = "FPGA I"
    OBVIOUS
  <2>6. PICK l2 : l2 = "FPGA M"
    OBVIOUS
  <2>7. PICK meant : meant =
          <<<<"CPU0", "TempCpu0">>, <<"CPU1", "TempCpu1">>, <<"GPU",
            "TempGpu">>, <<l1, "TempFpgaI">>, <<l2, "TempFpgaM">>, <<"MIC",
            "TempMicDie">>, <<"System", "TempSystem">>>>
    OBVIOUS
  <2>8. Meant[k] = meant
    BY <1>2, <2>5, <2>6, <2>7, Zenon DEF Meant
  <2>9. /\ TemperatureInit.boxes =
             <<"CPU0", "CPU1", "GPU", l1, l2, "MIC", "System">>
         /\ TemperatureInit.legend =
             <<"CPU0", "CPU1", "GPU", l1, l2, "MIC", "System">>
         /\ TemperatureInit.curves =
             <<"Cpu0", "Cpu1", "Gpu0", "Fpga0", "Fpga1", "Mic0",
               "System">>
    BY <2>5, <2>6, Zenon DEF TemperatureInit
  <2>10. PICK header : header = <<"Cpu0", "Cpu1", "Gpu0", "Fpga0", "Fpga1", "Mic0", "System">>
    OBVIOUS
  <2>11. CsvHeader(k) = header
    BY <1>2, <2>10 DEF CsvHeader
  <2>12. DOMAIN Meant[k] = 1 .. 7 /\ DOMAIN names.init.boxes = 1 .. 7
        /\ DOMAIN names.init.curves = 1 .. 7
    <3>1. DOMAIN meant = 1 .. 7
      BY <2>7
    <3>2. DOMAIN TemperatureInit.boxes = 1 .. 7 /\ DOMAIN TemperatureInit.curves = 1 .. 7
      BY <2>9
    <3>3. QED
      BY <2>1, <2>8, <3>1, <3>2
  <2>13. ASSUME NEW i \in 1 .. 7 PROVE BoxMeant(names, CsvHeader(k), Meant[k], i)
    <3>1. /\ TemperatureExtremes.of[i] \in TemperatureDrawn /\ TemperatureExtremes.into[i] \in TemperatureDrawn
          /\ TemperatureShown[i] = TemperatureExtremes.of[i] /\ TemperatureShownMax[i] = TemperatureExtremes.of[i]
          /\ TemperatureShownMin[i] = TemperatureExtremes.of[i] /\ header[i] = TemperatureExtremes.of[i]
      BY <2>10 DEF TemperatureExtremes, TemperatureDrawn, TemperatureShown, TemperatureShownMax, TemperatureShownMin
    <3>2. meant[i][1] = TemperatureInit.boxes[i]
      BY <2>7, <2>9
    <3>3. TemperatureInit.curves[i] = TemperatureExtremes.of[i] /\ TemperatureInit.legend[i] = TemperatureInit.boxes[i]
      BY <2>9 DEF TemperatureExtremes
    <3>4. meant[i][2] = TemperaturePushed[TemperatureExtremes.of[i]]
      BY <2>7 DEF TemperatureExtremes, TemperaturePushed
    <3>5. QED
      BY <2>1, <2>8, <2>11, <3>1, <3>2, <3>4, <3>3 DEF BoxMeant
  <2>14. ASSUME NEW i \in 1 .. 7, i # 4, i # 5 PROVE Own(names, i)
    BY <2>1, <2>14 DEF Own, TemperatureExtremes
  <2>15. \A c \in TemperatureDrawn : names.pushed[c] \in Names \ {"X"}
    <3>1. \A c \in TemperatureDrawn : TemperaturePushed[c] \in Names \ {"X"}
      BY DEF TemperaturePushed, TemperatureDrawn, Names, Data, ToSet
    <3>2. QED
      BY <2>1, <3>1
  <2>16. names.drawn = TemperatureDrawn
    BY <2>1
  <2>17. \A c, d \in DOMAIN names.pens : c # d => names.pens[c] # names.pens[d]
    <3>1. \A c, d \in DOMAIN TemperaturePens : c # d => TemperaturePens[c] # TemperaturePens[d]
      BY DEF TemperaturePens
    <3>2. QED
      BY <2>1, <3>1
  <2>18. QED
    BY <1>2, <2>2, <2>3, <2>4, <2>12, <2>13, <2>14, <2>15, <2>16, <2>17 DEF WellMeant
<1>3. CASE k = "Clock"
  <2>1. PICK names : names =
          [init |-> ClockInit, drawn |-> ClockDrawn, shown |-> ClockShown,
           shownMax |-> ClockShownMax, shownMin |-> ClockShownMin,
           erased |-> ClockErased, pushed |-> ClockPushed,
           extremes |-> ClockExtremes, pens |-> ClockPens]
    OBVIOUS
  <2>2. Plot[k] = names
    BY <1>3, <2>1 DEF Plot, PlotOf, Kinds
  <2>3. CurvesOf(k) = ClockDrawn
    <3>1. ToSet(ClockInit.curves) = ClockDrawn
      BY DEF ClockInit, ClockDrawn, ToSet
    <3>2. QED
      BY <2>1, <2>2, <3>1 DEF CurvesOf
  <2>4. Boxes(k) = 6 /\ DOMAIN names.extremes.of = 1 .. 6
    <3>1. Len(ClockExtremes.of) = 6 /\ DOMAIN ClockExtremes.of = 1 .. 6
      BY DEF ClockExtremes
    <3>2. QED
      BY <2>1, <2>2, <3>1 DEF Boxes
  <2>5. PICK l1 : l1 = "GPU Core"
    OBVIOUS
  <2>6. PICK l2 : l2 = "GPU Mem"
    OBVIOUS
  <2>7. PICK l3 : l3 = "MIC Core"
    OBVIOUS
  <2>8. PICK l4 : l4 = "MIC Mem"
    OBVIOUS
  <2>9. PICK meant : meant =
          <<<<"CPU0", "ClockCpu0">>, <<"CPU1", "ClockCpu1">>, <<l1,
            "ClockGpuCore">>, <<l2, "ClockGpuMem">>, <<l3, "ClockMicCore">>,
            <<l4, "ClockMicMem">>>>
    OBVIOUS
  <2>10. Meant[k] = meant
    BY <1>3, <2>5, <2>6, <2>7, <2>8, <2>9, Zenon DEF Meant
  <2>11. /\ ClockInit.boxes =
             <<"CPU0", "CPU1", l1, l2, l3, l4>>
         /\ ClockInit.legend =
             <<"CPU0", "CPU1", l1, l2, l3, l4>>
         /\ ClockInit.curves =
             <<"Cpu0", "Cpu1", "Gpu0", "Gpu1", "Mic0", "Mic1">>
    BY <2>5, <2>6, <2>7, <2>8, Zenon DEF ClockInit
  <2>12. PICK header : header = <<"Cpu0", "Cpu1", "Gpu0", "Gpu1", "Mic0", "Mic1">>
    OBVIOUS
  <2>13. CsvHeader(k) = header
    BY <1>3, <2>12 DEF CsvHeader
  <2>14. DOMAIN Meant[k] = 1 .. 6 /\ DOMAIN names.init.boxes = 1 .. 6
        /\ DOMAIN names.init.curves = 1 .. 6
    <3>1. DOMAIN meant = 1 .. 6
      BY <2>9
    <3>2. DOMAIN ClockInit.boxes = 1 .. 6 /\ DOMAIN ClockInit.curves = 1 .. 6
      BY <2>11
    <3>3. QED
      BY <2>1, <2>10, <3>1, <3>2
  <2>15. ASSUME NEW i \in 1 .. 6 PROVE BoxMeant(names, CsvHeader(k), Meant[k], i)
    <3>1. /\ ClockExtremes.of[i] \in ClockDrawn /\ ClockExtremes.into[i] \in ClockDrawn
          /\ ClockShown[i] = ClockExtremes.of[i] /\ ClockShownMax[i] = ClockExtremes.of[i]
          /\ ClockShownMin[i] = ClockExtremes.of[i] /\ header[i] = ClockExtremes.of[i]
      BY <2>12 DEF ClockExtremes, ClockDrawn, ClockShown, ClockShownMax, ClockShownMin
    <3>2. meant[i][1] = ClockInit.boxes[i]
      BY <2>9, <2>11
    <3>3. ClockInit.curves[i] = ClockExtremes.of[i] /\ ClockInit.legend[i] = ClockInit.boxes[i]
      BY <2>11 DEF ClockExtremes
    <3>4. meant[i][2] = ClockPushed[ClockExtremes.of[i]]
      BY <2>9 DEF ClockExtremes, ClockPushed
    <3>5. QED
      BY <2>1, <2>10, <2>13, <3>1, <3>2, <3>4, <3>3 DEF BoxMeant
  <2>16. ASSUME NEW i \in 1 .. 6 PROVE Own(names, i)
    BY <2>1, <2>16 DEF Own, ClockExtremes
  <2>17. \A c \in ClockDrawn : names.pushed[c] \in Names \ {"X"}
    <3>1. \A c \in ClockDrawn : ClockPushed[c] \in Names \ {"X"}
      BY DEF ClockPushed, ClockDrawn, Names, Data, ToSet
    <3>2. QED
      BY <2>1, <3>1
  <2>18. names.drawn = ClockDrawn
    BY <2>1
  <2>19. \A c, d \in DOMAIN names.pens : c # d => names.pens[c] # names.pens[d]
    <3>1. \A c, d \in DOMAIN ClockPens : c # d => ClockPens[c] # ClockPens[d]
      BY DEF ClockPens
    <3>2. QED
      BY <2>1, <3>1
  <2>20. QED
    BY <2>2, <2>3, <2>4, <2>14, <2>15, <2>16, <2>17, <2>18, <2>19 DEF WellMeant
<1>4. CASE k = "Util"
  <2>1. PICK names : names =
          [init |-> UtilInit, drawn |-> UtilDrawn, shown |-> UtilShown,
           shownMax |-> UtilShownMax, shownMin |-> UtilShownMin,
           erased |-> UtilErased, pushed |-> UtilPushed,
           extremes |-> UtilExtremes, pens |-> UtilPens]
    OBVIOUS
  <2>2. Plot[k] = names
    BY <1>4, <2>1 DEF Plot, PlotOf, Kinds
  <2>3. CurvesOf(k) = UtilDrawn
    <3>1. ToSet(UtilInit.curves) = UtilDrawn
      BY DEF UtilInit, UtilDrawn, ToSet
    <3>2. QED
      BY <2>1, <2>2, <3>1 DEF CurvesOf
  <2>4. Boxes(k) = 5 /\ DOMAIN names.extremes.of = 1 .. 5
    <3>1. Len(UtilExtremes.of) = 5 /\ DOMAIN UtilExtremes.of = 1 .. 5
      BY DEF UtilExtremes
    <3>2. QED
      BY <2>1, <2>2, <3>1 DEF Boxes
  <2>5. PICK l1 : l1 = "GPU Core"
    OBVIOUS
  <2>6. PICK l2 : l2 = "GPU Memory"
    OBVIOUS
  <2>7. PICK l3 : l3 = "Compute FPGA"
    OBVIOUS
  <2>8. PICK meant : meant =
          <<<<"CPU", "UtilCpu">>, <<l1, "UtilGpuCore">>, <<l2,
            "UtilGpuMem">>, <<l3, "UtilFpga">>, <<"MIC", "UtilMic">>>>
    OBVIOUS
  <2>9. Meant[k] = meant
    BY <1>4, <2>5, <2>6, <2>7, <2>8, Zenon DEF Meant
  <2>10. /\ UtilInit.boxes =
             <<"CPU", l1, l2, l3, "MIC">>
         /\ UtilInit.legend =
             <<"CPU", l1, l2, l3, "MIC">>
         /\ UtilInit.curves =
             <<"Cpu0", "Gpu0", "Gpu1", "Fpga0", "Mic0">>
    BY <2>5, <2>6, <2>7, Zenon DEF UtilInit
  <2>11. PICK header : header = <<"Cpu0", "Gpu0", "Gpu1", "Fpga0", "Mic0">>
    OBVIOUS
  <2>12. CsvHeader(k) = header
    BY <1>4, <2>11 DEF CsvHeader
  <2>13. DOMAIN Meant[k] = 1 .. 5 /\ DOMAIN names.init.boxes = 1 .. 5
        /\ DOMAIN names.init.curves = 1 .. 5
    <3>1. DOMAIN meant = 1 .. 5
      BY <2>8
    <3>2. DOMAIN UtilInit.boxes = 1 .. 5 /\ DOMAIN UtilInit.curves = 1 .. 5
      BY <2>10
    <3>3. QED
      BY <2>1, <2>9, <3>1, <3>2
  <2>14. ASSUME NEW i \in 1 .. 5 PROVE BoxMeant(names, CsvHeader(k), Meant[k], i)
    <3>1. /\ UtilExtremes.of[i] \in UtilDrawn /\ UtilExtremes.into[i] \in UtilDrawn
          /\ UtilShown[i] = UtilExtremes.of[i] /\ UtilShownMax[i] = UtilExtremes.of[i]
          /\ UtilShownMin[i] = UtilExtremes.of[i] /\ header[i] = UtilExtremes.of[i]
      BY <2>11 DEF UtilExtremes, UtilDrawn, UtilShown, UtilShownMax, UtilShownMin
    <3>2. meant[i][1] = UtilInit.boxes[i]
      BY <2>8, <2>10
    <3>3. UtilInit.curves[i] = UtilExtremes.of[i] /\ UtilInit.legend[i] = UtilInit.boxes[i]
      BY <2>10 DEF UtilExtremes
    <3>4. meant[i][2] = UtilPushed[UtilExtremes.of[i]]
      BY <2>8 DEF UtilExtremes, UtilPushed
    <3>5. QED
      BY <2>1, <2>9, <2>12, <3>1, <3>2, <3>4, <3>3 DEF BoxMeant
  <2>15. ASSUME NEW i \in 1 .. 5 PROVE Own(names, i)
    BY <2>1, <2>15 DEF Own, UtilExtremes
  <2>16. \A c \in UtilDrawn : names.pushed[c] \in Names \ {"X"}
    <3>1. \A c \in UtilDrawn : UtilPushed[c] \in Names \ {"X"}
      BY DEF UtilPushed, UtilDrawn, Names, Data, ToSet
    <3>2. QED
      BY <2>1, <3>1
  <2>17. names.drawn = UtilDrawn
    BY <2>1
  <2>18. \A c, d \in DOMAIN names.pens : c # d => names.pens[c] # names.pens[d]
    <3>1. \A c, d \in DOMAIN UtilPens : c # d => UtilPens[c] # UtilPens[d]
      BY DEF UtilPens
    <3>2. QED
      BY <2>1, <3>1
  <2>19. QED
    BY <2>2, <2>3, <2>4, <2>13, <2>14, <2>15, <2>16, <2>17, <2>18 DEF WellMeant
<1>5. CASE k = "Memory"
  <2>1. PICK names : names =
          [init |-> MemoryInit, drawn |-> MemoryDrawn, shown |-> MemoryShown,
           shownMax |-> MemoryShownMax, shownMin |-> MemoryShownMin,
           erased |-> MemoryErased, pushed |-> MemoryPushed,
           extremes |-> MemoryExtremes, pens |-> MemoryPens]
    OBVIOUS
  <2>2. Plot[k] = names
    BY <1>5, <2>1 DEF Plot, PlotOf, Kinds
  <2>3. CurvesOf(k) = MemoryDrawn
    <3>1. ToSet(MemoryInit.curves) = MemoryDrawn
      BY DEF MemoryInit, MemoryDrawn, ToSet
    <3>2. QED
      BY <2>1, <2>2, <3>1 DEF CurvesOf
  <2>4. Boxes(k) = 4 /\ DOMAIN names.extremes.of = 1 .. 4
    <3>1. Len(MemoryExtremes.of) = 4 /\ DOMAIN MemoryExtremes.of = 1 .. 4
      BY DEF MemoryExtremes
    <3>2. QED
      BY <2>1, <2>2, <3>1 DEF Boxes
  <2>5. PICK l1 : l1 = "CPU Ram"
    OBVIOUS
  <2>6. PICK l2 : l2 = "CPU Swap"
    OBVIOUS
  <2>7. PICK meant : meant =
          <<<<l1, "MemoryCpu">>, <<l2, "SwapCpu">>, <<"GPU", "MemoryGpu">>,
            <<"MIC", "MemoryMic">>>>
    OBVIOUS
  <2>8. Meant[k] = meant
    BY <1>5, <2>5, <2>6, <2>7, Zenon DEF Meant
  <2>9. /\ MemoryInit.boxes =
             <<l1, l2, "GPU", "MIC">>
         /\ MemoryInit.legend =
             <<l1, l2, "GPU", "MIC">>
         /\ MemoryInit.curves =
             <<"Cpu0", "Cpu1", "Gpu0", "Mic0">>
    BY <2>5, <2>6, Zenon DEF MemoryInit
  <2>10. PICK header : header = <<"Cpu0", "Cpu1", "Gpu0", "Mic0">>
    OBVIOUS
  <2>11. CsvHeader(k) = header
    BY <1>5, <2>10 DEF CsvHeader
  <2>12. DOMAIN Meant[k] = 1 .. 4 /\ DOMAIN names.init.boxes = 1 .. 4
        /\ DOMAIN names.init.curves = 1 .. 4
    <3>1. DOMAIN meant = 1 .. 4
      BY <2>7
    <3>2. DOMAIN MemoryInit.boxes = 1 .. 4 /\ DOMAIN MemoryInit.curves = 1 .. 4
      BY <2>9
    <3>3. QED
      BY <2>1, <2>8, <3>1, <3>2
  <2>13. ASSUME NEW i \in 1 .. 4 PROVE BoxMeant(names, CsvHeader(k), Meant[k], i)
    <3>1. /\ MemoryExtremes.of[i] \in MemoryDrawn /\ MemoryExtremes.into[i] \in MemoryDrawn
          /\ MemoryShown[i] = MemoryExtremes.of[i] /\ MemoryShownMax[i] = MemoryExtremes.of[i]
          /\ MemoryShownMin[i] = MemoryExtremes.of[i] /\ header[i] = MemoryExtremes.of[i]
      BY <2>10 DEF MemoryExtremes, MemoryDrawn, MemoryShown, MemoryShownMax, MemoryShownMin
    <3>2. meant[i][1] = MemoryInit.boxes[i]
      BY <2>7, <2>9
    <3>3. MemoryInit.curves[i] = MemoryExtremes.of[i] /\ MemoryInit.legend[i] = MemoryInit.boxes[i]
      BY <2>9 DEF MemoryExtremes
    <3>4. meant[i][2] = MemoryPushed[MemoryExtremes.of[i]]
      BY <2>7 DEF MemoryExtremes, MemoryPushed
    <3>5. QED
      BY <2>1, <2>8, <2>11, <3>1, <3>2, <3>4, <3>3 DEF BoxMeant
  <2>14. ASSUME NEW i \in 1 .. 4 PROVE Own(names, i)
    BY <2>1, <2>14 DEF Own, MemoryExtremes
  <2>15. \A c \in MemoryDrawn : names.pushed[c] \in Names \ {"X"}
    <3>1. \A c \in MemoryDrawn : MemoryPushed[c] \in Names \ {"X"}
      BY DEF MemoryPushed, MemoryDrawn, Names, Data, ToSet
    <3>2. QED
      BY <2>1, <3>1
  <2>16. names.drawn = MemoryDrawn
    BY <2>1
  <2>17. \A c, d \in DOMAIN names.pens : c # d => names.pens[c] # names.pens[d]
    <3>1. \A c, d \in DOMAIN MemoryPens : c # d => MemoryPens[c] # MemoryPens[d]
      BY DEF MemoryPens
    <3>2. QED
      BY <2>1, <3>1
  <2>18. QED
    BY <2>2, <2>3, <2>4, <2>12, <2>13, <2>14, <2>15, <2>16, <2>17 DEF WellMeant
<1>6. QED
  BY <1>1, <1>2, <1>3, <1>4, <1>5 DEF Kinds

\* The elements kept of the first i of a sequence, for each i.
KeptTo(f, s, S, n) ==
  f = [i \in 0 .. n |-> IF i = 0 THEN <<>>
                       ELSE IF s[i] \in S THEN Append(f[i - 1], s[i]) ELSE f[i - 1]]

\* There is such a function.
LEMMA KeptToThere ==
  ASSUME NEW s, NEW S, NEW n \in Nat
  PROVE  \E f : KeptTo(f, s, S, n)
<1> DEFINE U == {k \in Nat : ~\E f : KeptTo(f, s, S, k)}
<1>1. SUFFICES ASSUME U # {} PROVE FALSE
  OBVIOUS
<1>2. PICK m \in U : \A k \in U : m <= k
  <2>1. U \in SUBSET Nat
    OBVIOUS
  <2>2. QED
    BY <1>1, <2>1, Least
<1>3. m \in Nat /\ ~\E f : KeptTo(f, s, S, m)
  OBVIOUS
<1>4. m # 0
  <2>1. SUFFICES ASSUME m = 0 PROVE FALSE
    OBVIOUS
  <2>2. PICK f : f = [i \in 0 .. 0 |-> <<>>]
    OBVIOUS
  <2>3. f = [i \in 0 .. 0 |-> IF i = 0 THEN <<>>
                             ELSE IF s[i] \in S THEN Append(f[i - 1], s[i]) ELSE f[i - 1]]
    BY <2>2
  <2>4. QED
    BY <1>3, <2>1, <2>3 DEF KeptTo
<1>5. m - 1 \in Nat /\ m - 1 \notin U
  BY <1>2, <1>3, <1>4
<1>6. PICK f : KeptTo(f, s, S, m - 1)
  BY <1>5
<1>7. PICK g : g = [i \in 0 .. m |->
                      IF i = m THEN IF s[m] \in S THEN Append(f[m - 1], s[m]) ELSE f[m - 1]
                      ELSE f[i]]
  OBVIOUS
<1>8. ASSUME NEW i \in 0 .. m
      PROVE  g[i] = IF i = 0 THEN <<>> ELSE IF s[i] \in S THEN Append(g[i - 1], s[i]) ELSE g[i - 1]
  <2>1. CASE i = 0
    BY <1>3, <1>4, <1>5, <1>6, <1>7, <2>1 DEF KeptTo
  <2>2. CASE i = m
    <3>1. i # 0 /\ i - 1 \in 0 .. m /\ i - 1 # m /\ i - 1 = m - 1
      BY <1>3, <1>4, <2>2
    <3>2. g[i - 1] = f[m - 1]
      BY <1>7, <3>1
    <3>3. QED
      BY <1>7, <2>2, <3>1, <3>2
  <2>3. CASE i # 0 /\ i # m
    <3>1. i \in 0 .. m - 1 /\ i - 1 \in 0 .. m /\ i - 1 # m
      BY <1>3, <2>3
    <3>2. g[i] = f[i] /\ g[i - 1] = f[i - 1]
      BY <1>7, <2>3, <3>1
    <3>3. f[i] = IF s[i] \in S THEN Append(f[i - 1], s[i]) ELSE f[i - 1]
      BY <1>6, <2>3, <3>1 DEF KeptTo
    <3>4. QED
      BY <2>3, <3>2, <3>3
  <2>4. QED
    BY <2>1, <2>2, <2>3
<1>9. g = [i \in 0 .. m |-> IF i = 0 THEN <<>>
                           ELSE IF s[i] \in S THEN Append(g[i - 1], s[i]) ELSE g[i - 1]]
  BY <1>7, <1>8
<1>10. QED
  BY <1>3, <1>9 DEF KeptTo

\* Kept is the last of them.
LEMMA KeptIs ==
  ASSUME NEW s, NEW S, NEW n \in Nat, n = Len(s)
  PROVE  \E f : KeptTo(f, s, S, n) /\ Kept(s, S) = f[n]
<1>1. PICK f : f = CHOOSE g : KeptTo(g, s, S, n)
  OBVIOUS
<1>2. KeptTo(f, s, S, n)
  BY <1>1, KeptToThere
<1>3. Kept(s, S) = f[n]
  BY <1>1 DEF Kept, KeptTo
<1>4. QED
  BY <1>2, <1>3

\* So many of the first elements of s are kept, and c are those.
Counted(u, s, S, n, c) ==
  /\ u[0] = 0 /\ u[n] = Len(c)
  /\ \A j \in 1 .. n :
       \/ s[j] \in S /\ u[j] \in 1 .. Len(c) /\ u[j - 1] = u[j] - 1 /\ c[u[j]] = s[j]
       \/ s[j] \notin S /\ u[j - 1] = u[j]

\* Then c is what is kept.
LEMMA KeptCounted ==
  ASSUME NEW s, NEW S, NEW n \in Nat, Len(s) = n, NEW E, NEW c \in Seq(E),
         NEW u, Counted(u, s, S, n, c)
  PROVE  Kept(s, S) = c
<1>1. PICK f : KeptTo(f, s, S, n) /\ Kept(s, S) = f[n]
  BY KeptIs
<1> DEFINE U == {j \in 0 .. n : f[j] # SubSeq(c, 1, u[j])}
<1>2. U = {}
  <2>1. SUFFICES ASSUME U # {} PROVE FALSE
    OBVIOUS
  <2>2. PICK m \in U : \A k \in U : m <= k
    <3>1. U \in SUBSET Nat
      OBVIOUS
    <3>2. QED
      BY <2>1, <3>1, Least
  <2>3. m \in 0 .. n /\ f[m] # SubSeq(c, 1, u[m])
    OBVIOUS
  <2>4. m # 0
    <3>1. f[0] = <<>>
      BY <1>1 DEF KeptTo
    <3>2. u[0] = 0
      BY DEF Counted
    <3>3. SubSeq(c, 1, 0) = <<>>
      BY SubSeqEmpty
    <3>4. QED
      BY <2>3, <3>1, <3>2, <3>3
  <2>5. m \in 1 .. n /\ m - 1 \in 0 .. n /\ m - 1 \notin U
    BY <2>2, <2>3, <2>4
  <2>6. f[m - 1] = SubSeq(c, 1, u[m - 1])
    BY <2>5
  <2>7. f[m] = IF s[m] \in S THEN Append(f[m - 1], s[m]) ELSE f[m - 1]
    <3>1. f[m] = IF m = 0 THEN <<>> ELSE IF s[m] \in S THEN Append(f[m - 1], s[m]) ELSE f[m - 1]
      BY <1>1, <2>3 DEF KeptTo
    <3>2. QED
      BY <2>4, <3>1
  <2>8. CASE s[m] \in S
    <3>1. u[m] \in 1 .. Len(c) /\ u[m - 1] = u[m] - 1 /\ c[u[m]] = s[m]
      BY <2>5, <2>8 DEF Counted
    <3>2. PICK i \in 1 .. Len(c) : i = u[m]
      BY <3>1
    <3>3. Append(SubSeq(c, 1, i - 1), c[i]) = SubSeq(c, 1, i)
      BY OneMore
    <3>4. QED
      BY <2>3, <2>6, <2>7, <2>8, <3>1, <3>2, <3>3
  <2>9. CASE s[m] \notin S
    <3>1. u[m - 1] = u[m]
      BY <2>5, <2>9 DEF Counted
    <3>2. QED
      BY <2>3, <2>6, <2>7, <2>9, <3>1
  <2>10. QED
    BY <2>8, <2>9
<1>3. n \in 0 .. n /\ n \notin U
  BY <1>2
<1>4. f[n] = SubSeq(c, 1, Len(c))
  BY <1>3 DEF Counted
<1>5. QED
  BY <1>1, <1>4, SubSeqFull

\* The curves of a file are in the order of its first line.
LEMMA CsvColumns ==
  ASSUME NEW k \in Kinds
  PROVE  Kept(CsvOrder, CurvesOf(k)) = Plot[k].extremes.of
<1>1. PICK s : s = CsvOrder
  OBVIOUS
<1>2. Len(s) = 9 /\ 9 \in Nat
  BY <1>1 DEF CsvOrder
<1>3. Plot[k].drawn = CurvesOf(k)
  BY PlotsWellMeant DEF WellMeant
<1>4. ASSUME NEW S, NEW c, c \in Seq(S), NEW u, Counted(u, s, S, 9, c), S = CurvesOf(k),
             c = Plot[k].extremes.of
      PROVE  Kept(CsvOrder, CurvesOf(k)) = Plot[k].extremes.of
  BY <1>1, <1>2, <1>4, KeptCounted
<1>5. CASE k = "Power"
  <2>1. PICK S : S = PowerDrawn
    OBVIOUS
  <2>2. S = CurvesOf(k)
    BY <1>3, <1>5, <2>1 DEF Plot, PlotOf, Kinds
  <2>3. PICK c : c = PowerExtremes.of
    OBVIOUS
  <2>4. c = Plot[k].extremes.of
    BY <1>5, <2>3 DEF Plot, PlotOf, Kinds
  <2>5. c \in Seq(S) /\ Len(c) = 6
    BY <2>1, <2>3 DEF PowerExtremes, PowerDrawn
  <2>6. PICK u : u = [j \in 0 .. 9 |-> <<0, 1, 2, 3, 3, 4, 4, 5, 5, 6>>[j + 1]]
    OBVIOUS
  <2>7. Counted(u, s, S, 9, c)
    BY <1>1, <2>1, <2>3, <2>5, <2>6 DEF Counted, CsvOrder, PowerExtremes, PowerDrawn
  <2>8. QED
    BY <1>4, <2>2, <2>4, <2>5, <2>7
<1>6. CASE k = "Temperature"
  <2>1. PICK S : S = TemperatureDrawn
    OBVIOUS
  <2>2. S = CurvesOf(k)
    BY <1>3, <1>6, <2>1 DEF Plot, PlotOf, Kinds
  <2>3. PICK c : c = TemperatureExtremes.of
    OBVIOUS
  <2>4. c = Plot[k].extremes.of
    BY <1>6, <2>3 DEF Plot, PlotOf, Kinds
  <2>5. c \in Seq(S) /\ Len(c) = 7
    BY <2>1, <2>3 DEF TemperatureExtremes, TemperatureDrawn
  <2>6. PICK u : u = [j \in 0 .. 9 |-> <<0, 1, 2, 3, 3, 4, 5, 6, 6, 7>>[j + 1]]
    OBVIOUS
  <2>7. Counted(u, s, S, 9, c)
    BY <1>1, <2>1, <2>3, <2>5, <2>6 DEF Counted, CsvOrder, TemperatureExtremes, TemperatureDrawn
  <2>8. QED
    BY <1>4, <2>2, <2>4, <2>5, <2>7
<1>7. CASE k = "Clock"
  <2>1. PICK S : S = ClockDrawn
    OBVIOUS
  <2>2. S = CurvesOf(k)
    BY <1>3, <1>7, <2>1 DEF Plot, PlotOf, Kinds
  <2>3. PICK c : c = ClockExtremes.of
    OBVIOUS
  <2>4. c = Plot[k].extremes.of
    BY <1>7, <2>3 DEF Plot, PlotOf, Kinds
  <2>5. c \in Seq(S) /\ Len(c) = 6
    BY <2>1, <2>3 DEF ClockExtremes, ClockDrawn
  <2>6. PICK u : u = [j \in 0 .. 9 |-> <<0, 1, 2, 3, 4, 4, 4, 5, 6, 6>>[j + 1]]
    OBVIOUS
  <2>7. Counted(u, s, S, 9, c)
    BY <1>1, <2>1, <2>3, <2>5, <2>6 DEF Counted, CsvOrder, ClockExtremes, ClockDrawn
  <2>8. QED
    BY <1>4, <2>2, <2>4, <2>5, <2>7
<1>8. CASE k = "Util"
  <2>1. PICK S : S = UtilDrawn
    OBVIOUS
  <2>2. S = CurvesOf(k)
    BY <1>3, <1>8, <2>1 DEF Plot, PlotOf, Kinds
  <2>3. PICK c : c = UtilExtremes.of
    OBVIOUS
  <2>4. c = Plot[k].extremes.of
    BY <1>8, <2>3 DEF Plot, PlotOf, Kinds
  <2>5. c \in Seq(S) /\ Len(c) = 5
    BY <2>1, <2>3 DEF UtilExtremes, UtilDrawn
  <2>6. PICK u : u = [j \in 0 .. 9 |-> <<0, 1, 1, 2, 3, 4, 4, 5, 5, 5>>[j + 1]]
    OBVIOUS
  <2>7. Counted(u, s, S, 9, c)
    BY <1>1, <2>1, <2>3, <2>5, <2>6 DEF Counted, CsvOrder, UtilExtremes, UtilDrawn
  <2>8. QED
    BY <1>4, <2>2, <2>4, <2>5, <2>7
<1>9. CASE k = "Memory"
  <2>1. PICK S : S = MemoryDrawn
    OBVIOUS
  <2>2. S = CurvesOf(k)
    BY <1>3, <1>9, <2>1 DEF Plot, PlotOf, Kinds
  <2>3. PICK c : c = MemoryExtremes.of
    OBVIOUS
  <2>4. c = Plot[k].extremes.of
    BY <1>9, <2>3 DEF Plot, PlotOf, Kinds
  <2>5. c \in Seq(S) /\ Len(c) = 4
    BY <2>1, <2>3 DEF MemoryExtremes, MemoryDrawn
  <2>6. PICK u : u = [j \in 0 .. 9 |-> <<0, 1, 2, 3, 3, 3, 3, 4, 4, 4>>[j + 1]]
    OBVIOUS
  <2>7. Counted(u, s, S, 9, c)
    BY <1>1, <2>1, <2>3, <2>5, <2>6 DEF Counted, CsvOrder, MemoryExtremes, MemoryDrawn
  <2>8. QED
    BY <1>4, <2>2, <2>4, <2>5, <2>7
<1>10. QED
  BY <1>5, <1>6, <1>7, <1>8, <1>9 DEF Kinds

-----------------------------------------------------------------------------
(* The extremes of a plot.                                                 *)

\* A value is between the extremes that are not set.
LEMMA SampleIs ==
  ASSUME NEW b \in Names \ {"X"}, NEW r \in RowSet
  PROVE  Sample(b, r) \in Int /\ Highest < Sample(b, r) /\ Sample(b, r) < Lowest
<1>1. PICK n : n = Number(b)
  OBVIOUS
<1>2. n \in 0 .. 28 /\ n + 1 \in 1 .. 29 /\ Data[n + 1] = b
  BY <1>1, NumberIs
<1>3. n \in 1 .. 28
  <2>1. Data[1] = "X"
    BY DEF Data
  <2>2. n + 1 # 1
    BY <1>2, <2>1
  <2>3. QED
    BY <1>2, <2>2
<1>4. PICK l \in Level : l = r.level
  BY DEF RowSet
<1>5. l \in Int /\ Highest < 10 + l /\ 10 * (29 - 1) + l < Lowest
  BY LevelAssumption, ValueSize
<1>6. Sample(b, r) = 10 * n + l
  BY <1>1, <1>4 DEF Sample
<1>7. QED
  BY <1>3, <1>5, <1>6, ExtremesAssumption

\* The value of a name in the rows of a sequence.
Samples1(b, a) == [j \in 1 .. Len(a) |-> Sample(b, a[j])]

\* At least as large a value came before.
Later(w, k) == \E j \in 1 .. k - 1 : w[j] >= w[k]

\* What the largest of n values is, and the smallest of those that were not
\* larger than all before them.
IsExtreme(x, w, n) ==
  /\ x \in [min : Int, max : Int]
  /\ IF n = 0 THEN x.max = Highest ELSE \E k \in 1 .. n : x.max = w[k]
  /\ \A k \in 1 .. n : w[k] <= x.max
  /\ IF \E k \in 1 .. n : Later(w, k)
       THEN \E k \in 1 .. n : Later(w, k) /\ x.min = w[k]
       ELSE x.min = Lowest
  /\ \A k \in 1 .. n : Later(w, k) => x.min <= w[k]

\* One value more.
LEMMA ExtremeTakes ==
  ASSUME NEW n \in Nat, NEW w, NEW u, NEW v \in Int, NEW x,
         \A k \in 1 .. n : u[k] = w[k] /\ w[k] \in Int, u[n + 1] = v,
         Highest < v, v < Lowest, IsExtreme(x, w, n)
  PROVE  IsExtreme(NewExtreme(x, v), u, n + 1)
<1>1. PICK y : y = NewExtreme(x, v)
  OBVIOUS
<1>2. x \in [min : Int, max : Int]
  BY DEF IsExtreme
<1>3. ASSUME NEW k \in 1 .. n PROVE Later(u, k) <=> Later(w, k)
  BY <1>3 DEF Later
<1>4. CASE v > x.max
  <2>1. y = [x EXCEPT !.max = v]
    BY <1>1, <1>4 DEF NewExtreme
  <2>2. y \in [min : Int, max : Int] /\ y.max = v /\ y.min = x.min
    BY <1>2, <2>1
  <2>3. \A k \in 1 .. n : w[k] < v
    BY <1>2, <1>4 DEF IsExtreme
  <2>4. ~Later(u, n + 1)
    BY <2>3 DEF Later
  <2>5. \A k \in 1 .. n + 1 : k \in 1 .. n \/ k = n + 1
    OBVIOUS
  <2>6. \A k \in 1 .. n + 1 : u[k] <= v
    BY <2>3, <2>5
  <2>7. \E k \in 1 .. n + 1 : v = u[k]
    OBVIOUS
  <2>8. /\ IF \E k \in 1 .. n : Later(w, k)
             THEN \E k \in 1 .. n : Later(w, k) /\ x.min = w[k]
             ELSE x.min = Lowest
        /\ \A k \in 1 .. n : Later(w, k) => x.min <= w[k]
    BY DEF IsExtreme
  <2>9. (\E k \in 1 .. n : Later(w, k)) <=> (\E k \in 1 .. n + 1 : Later(u, k))
    BY <1>3, <2>4, <2>5
  <2>10. IF \E k \in 1 .. n + 1 : Later(u, k)
           THEN \E k \in 1 .. n + 1 : Later(u, k) /\ x.min = u[k]
           ELSE x.min = Lowest
    <3>1. CASE \E k \in 1 .. n : Later(w, k)
      <4>1. PICK k \in 1 .. n : Later(w, k) /\ x.min = w[k]
        BY <2>8, <3>1
      <4>2. k \in 1 .. n + 1 /\ Later(u, k) /\ x.min = u[k]
        BY <1>3, <4>1
      <4>3. QED
        BY <4>2
    <3>2. CASE ~\E k \in 1 .. n : Later(w, k)
      BY <2>8, <2>9, <3>2
    <3>3. QED
      BY <3>1, <3>2
  <2>11. \A k \in 1 .. n + 1 : Later(u, k) => x.min <= u[k]
    BY <1>3, <2>4, <2>5, <2>8
  <2>12. n + 1 # 0
    OBVIOUS
  <2>13. IsExtreme(y, u, n + 1)
    BY <2>2, <2>6, <2>7, <2>10, <2>11, <2>12 DEF IsExtreme
  <2>14. QED
    BY <1>1, <2>13
<1>5. CASE ~(v > x.max)
  <2>1. n # 0
    <3>1. n = 0 => x.max = Highest
      BY DEF IsExtreme
    <3>2. QED
      BY <1>2, <1>5, <3>1
  <2>2. PICK m \in 1 .. n : x.max = w[m]
    BY <2>1 DEF IsExtreme
  <2>3. u[m] >= v
    BY <1>2, <1>5, <2>2
  <2>4. Later(u, n + 1)
    <3>1. m \in 1 .. (n + 1) - 1
      OBVIOUS
    <3>2. QED
      BY <2>3, <3>1 DEF Later
  <2>5. PICK z : z = IF v < x.min THEN v ELSE x.min
    OBVIOUS
  <2>6. y \in [min : Int, max : Int] /\ y.max = x.max /\ y.min = z
    <3>1. CASE v < x.min
      <4>1. y = [x EXCEPT !.min = v]
        BY <1>1, <1>5, <3>1 DEF NewExtreme
      <4>2. QED
        BY <1>2, <2>5, <3>1, <4>1
    <3>2. CASE ~(v < x.min)
      <4>1. y = x
        BY <1>1, <1>5, <3>2 DEF NewExtreme
      <4>2. QED
        BY <1>2, <2>5, <3>2, <4>1
    <3>3. QED
      BY <3>1, <3>2
  <2>7. \A k \in 1 .. n + 1 : k \in 1 .. n \/ k = n + 1
    OBVIOUS
  <2>8. \A k \in 1 .. n + 1 : u[k] <= x.max
    <3>1. \A k \in 1 .. n : w[k] <= x.max
      BY DEF IsExtreme
    <3>2. v <= x.max
      BY <1>2, <1>5
    <3>3. QED
      BY <2>7, <3>1, <3>2
  <2>9. \E k \in 1 .. n + 1 : x.max = u[k]
    <3>1. m \in 1 .. n + 1 /\ x.max = u[m]
      BY <2>2
    <3>2. QED
      BY <3>1
  <2>10. /\ IF \E k \in 1 .. n : Later(w, k)
              THEN \E k \in 1 .. n : Later(w, k) /\ x.min = w[k]
              ELSE x.min = Lowest
         /\ \A k \in 1 .. n : Later(w, k) => x.min <= w[k]
    BY DEF IsExtreme
  <2>11. \E k \in 1 .. n + 1 : Later(u, k) /\ z = u[k]
    <3>1. CASE v < x.min
      <4>1. z = u[n + 1] /\ n + 1 \in 1 .. n + 1
        BY <2>5, <3>1
      <4>2. QED
        BY <2>4, <4>1
    <3>2. CASE ~(v < x.min)
      <4>1. x.min # Lowest
        BY <1>2, <3>2, ExtremesAssumption
      <4>2. PICK k \in 1 .. n : Later(w, k) /\ x.min = w[k]
        BY <2>10, <4>1
      <4>3. k \in 1 .. n + 1 /\ Later(u, k) /\ z = u[k]
        BY <1>3, <2>5, <3>2, <4>2
      <4>4. QED
        BY <4>3
    <3>3. QED
      BY <3>1, <3>2
  <2>12. \A k \in 1 .. n + 1 : Later(u, k) => z <= u[k]
    <3>1. z <= v /\ z <= x.min /\ z \in Int
      BY <1>2, <2>5
    <3>2. ASSUME NEW k \in 1 .. n, Later(u, k) PROVE z <= u[k]
      <4>1. x.min <= w[k] /\ u[k] = w[k] /\ w[k] \in Int
        BY <1>3, <2>10, <3>2
      <4>2. QED
        BY <1>2, <3>1, <4>1
    <3>3. QED
      BY <2>7, <3>1, <3>2
  <2>13. n + 1 # 0 /\ \E k \in 1 .. n + 1 : Later(u, k)
    BY <2>11
  <2>14. IsExtreme(y, u, n + 1)
    BY <2>6, <2>8, <2>9, <2>11, <2>12, <2>13 DEF IsExtreme
  <2>15. QED
    BY <1>1, <2>14
<1>6. QED
  BY <1>4, <1>5

\* A line of an extreme: the same value all along.
Line(n, v) == [j \in 1 .. n |-> v]

\* One longer, and at another value.
LEMMA LineIs ==
  ASSUME NEW n \in Nat, NEW v, NEW w
  PROVE  Append(Line(n, v), v) = Line(n + 1, v) /\ Filled(Line(n, v), w) = Line(n, w)
<1>1. PICK s : s = Line(n, v)
  OBVIOUS
<1>2. s \in Seq({v}) /\ Len(s) = n
  <2>1. s \in [1 .. n -> {v}]
    BY <1>1 DEF Line
  <2>2. s \in Seq({v})
    BY <2>1, SeqDef
  <2>3. DOMAIN s = 1 .. n
    BY <2>1
  <2>4. QED
    BY <2>2, <2>3, LenProperties
<1>3. PICK t : t = Append(s, v)
  OBVIOUS
<1>4. /\ t \in Seq({v}) /\ Len(t) = n + 1
      /\ \A i \in 1 .. n + 1 : t[i] = v
  <2>1. /\ t \in Seq({v}) /\ Len(t) = Len(s) + 1
    BY <1>2, <1>3, AppendProperties
  <2>2. \A i \in 1 .. n + 1 : t[i] \in {v}
    BY <1>2, <2>1, ElementOfSeq
  <2>3. QED
    BY <1>2, <2>1, <2>2
<1>5. t = Line(n + 1, v)
  <2>1. DOMAIN t = 1 .. n + 1 /\ t = [i \in 1 .. n + 1 |-> t[i]]
    BY <1>4, LenProperties
  <2>2. QED
    BY <1>4, <2>1 DEF Line
<1>6. Filled(s, w) = Line(n, w)
  BY <1>1 DEF Filled, Line
<1>7. QED
  BY <1>1, <1>3, <1>5, <1>6

\* The lines of an extreme with a new value v, appended to the line d.
LinesWith(lines, c, d, old, v) ==
  [(IF v # old THEN [lines EXCEPT ![c] = Filled(@, v)] ELSE lines) EXCEPT ![d] = Append(@, v)]

\* The others stay; a line of its own has the new value at all its places.
LEMMA LinesAre ==
  ASSUME NEW C, NEW lines, DOMAIN lines = C, NEW c \in C, NEW d \in C, NEW old, NEW v,
         NEW n \in Nat, NEW S, S = LinesWith(lines, c, d, old, v)
  PROVE  /\ DOMAIN S = C
         /\ \A e \in C : e # c /\ e # d => S[e] = lines[e]
         /\ d = c /\ lines[c] = Line(n, old) => S[c] = Line(n + 1, v)
<1>1. PICK f : f = IF v # old THEN [lines EXCEPT ![c] = Filled(@, v)] ELSE lines
  OBVIOUS
<1>2. /\ DOMAIN f = C /\ \A e \in C : e # c => f[e] = lines[e]
      /\ f[c] = IF v # old THEN Filled(lines[c], v) ELSE lines[c]
  BY <1>1
<1>3. S = [f EXCEPT ![d] = Append(@, v)]
  BY <1>1 DEF LinesWith
<1>4. DOMAIN S = C /\ \A e \in C : e # d => S[e] = f[e]
  BY <1>2, <1>3
<1>5. S[d] = Append(f[d], v)
  BY <1>2, <1>3
<1>6. ASSUME d = c, lines[c] = Line(n, old) PROVE S[c] = Line(n + 1, v)
  <2>1. f[c] = Line(n, v)
    BY <1>2, <1>6, LineIs
  <2>2. QED
    BY <1>5, <1>6, <2>1, LineIs
<1>7. QED
  BY <1>2, <1>4, <1>6

\* The extremes of the first m boxes have taken the last values.
Boxed(k, q, p, n, m) ==
  /\ SameRows(q, p)
  /\ DOMAIN q.max = CurvesOf(k) /\ DOMAIN q.min = CurvesOf(k) /\ DOMAIN q.ex = 1 .. Boxes(k)
  /\ \A i \in 1 .. Boxes(k) :
       LET c == Plot[k].extremes.of[i]
           size == IF i <= m THEN n + 1 ELSE n
       IN /\ q.ex[i] = IF i <= m THEN NewExtreme(p.ex[i], Last(p.values[c])) ELSE p.ex[i]
          /\ Own(Plot[k], i) => /\ q.max[c] = Line(size, q.ex[i].max)
                                /\ q.min[c] = Line(size, q.ex[i].min)

\* One box more.
LEMMA BoxTakes ==
  ASSUME kind \in Kinds, NEW p, NEW q, NEW n \in Nat, NEW m \in Nat,
         Boxed(kind, q, p, n, m), m + 1 <= Boxes(kind)
  PROVE  Boxed(kind, ExtremeOf(kind, q, m + 1), p, n, m + 1)
<1>1. PICK k \in Kinds : k = kind
  OBVIOUS
<1>2. WellMeant(k)
  BY PlotsWellMeant
<1>3. PICK i : i = m + 1
  OBVIOUS
<1>4. PICK N \in Nat : N = Boxes(k)
  BY <1>2 DEF WellMeant
<1>5. i \in 1 .. N
  BY <1>1, <1>3, <1>4
<1>6. PICK c : c = Plot[k].extremes.of[i]
  OBVIOUS
<1>7. PICK d : d = Plot[k].extremes.into[i]
  OBVIOUS
<1>8. PICK C : C = CurvesOf(k)
  OBVIOUS
<1>9. c \in C /\ d \in C
  BY <1>2, <1>4, <1>5, <1>6, <1>7, <1>8 DEF WellMeant, BoxMeant
<1>10. PICK old : old = q.ex[i]
  OBVIOUS
<1>11. PICK x : x = NewExtreme(old, Last(q.values[c]))
  OBVIOUS
<1>12. PICK max : max = LinesWith(q.max, c, d, old.max, x.max)
  OBVIOUS
<1>13. PICK min : min = LinesWith(q.min, c, d, old.min, x.min)
  OBVIOUS
<1>14. PICK r : r = ExtremeOf(k, q, i)
  OBVIOUS
<1>15. r = [q EXCEPT !.ex[i] = x, !.max = max, !.min = min]
  BY <1>6, <1>7, <1>10, <1>11, <1>12, <1>13, <1>14 DEF ExtremeOf, LinesWith
<1>16. /\ SameRows(q, p) /\ DOMAIN q.max = C /\ DOMAIN q.min = C /\ DOMAIN q.ex = 1 .. N
       /\ DOMAIN q = Fields
  BY <1>1, <1>4, <1>8 DEF Boxed, SameRows
<1>17. /\ r.ex = [q.ex EXCEPT ![i] = x] /\ r.max = max /\ r.min = min
       /\ SameRows(r, p)
  BY <1>15, <1>16 DEF SameRows, Fields
<1>18. /\ DOMAIN r.ex = 1 .. N /\ r.ex[i] = x
       /\ \A j \in 1 .. N : j # i => r.ex[j] = q.ex[j]
  BY <1>5, <1>16, <1>17
<1>19. /\ DOMAIN max = C /\ \A e \in C : e # c /\ e # d => max[e] = q.max[e]
       /\ d = c /\ q.max[c] = Line(n, old.max) => max[c] = Line(n + 1, x.max)
  <2>1. PICK lines : lines = q.max
    OBVIOUS
  <2>2. PICK v, w : v = old.max /\ w = x.max
    OBVIOUS
  <2>3. DOMAIN lines = C /\ max = LinesWith(lines, c, d, v, w)
    BY <1>12, <1>16, <2>1, <2>2
  <2>4. /\ DOMAIN max = C /\ \A e \in C : e # c /\ e # d => max[e] = lines[e]
        /\ d = c /\ lines[c] = Line(n, v) => max[c] = Line(n + 1, w)
    BY <1>9, <2>3, LinesAre
  <2>5. QED
    BY <2>1, <2>2, <2>4
<1>20. /\ DOMAIN min = C /\ \A e \in C : e # c /\ e # d => min[e] = q.min[e]
       /\ d = c /\ q.min[c] = Line(n, old.min) => min[c] = Line(n + 1, x.min)
  <2>1. PICK lines : lines = q.min
    OBVIOUS
  <2>2. PICK v, w : v = old.min /\ w = x.min
    OBVIOUS
  <2>3. DOMAIN lines = C /\ min = LinesWith(lines, c, d, v, w)
    BY <1>13, <1>16, <2>1, <2>2
  <2>4. /\ DOMAIN min = C /\ \A e \in C : e # c /\ e # d => min[e] = lines[e]
        /\ d = c /\ lines[c] = Line(n, v) => min[c] = Line(n + 1, w)
    BY <1>9, <2>3, LinesAre
  <2>5. QED
    BY <2>1, <2>2, <2>4
<1>21. ASSUME NEW j \in 1 .. N
       PROVE  LET e == Plot[k].extremes.of[j]
                  size == IF j <= m + 1 THEN n + 1 ELSE n
              IN /\ r.ex[j] = IF j <= m + 1 THEN NewExtreme(p.ex[j], Last(p.values[e])) ELSE p.ex[j]
                 /\ Own(Plot[k], j) => /\ r.max[e] = Line(size, r.ex[j].max)
                                       /\ r.min[e] = Line(size, r.ex[j].min)
  <2>1. PICK e : e = Plot[k].extremes.of[j]
    OBVIOUS
  <2>2. /\ q.ex[j] = IF j <= m THEN NewExtreme(p.ex[j], Last(p.values[e])) ELSE p.ex[j]
        /\ Own(Plot[k], j) =>
             /\ q.max[e] = Line(IF j <= m THEN n + 1 ELSE n, q.ex[j].max)
             /\ q.min[e] = Line(IF j <= m THEN n + 1 ELSE n, q.ex[j].min)
    BY <1>1, <1>4, <1>21, <2>1 DEF Boxed
  <2>3. CASE j = i
    <3>1. e = c /\ ~(j <= m) /\ j <= m + 1
      BY <1>3, <1>6, <2>1, <2>3
    <3>2. q.values = p.values
      BY <1>16 DEF SameRows
    <3>3. r.ex[j] = NewExtreme(p.ex[j], Last(p.values[e]))
      BY <1>10, <1>11, <1>18, <2>2, <2>3, <3>1, <3>2
    <3>4. Own(Plot[k], j) => d = c
      BY <1>6, <1>7, <2>3 DEF Own
    <3>5. Own(Plot[k], j) => /\ r.max[e] = Line(n + 1, r.ex[j].max)
                             /\ r.min[e] = Line(n + 1, r.ex[j].min)
      BY <1>10, <1>17, <1>18, <1>19, <1>20, <2>2, <2>3, <3>1, <3>4
    <3>6. QED
      BY <2>1, <3>1, <3>3, <3>5
  <2>4. CASE j # i
    <3>1. j <= m + 1 <=> j <= m
      BY <1>3, <1>21, <2>4
    <3>2. r.ex[j] = q.ex[j]
      BY <1>18, <2>4
    <3>3. ASSUME Own(Plot[k], j) PROVE r.max[e] = q.max[e] /\ r.min[e] = q.min[e]
      <4>1. DOMAIN Plot[k].extremes.of = 1 .. N
        BY <1>2, <1>4 DEF WellMeant
      <4>2. c # e /\ d # e
        BY <1>5, <1>6, <1>7, <2>1, <2>4, <3>3, <4>1 DEF Own
      <4>3. e \in C
        BY <1>2, <1>4, <1>8, <1>21, <2>1 DEF WellMeant, BoxMeant
      <4>4. QED
        BY <1>17, <1>19, <1>20, <4>2, <4>3
    <3>4. QED
      BY <2>1, <2>2, <3>1, <3>2, <3>3
  <2>5. QED
    BY <2>3, <2>4
<1>22. QED
  BY <1>1, <1>3, <1>4, <1>8, <1>14, <1>17, <1>18, <1>19, <1>20, <1>21 DEF Boxed

\* All boxes.
LEMMA BoxesTake ==
  ASSUME kind \in Kinds, NEW p, NEW n \in Nat, Boxed(kind, p, p, n, 0)
  PROVE  Boxed(kind, Extremes(kind, p), p, n, Boxes(kind))
<1>1. PICK N \in Nat : N = Boxes(kind)
  BY PlotsWellMeant DEF WellMeant
<1>2. PICK f : ExtremesBy(f, p, N) /\ Extremes(kind, p) = f[N]
  BY <1>1, ExtremesAre DEF Boxes
<1> DEFINE U == {i \in 0 .. N : ~Boxed(kind, f[i], p, n, i)}
<1>3. U = {}
  <2>1. SUFFICES ASSUME U # {} PROVE FALSE
    OBVIOUS
  <2>2. PICK m \in U : \A k \in U : m <= k
    <3>1. U \in SUBSET Nat
      OBVIOUS
    <3>2. QED
      BY <2>1, <3>1, Least
  <2>3. m \in 0 .. N /\ ~Boxed(kind, f[m], p, n, m)
    OBVIOUS
  <2>4. m # 0
    BY <1>2, <2>3 DEF ExtremesBy
  <2>5. m - 1 \in Nat /\ m - 1 + 1 = m /\ m - 1 \notin U /\ m - 1 \in 0 .. N
    BY <2>2, <2>3, <2>4
  <2>6. Boxed(kind, f[m - 1], p, n, m - 1)
    BY <2>5
  <2>7. f[m] = ExtremeOf(kind, f[m - 1], m)
    BY <1>2, <2>3, <2>4 DEF ExtremesBy
  <2>8. PICK q : q = f[m - 1]
    OBVIOUS
  <2>9. PICK l \in Nat : l = m - 1
    BY <2>5
  <2>10. Boxed(kind, ExtremeOf(kind, q, l + 1), p, n, l + 1)
    BY <1>1, <2>3, <2>6, <2>8, <2>9, BoxTakes
  <2>11. QED
    BY <2>3, <2>5, <2>7, <2>8, <2>9, <2>10
<1>4. N \in 0 .. N /\ N \notin U
  BY <1>3
<1>5. QED
  BY <1>1, <1>2, <1>4

\* A plot with the row taken, in the three steps of updateValues.
LEMMA UpdatedBy ==
  ASSUME kind \in Kinds, NEW p, Lengths(p), set \in Settings, steady => SafeSettings(set),
         NEW row
  PROVE  \E q, r :
           /\ Lengths(q) /\ IsRest(q, p, Filtered(Len(p.times), set.maxData))
           /\ Lengths(r)
           /\ IsPushed(r, q, row, NumValues(set.mean, set.rate),
                       NumValues(set.median, set.rate))
           /\ UpdateValues(kind, p, row, set) = Extremes(kind, r)
           /\ SameRows(Extremes(kind, r), r)
<1>1. PICK n, m : n = NumValues(set.mean, set.rate) /\ m = NumValues(set.median, set.rate)
  OBVIOUS
<1>2. PICK q : q = Erase(kind, p, set.maxData)
  OBVIOUS
<1>3. PICK r : r = Push(kind, q, row, n, m)
  OBVIOUS
<1>4. Lengths(q)
  BY <1>2, ErasedLengths
<1>5. Lengths(r)
  BY <1>1, <1>3, <1>4, PushedLengths
<1>6. PICK limit \in Nat : limit = set.maxData
  BY SettingsAre
<1>7. IsRest(q, p, Filtered(Len(p.times), limit))
  BY <1>2, <1>6, ErasedIs
<1>8. IsPushed(r, q, row, n, m)
  BY <1>3, <1>4, PushedIs
<1>9. SameRows(Extremes(kind, r), r)
  BY <1>5, ExtremesKeepRows DEF Lengths
<1>10. UpdateValues(kind, p, row, set) = Extremes(kind, r)
  BY <1>1, <1>2, <1>3 DEF UpdateValues
<1>11. QED
  BY <1>1, <1>4, <1>5, <1>6, <1>7, <1>8, <1>9, <1>10

\* The extremes of a plot are those of all rows it ever got, and their lines
\* as long as the rows it got since the start.
ExtremesRight(k, p, g, a) ==
  /\ DOMAIN p.max = CurvesOf(k) /\ DOMAIN p.min = CurvesOf(k) /\ DOMAIN p.ex = 1 .. Boxes(k)
  /\ \A i \in 1 .. Boxes(k) :
       LET c == Plot[k].extremes.of[i]
       IN /\ IsExtreme(p.ex[i], Samples1(Plot[k].pushed[c], a), Len(a))
          /\ Own(Plot[k], i) => /\ p.max[c] = Line(Len(g), p.ex[i].max)
                                /\ p.min[c] = Line(Len(g), p.ex[i].min)

\* A row keeps them right.
LEMMA UpdatedExtremes ==
  ASSUME kind \in Kinds, NEW p, Lengths(p), set \in Settings, steady => SafeSettings(set),
         NEW row \in RowSet, NEW g \in Seq(RowSet), NEW a \in Seq(RowSet),
         ExtremesRight(kind, p, g, a)
  PROVE  ExtremesRight(kind, UpdateValues(kind, p, Row(row), set), Append(g, row), Append(a, row))
<1>1. PICK x : x = UpdateValues(kind, p, Row(row), set)
  OBVIOUS
<1>2. PICK q, r :
        /\ x = Extremes(kind, r)
        /\ SameRest(q, p) /\ SameRest(r, q) /\ DOMAIN r = Fields /\ Lengths(q)
        /\ \A c \in Curves :
             r.values[c] = Append(q.values[c], Row(row)[Number(Plot[kind].pushed[c]) + 1])
  <2>1. PICK q, r :
           /\ Lengths(q) /\ IsRest(q, p, Filtered(Len(p.times), set.maxData))
           /\ Lengths(r)
           /\ IsPushed(r, q, Row(row), NumValues(set.mean, set.rate),
                       NumValues(set.median, set.rate))
           /\ UpdateValues(kind, p, Row(row), set) = Extremes(kind, r)
           /\ SameRows(Extremes(kind, r), r)
    BY UpdatedBy
  <2>2. /\ x = Extremes(kind, r)
        /\ SameRest(q, p) /\ SameRest(r, q) /\ DOMAIN r = Fields /\ Lengths(q)
        /\ \A c \in Curves :
             r.values[c] = Append(q.values[c], Row(row)[Number(Plot[kind].pushed[c]) + 1])
    BY <1>1, <2>1 DEF IsRest, IsPushed
  <2>3. QED
    BY <2>2
<1>3. PICK k \in Kinds : k = kind
  OBVIOUS
<1>4. WellMeant(k)
  BY PlotsWellMeant
<1>5. PICK n \in Nat : n = Len(g)
  BY LenProperties
<1>6. PICK N \in Nat : N = Boxes(k)
  BY <1>4 DEF WellMeant
<1>7. r.max = p.max /\ r.min = p.min /\ r.ex = p.ex
  BY <1>2 DEF SameRest
<1>8. Boxed(k, r, r, n, 0)
  <2>1. SameRows(r, r)
    BY <1>2 DEF SameRows
  <2>2. \A i \in 1 .. N : ~(i <= 0)
    OBVIOUS
  <2>3. QED
    BY <1>3, <1>5, <1>6, <1>7, <2>1, <2>2 DEF Boxed, ExtremesRight
<1>9. Boxed(k, x, r, n, N)
  BY <1>2, <1>3, <1>6, <1>8, BoxesTake
<1>10. PICK b : b = Append(a, row)
  OBVIOUS
<1>11. PICK m \in Nat : m = Len(a)
  BY LenProperties
<1>12. Len(b) = m + 1 /\ b[m + 1] = row /\ \A j \in 1 .. m : b[j] = a[j]
  BY <1>10, <1>11, AppendProperties
<1>13. Len(Append(g, row)) = n + 1
  BY <1>5, AppendProperties
<1>14. ASSUME NEW i \in 1 .. N
       PROVE  LET c == Plot[k].extremes.of[i]
              IN /\ IsExtreme(x.ex[i], Samples1(Plot[k].pushed[c], b), m + 1)
                 /\ Own(Plot[k], i) => /\ x.max[c] = Line(n + 1, x.ex[i].max)
                                       /\ x.min[c] = Line(n + 1, x.ex[i].min)
  <2>1. PICK c : c = Plot[k].extremes.of[i]
    OBVIOUS
  <2>2. c \in Curves
    BY <1>3, <1>4, <1>6, <1>14, <2>1 DEF WellMeant, BoxMeant, CurvesOf, Curves
  <2>3. PICK name \in Names \ {"X"} : name = Plot[k].pushed[c]
    BY <1>3, <1>4, <2>2 DEF WellMeant, CurvesOf, Curves
  <2>4. PICK v : v = Sample(name, row)
    OBVIOUS
  <2>5. v \in Int /\ Highest < v /\ v < Lowest
    BY <2>4, SampleIs
  <2>6. Last(r.values[c]) = v
    <3>1. PICK s : s = q.values[c]
      OBVIOUS
    <3>2. IsSeq(s)
      BY <1>2, <2>2, <3>1 DEF Lengths
    <3>3. r.values[c] = Append(s, Row(row)[Number(name) + 1])
      BY <1>2, <1>3, <2>2, <2>3, <3>1
    <3>4. Row(row)[Number(name) + 1] = v
      BY <2>4, RowIs
    <3>5. r.values[c] = Append(s, v)
      BY <3>3, <3>4
    <3>6. Len(Append(s, v)) = Len(s) + 1 /\ Append(s, v)[Len(s) + 1] = v
      BY <3>2, AppendIs
    <3>7. QED
      BY <3>5, <3>6 DEF Last
  <2>7. PICK w : w = Samples1(name, a)
    OBVIOUS
  <2>8. PICK u : u = Samples1(name, b)
    OBVIOUS
  <2>9. /\ \A j \in 1 .. m : u[j] = w[j] /\ w[j] \in Int
        /\ u[m + 1] = v
    <3>1. ASSUME NEW j \in 1 .. m PROVE u[j] = w[j] /\ w[j] \in Int
      <4>1. a[j] \in RowSet
        BY <1>11, ElementOfSeq
      <4>2. Sample(name, a[j]) \in Int
        BY <4>1, SampleIs
      <4>3. QED
        BY <1>11, <1>12, <2>7, <2>8, <4>2 DEF Samples1
    <3>2. u[m + 1] = v
      BY <1>12, <2>4, <2>8 DEF Samples1
    <3>3. QED
      BY <3>1, <3>2
  <2>10. PICK old : old = p.ex[i]
    OBVIOUS
  <2>11. IsExtreme(old, w, m)
    BY <1>3, <1>6, <1>11, <2>1, <2>3, <2>7, <2>10 DEF ExtremesRight
  <2>12. IsExtreme(NewExtreme(old, v), u, m + 1)
    BY <2>5, <2>9, <2>11, ExtremeTakes
  <2>13. /\ x.ex[i] = NewExtreme(old, v)
         /\ Own(Plot[k], i) => /\ x.max[c] = Line(n + 1, x.ex[i].max)
                               /\ x.min[c] = Line(n + 1, x.ex[i].min)
    BY <1>6, <1>7, <1>9, <2>1, <2>6, <2>10 DEF Boxed
  <2>14. QED
    BY <2>1, <2>3, <2>8, <2>12, <2>13
<1>15. DOMAIN x.max = CurvesOf(k) /\ DOMAIN x.min = CurvesOf(k) /\ DOMAIN x.ex = 1 .. N
  BY <1>6, <1>9 DEF Boxed
<1>16. QED
  BY <1>3, <1>6, <1>10, <1>12, <1>13, <1>14, <1>15, <1>1 DEF ExtremesRight

-----------------------------------------------------------------------------
(* The rows, the means and the medians of a plot.                          *)

\* Parts of two sequences with the same elements.
SameParts(s, i, t, j, n) ==
  /\ i + n <= Len(s) /\ j + n <= Len(t)
  /\ \A l \in 1 .. n : s[i + l] = t[j + l]

\* They are equal.
LEMMA PartsEqual ==
  ASSUME NEW s, IsSeq(s), NEW t, IsSeq(t), NEW i \in Nat, NEW j \in Nat, NEW n \in Nat,
         SameParts(s, i, t, j, n)
  PROVE  SubSeq(s, i + 1, i + n) = SubSeq(t, j + 1, j + n)
<1>1. /\ i + n <= Len(s) /\ j + n <= Len(t)
      /\ \A l \in 1 .. n : s[i + l] = t[j + l]
  BY DEF SameParts
<1>2. PICK E, F : s \in Seq(E) /\ t \in Seq(F)
  BY IsSeqOf
<1>3. PICK G : G = E \cup F
  OBVIOUS
<1>4. s \in Seq(G) /\ t \in Seq(G)
  BY <1>2, <1>3, SeqMonotonic
<1>5. PICK a : a = SubSeq(s, i + 1, i + n)
  OBVIOUS
<1>6. PICK b : b = SubSeq(t, j + 1, j + n)
  OBVIOUS
<1>7. Len(s) \in Nat /\ Len(t) \in Nat
  BY DEF IsSeq
<1>8. /\ a \in Seq(G) /\ Len(a) = n
      /\ \A l \in 1 .. n : a[l] = s[i + l]
  <2>1. \A l \in i + 1 .. i + n : s[l] \in G
    <3>1. ASSUME NEW l \in i + 1 .. i + n PROVE s[l] \in G
      <4>1. l \in 1 .. Len(s)
        BY <1>1, <1>7
      <4>2. QED
        BY <1>4, <4>1, ElementOfSeq
    <3>2. QED
      BY <3>1
  <2>2. PICK from \in Int, to \in Int : from = i + 1 /\ to = i + n
    OBVIOUS
  <2>3. /\ a \in Seq(G)
        /\ Len(a) = IF from <= to THEN to - from + 1 ELSE 0
        /\ \A l \in 1 .. to - from + 1 : a[l] = s[from + l - 1]
    <3>1. a = SubSeq(s, from, to) /\ \A l \in from .. to : s[l] \in G
      BY <1>5, <2>1, <2>2
    <3>2. QED
      BY <3>1, SubSeqProperties
  <2>4. Len(a) = n
    BY <2>2, <2>3
  <2>5. ASSUME NEW l \in 1 .. n PROVE a[l] = s[i + l]
    <3>1. l \in 1 .. to - from + 1 /\ from + l - 1 = i + l
      BY <2>2
    <3>2. QED
      BY <2>3, <3>1
  <2>6. QED
    BY <2>3, <2>4, <2>5
<1>9. /\ b \in Seq(G) /\ Len(b) = n
      /\ \A l \in 1 .. n : b[l] = t[j + l]
  <2>1. \A l \in j + 1 .. j + n : t[l] \in G
    <3>1. ASSUME NEW l \in j + 1 .. j + n PROVE t[l] \in G
      <4>1. l \in 1 .. Len(t)
        BY <1>1, <1>7
      <4>2. QED
        BY <1>4, <4>1, ElementOfSeq
    <3>2. QED
      BY <3>1
  <2>2. PICK from \in Int, to \in Int : from = j + 1 /\ to = j + n
    OBVIOUS
  <2>3. /\ b \in Seq(G)
        /\ Len(b) = IF from <= to THEN to - from + 1 ELSE 0
        /\ \A l \in 1 .. to - from + 1 : b[l] = t[from + l - 1]
    <3>1. b = SubSeq(t, from, to) /\ \A l \in from .. to : t[l] \in G
      BY <1>6, <2>1, <2>2
    <3>2. QED
      BY <3>1, SubSeqProperties
  <2>4. Len(b) = n
    BY <2>2, <2>3
  <2>5. ASSUME NEW l \in 1 .. n PROVE b[l] = t[j + l]
    <3>1. l \in 1 .. to - from + 1 /\ from + l - 1 = j + l
      BY <2>2
    <3>2. QED
      BY <2>3, <3>1
  <2>6. QED
    BY <2>3, <2>4, <2>5
<1>10. \A l \in 1 .. n : a[l] = b[l]
  BY <1>1, <1>8, <1>9
<1>11. a = b
  BY <1>8, <1>9, <1>10, SeqEqual
<1>12. QED
  BY <1>5, <1>6, <1>11

\* At any places.
PartsAlike(s, t, n) ==
  \A i, j \in Nat : SameParts(s, i, t, j, n) => SubSeq(s, i + 1, i + n) = SubSeq(t, j + 1, j + n)

\* All such parts of n elements are equal.
LEMMA PartsAre ==
  ASSUME NEW s, IsSeq(s), NEW t, IsSeq(t), NEW n \in Nat
  PROVE  PartsAlike(s, t, n)
BY PartsEqual DEF PartsAlike

\* A plot holds the last rows it got, as many as a setting allows and one.
RowsHeld(k, p, g) ==
  LET T == Len(p.times) IN
  /\ T <= Len(g)
  /\ \A j \in 1 .. T : p.times[j] = g[Len(g) - T + j].time
  /\ \A c \in CurvesOf(k), j \in 1 .. T :
       p.values[c][j] = Sample(Plot[k].pushed[c], g[Len(g) - T + j])
  /\ \E m \in MaxData : T <= m + 1
  /\ T = Len(g) \/ \E m \in MaxData : T >= m + 1

\* It does with one row more.
LEMMA UpdatedRows ==
  ASSUME kind \in Kinds, NEW p, Lengths(p), set \in Settings, steady => SafeSettings(set),
         NEW row \in RowSet, NEW g \in Seq(RowSet), RowsHeld(kind, p, g)
  PROVE  RowsHeld(kind, UpdateValues(kind, p, Row(row), set), Append(g, row))
<1>1. PICK x : x = UpdateValues(kind, p, Row(row), set)
  OBVIOUS
<1>2. PICK q, r :
        /\ Lengths(q) /\ IsRest(q, p, Filtered(Len(p.times), set.maxData))
        /\ IsPushed(r, q, Row(row), NumValues(set.mean, set.rate),
                    NumValues(set.median, set.rate))
        /\ SameRows(x, r)
  <2>1. PICK q, r :
           /\ Lengths(q) /\ IsRest(q, p, Filtered(Len(p.times), set.maxData))
           /\ Lengths(r)
           /\ IsPushed(r, q, Row(row), NumValues(set.mean, set.rate),
                       NumValues(set.median, set.rate))
           /\ UpdateValues(kind, p, Row(row), set) = Extremes(kind, r)
           /\ SameRows(Extremes(kind, r), r)
    BY UpdatedBy
  <2>2. SameRows(x, r)
    BY <1>1, <2>1
  <2>3. QED
    BY <2>1, <2>2
<1>3. PICK limit \in MaxData : limit = set.maxData
  BY DEF Settings
<1>4. limit \in Nat
  BY <1>3, BoundsAssumption
<1>5. PICK T \in Nat : T = Len(p.times)
  BY DEF Lengths, IsSeq
<1>6. PICK e \in Nat : e = Filtered(T, limit)
  BY <1>4, <1>5, FilteredIs
<1>7. PICK R \in Nat : R = T - e
  BY <1>4, <1>6 DEF Filtered
<1>8. R <= limit /\ (R = T \/ R = limit)
  BY <1>4, <1>6, <1>7 DEF Filtered
<1>9. PICK n \in Nat : n = Len(g)
  BY LenProperties
<1>10. PICK h : h = Append(g, row)
  OBVIOUS
<1>11. Len(h) = n + 1 /\ h[n + 1] = row /\ \A j \in 1 .. n : h[j] = g[j]
  BY <1>9, <1>10, AppendProperties
<1>12. T <= n
  BY <1>5, <1>9 DEF RowsHeld
\* one vector: the rest of the old one and the value of the new row
<1>13. ASSUME NEW s, NEW t, NEW v, IsSeq(s), Len(s) = T,
              t = Append(SubSeq(s, e + 1, Len(s)), v)
       PROVE  /\ Len(t) = R + 1 /\ t[R + 1] = v
              /\ \A j \in 1 .. R : t[j] = s[e + j]
  <2>1. PICK o : o = SubSeq(s, e + 1, Len(s))
    OBVIOUS
  <2>2. IsSeq(o) /\ Len(o) = Filtered(T, e) /\ \A j \in 1 .. T - e : o[j] = s[e + j]
    BY <1>13, <2>1, RestIs
  <2>3. Len(o) = R
    BY <1>6, <1>7, <2>2 DEF Filtered
  <2>4. Len(t) = R + 1 /\ t[R + 1] = v /\ \A j \in 1 .. R : t[j] = o[j]
    BY <1>13, <2>1, <2>2, <2>3, AppendIs
  <2>5. QED
    BY <1>7, <2>2, <2>4
<1>14. /\ Len(x.times) = R + 1 /\ x.times[R + 1] = row.time
       /\ \A j \in 1 .. R : x.times[j] = p.times[e + j]
  <2>1. PICK s, t : s = p.times /\ t = x.times
    OBVIOUS
  <2>2. IsSeq(s) /\ Len(s) = T
    BY <1>5, <2>1 DEF Lengths
  <2>3. t = Append(SubSeq(s, e + 1, Len(s)), Row(row)[Number("X") + 1])
    BY <1>2, <1>3, <1>5, <1>6, <2>1 DEF IsRest, IsPushed, SameRows
  <2>4. "X" \in Names
    BY DEF Names, Data, ToSet
  <2>5. Row(row)[Number("X") + 1] = row.time
    BY <2>4, RowIs DEF Sample
  <2>6. PICK v : v = row.time
    OBVIOUS
  <2>7. t = Append(SubSeq(s, e + 1, Len(s)), v)
    BY <2>3, <2>5, <2>6
  <2>8. Len(t) = R + 1 /\ t[R + 1] = v /\ \A j \in 1 .. R : t[j] = s[e + j]
    BY <1>13, <2>2, <2>7
  <2>9. QED
    BY <2>1, <2>6, <2>8
<1>15. ASSUME NEW c \in Curves
       PROVE  /\ x.values[c][R + 1] = Sample(Plot[kind].pushed[c], row)
              /\ \A j \in 1 .. R : x.values[c][j] = p.values[c][e + j]
  <2>1. PICK s, t : s = p.values[c] /\ t = x.values[c]
    OBVIOUS
  <2>2. IsSeq(s) /\ Len(s) = T
    BY <1>5, <1>15, <2>1 DEF Lengths
  <2>3. PICK name \in Names : name = Plot[kind].pushed[c]
    <3>1. Plot[kind].pushed[c] \in Names
      BY <1>15, PlotsWellNamed DEF WellNamed, Curves
    <3>2. QED
      BY <3>1
  <2>4. t = Append(SubSeq(s, e + 1, Len(s)), Row(row)[Number(name) + 1])
    BY <1>2, <1>3, <1>5, <1>6, <1>15, <2>1, <2>3 DEF IsRest, IsPushed, SameRows
  <2>5. Row(row)[Number(name) + 1] = Sample(name, row)
    BY RowIs
  <2>6. PICK v : v = Sample(name, row)
    OBVIOUS
  <2>7. t = Append(SubSeq(s, e + 1, Len(s)), v)
    BY <2>4, <2>5, <2>6
  <2>8. Len(t) = R + 1 /\ t[R + 1] = v /\ \A j \in 1 .. R : t[j] = s[e + j]
    BY <1>13, <2>2, <2>7
  <2>9. QED
    BY <2>1, <2>3, <2>6, <2>8
<1>16. ASSUME NEW j \in 1 .. R + 1
       PROVE  /\ j = R + 1 => h[n + 1 - (R + 1) + j] = row
              /\ j # R + 1 => /\ j \in 1 .. R /\ e + j \in 1 .. T
                              /\ h[n + 1 - (R + 1) + j] = g[n - T + (e + j)]
  <2>1. CASE j = R + 1
    <3>1. n + 1 - (R + 1) + j = n + 1
      BY <2>1
    <3>2. QED
      BY <1>11, <2>1, <3>1
  <2>2. CASE j # R + 1
    <3>1. j \in 1 .. R
      BY <1>16, <2>2
    <3>2. e + j \in 1 .. T /\ n + 1 - (R + 1) + j = n - T + (e + j)
      BY <1>7, <3>1
    <3>3. n - T + (e + j) \in 1 .. n
      BY <1>12, <3>2
    <3>4. QED
      BY <1>11, <2>2, <3>1, <3>2, <3>3
  <2>3. QED
    BY <2>1, <2>2
<1>17. ASSUME NEW j \in 1 .. R + 1 PROVE x.times[j] = h[n + 1 - (R + 1) + j].time
  <2>1. CASE j = R + 1
    BY <1>14, <1>16, <2>1
  <2>2. CASE j # R + 1
    <3>1. j \in 1 .. R /\ e + j \in 1 .. T /\ h[n + 1 - (R + 1) + j] = g[n - T + (e + j)]
      BY <1>16, <2>2
    <3>2. p.times[e + j] = g[n - T + (e + j)].time
      BY <1>5, <1>9, <3>1 DEF RowsHeld
    <3>3. QED
      BY <1>14, <3>1, <3>2
  <2>3. QED
    BY <2>1, <2>2
<1>18. ASSUME NEW c \in CurvesOf(kind), NEW j \in 1 .. R + 1
       PROVE  x.values[c][j] = Sample(Plot[kind].pushed[c], h[n + 1 - (R + 1) + j])
  <2>1. c \in Curves
    BY DEF Curves, CurvesOf
  <2>2. CASE j = R + 1
    BY <1>15, <1>16, <2>1, <2>2
  <2>3. CASE j # R + 1
    <3>1. j \in 1 .. R /\ e + j \in 1 .. T /\ h[n + 1 - (R + 1) + j] = g[n - T + (e + j)]
      BY <1>16, <2>3
    <3>2. p.values[c][e + j] = Sample(Plot[kind].pushed[c], g[n - T + (e + j)])
      BY <1>5, <1>9, <3>1 DEF RowsHeld
    <3>3. QED
      BY <1>15, <2>1, <3>1, <3>2
  <2>4. QED
    BY <2>2, <2>3
<1>19. \E m \in MaxData : R + 1 <= m + 1
  BY <1>4, <1>8
<1>20. R + 1 = n + 1 \/ \E m \in MaxData : R + 1 >= m + 1
  <2>1. CASE R = limit
    BY <1>4, <2>1
  <2>2. CASE R = T /\ T = n
    BY <2>2
  <2>3. CASE R = T /\ T # n
    <3>1. PICK m \in MaxData : T >= m + 1
      BY <1>5, <1>9, <2>3 DEF RowsHeld
    <3>2. m \in Nat
      BY BoundsAssumption
    <3>3. R + 1 >= m + 1
      BY <2>3, <3>1, <3>2
    <3>4. QED
      BY <3>3
  <2>4. QED
    BY <1>8, <2>1, <2>2, <2>3
<1>21. R + 1 <= n + 1
  BY <1>7, <1>12
<1>22. PICK S \in Nat, l \in Nat : S = R + 1 /\ l = n + 1
  OBVIOUS
<1>23. /\ S <= l /\ \A j \in 1 .. S : x.times[j] = h[l - S + j].time
       /\ \A c \in CurvesOf(kind), j \in 1 .. S :
            x.values[c][j] = Sample(Plot[kind].pushed[c], h[l - S + j])
       /\ \E m \in MaxData : S <= m + 1
       /\ S = l \/ \E m \in MaxData : S >= m + 1
  BY <1>17, <1>18, <1>19, <1>20, <1>21, <1>22
<1>24. Len(h) = l /\ Len(x.times) = S
  BY <1>11, <1>14, <1>22
<1>25. RowsHeld(kind, x, h)
  BY <1>23, <1>24 DEF RowsHeld
<1>26. QED
  BY <1>1, <1>10, <1>25

\* The mean or the median of n values.
Filter(f, part, n) == IF f = "mean" THEN <<Total(part), n>> ELSE Middle(part)

\* Each is of the n values behind the one at its place.
VectorRight(f, vec, s, n) ==
  \A j \in 1 .. Len(vec) : vec[j] = Filter(f, SubSeq(s, j + 1, j + n), n)

\* It stays so when a row is taken.
LEMMA VectorTakes ==
  ASSUME NEW f, NEW s, IsSeq(s), NEW vec, IsSeq(vec), NEW n \in Nat, NEW e \in Nat,
         Len(vec) = Filtered(Len(s), n), e = 0 \/ e + n <= Len(s),
         VectorRight(f, vec, s, n), NEW v, NEW t, t = Append(SubSeq(s, e + 1, Len(s)), v),
         NEW w, NEW new, w = SubSeq(vec, e + 1, Len(vec)),
         new = IF Len(t) > n THEN Append(w, Filter(f, LastValues(t, n), n)) ELSE w
  PROVE  VectorRight(f, new, t, n)
<1>1. PICK T \in Nat : T = Len(s)
  BY DEF IsSeq
<1>2. PICK F \in Nat : F = Len(vec)
  BY DEF IsSeq
<1>3. IsSeq(t) => PartsAlike(s, t, n)
  BY PartsAre
<1>4. F = IF T > n THEN T - n ELSE 0
  BY <1>1, <1>2 DEF Filtered
<1>5. PICK rest : rest = SubSeq(s, e + 1, Len(s))
  OBVIOUS
<1>6. PICK R \in Nat : R = IF T > e THEN T - e ELSE 0
  <2>1. T \in Nat /\ e \in Nat
    OBVIOUS
  <2>2. (IF T > e THEN T - e ELSE 0) \in Nat
    BY <2>1
  <2>3. QED
    BY <2>2
<1>7. IsSeq(rest) /\ Len(rest) = R /\ \A j \in 1 .. T - e : rest[j] = s[e + j]
  BY <1>1, <1>5, <1>6, RestIs DEF Filtered
<1>8. PICK G \in Nat : G = IF F > e THEN F - e ELSE 0
  <2>1. F \in Nat /\ e \in Nat
    OBVIOUS
  <2>2. (IF F > e THEN F - e ELSE 0) \in Nat
    BY <2>1
  <2>3. QED
    BY <2>2
<1>9. IsSeq(w) /\ Len(w) = G /\ \A j \in 1 .. F - e : w[j] = vec[e + j]
  BY <1>2, <1>8, RestIs DEF Filtered
<1>10. IsSeq(t) /\ Len(t) = R + 1 /\ \A j \in 1 .. R : t[j] = rest[j]
  BY <1>5, <1>7, AppendIs
<1>11. G = IF R > n THEN R - n ELSE 0
  BY <1>1, <1>4, <1>6, <1>8
<1>12. ASSUME NEW j \in 1 .. G PROVE w[j] = Filter(f, SubSeq(t, j + 1, j + n), n)
  <2>1. j \in 1 .. F - e /\ e + j \in 1 .. F
    BY <1>8, <1>12
  <2>2. w[j] = vec[e + j]
    BY <1>9, <2>1
  <2>3. vec[e + j] = Filter(f, SubSeq(s, e + j + 1, e + j + n), n)
    BY <1>2, <2>1 DEF VectorRight
  <2>4. e + j + n <= T /\ j + n <= R + 1 /\ j + n <= R
    BY <1>1, <1>4, <1>6, <1>11, <1>12, <2>1
  <2>5. PICK i \in Nat : i = e + j
    BY <2>1
  <2>6. ASSUME NEW l \in 1 .. n PROVE s[i + l] = t[j + l]
    <3>1. j + l \in 1 .. R /\ j + l \in 1 .. T - e /\ e + (j + l) = i + l
      BY <1>6, <1>12, <2>4, <2>5
    <3>2. t[j + l] = rest[j + l] /\ rest[j + l] = s[e + (j + l)]
      BY <1>7, <1>10, <3>1
    <3>3. QED
      BY <3>1, <3>2
  <2>7. SubSeq(s, i + 1, i + n) = SubSeq(t, j + 1, j + n)
    <3>1. i + n <= Len(s) /\ j + n <= Len(t)
      BY <1>1, <1>10, <1>12, <2>4, <2>5
    <3>2. PICK k \in Nat : k = j
      OBVIOUS
    <3>3. IsSeq(t)
      BY <1>10
    <3>4. SameParts(s, i, t, k, n)
      BY <2>6, <3>1, <3>2 DEF SameParts
    <3>5. SubSeq(s, i + 1, i + n) = SubSeq(t, k + 1, k + n)
      BY <1>3, <3>3, <3>4 DEF PartsAlike
    <3>6. QED
      BY <3>2, <3>5
  <2>8. QED
    BY <2>2, <2>3, <2>5, <2>7
<1>13. CASE ~(R + 1 > n)
  <2>1. new = w
    BY <1>10, <1>13
  <2>2. QED
    BY <1>9, <1>12, <2>1 DEF VectorRight
<1>14. CASE R + 1 > n
  <2>1. PICK y : y = Filter(f, LastValues(t, n), n)
    OBVIOUS
  <2>2. new = Append(w, y)
    BY <1>10, <1>14, <2>1
  <2>3. /\ Len(new) = G + 1 /\ new[G + 1] = y
        /\ \A j \in 1 .. G : new[j] = w[j]
    BY <1>9, <2>2, AppendIs
  <2>4. G = R - n
    BY <1>11, <1>14
  <2>5. LastValues(t, n) = SubSeq(t, (G + 1) + 1, (G + 1) + n)
    <3>1. PICK L : L = Len(t)
      OBVIOUS
    <3>2. L - n + 1 = (G + 1) + 1 /\ L = (G + 1) + n
      BY <1>10, <2>4, <3>1
    <3>3. LastValues(t, n) = SubSeq(t, L - n + 1, L)
      BY <3>1 DEF LastValues
    <3>4. QED
      BY <3>2, <3>3
  <2>6. ASSUME NEW j \in 1 .. G + 1 PROVE new[j] = Filter(f, SubSeq(t, j + 1, j + n), n)
    <3>1. CASE j = G + 1
      BY <2>1, <2>3, <2>5, <3>1
    <3>2. CASE j # G + 1
      <4>1. j \in 1 .. G
        BY <2>6, <3>2
      <4>2. QED
        BY <1>12, <2>3, <4>1
    <3>3. QED
      BY <3>1, <3>2
  <2>7. QED
    BY <2>3, <2>6 DEF VectorRight
<1>15. QED
  BY <1>13, <1>14

\* The means and medians of a plot.
FilteredRight(k, p, n, m) ==
  \A c \in CurvesOf(k) : /\ VectorRight("mean", p.mean[c], p.values[c], n)
                         /\ VectorRight("median", p.median[c], p.values[c], m)

\* While the settings allow it they are right with one row more.
LEMMA UpdatedFilters ==
  ASSUME kind \in Kinds, NEW p, Lengths(p), set \in Settings, steady, SafeSettings(set),
         NEW row,
         FilteredRight(kind, p, NumValues(set.mean, set.rate), NumValues(set.median, set.rate))
  PROVE  FilteredRight(kind, UpdateValues(kind, p, row, set),
                       NumValues(set.mean, set.rate), NumValues(set.median, set.rate))
<1>1. PICK x : x = UpdateValues(kind, p, row, set)
  OBVIOUS
<1>2. PICK q, r :
        /\ Lengths(q) /\ IsRest(q, p, Filtered(Len(p.times), set.maxData))
        /\ IsPushed(r, q, row, NumValues(set.mean, set.rate),
                    NumValues(set.median, set.rate))
        /\ SameRows(x, r)
  <2>1. PICK q, r :
           /\ Lengths(q) /\ IsRest(q, p, Filtered(Len(p.times), set.maxData))
           /\ Lengths(r)
           /\ IsPushed(r, q, row, NumValues(set.mean, set.rate),
                       NumValues(set.median, set.rate))
           /\ UpdateValues(kind, p, row, set) = Extremes(kind, r)
           /\ SameRows(Extremes(kind, r), r)
    BY UpdatedBy
  <2>2. SameRows(x, r)
    BY <1>1, <2>1
  <2>3. QED
    BY <2>1, <2>2
<1>3. PICK limit \in Nat : limit = set.maxData
  BY SettingsAre
<1>4. PICK n \in Nat : n = NumValues(set.mean, set.rate) /\ n <= limit
  BY <1>3, SettingsAre
<1>5. PICK m \in Nat : m = NumValues(set.median, set.rate) /\ m <= limit
  BY <1>3, SettingsAre
<1>6. PICK T \in Nat : T = Len(p.times)
  BY DEF Lengths, IsSeq
<1>7. PICK e \in Nat : e = Filtered(T, limit)
  BY <1>6, FilteredIs
<1>8. (e = 0 \/ e + n <= T) /\ (e = 0 \/ e + m <= T)
  BY <1>4, <1>5, <1>7 DEF Filtered
<1>9. IsRest(q, p, e) /\ IsPushed(r, q, row, n, m)
  BY <1>2, <1>3, <1>4, <1>5, <1>6, <1>7
<1>10. FilteredRight(kind, p, n, m)
  BY <1>4, <1>5
<1>11. ASSUME NEW c \in CurvesOf(kind)
       PROVE  /\ VectorRight("mean", x.mean[c], x.values[c], n)
              /\ VectorRight("median", x.median[c], x.values[c], m)
  <2>1. c \in Curves
    BY DEF Curves, CurvesOf
  <2>2. PICK s : s = p.values[c]
    OBVIOUS
  <2>3. PICK t : t = x.values[c]
    OBVIOUS
  <2>4. PICK v : t = Append(SubSeq(s, e + 1, Len(s)), v)
    <3>1. t = Append(SubSeq(s, e + 1, Len(s)), row[Number(Plot[kind].pushed[c]) + 1])
      BY <1>2, <1>9, <2>1, <2>2, <2>3 DEF IsRest, IsPushed, SameRows
    <3>2. PICK v : v = row[Number(Plot[kind].pushed[c]) + 1]
      OBVIOUS
    <3>3. QED
      BY <3>1, <3>2
  <2>5. IsSeq(s) /\ Len(s) = T
    BY <1>6, <2>1, <2>2 DEF Lengths
  <2>6. VectorRight("mean", x.mean[c], t, n)
    <3>1. PICK vec : vec = p.mean[c]
      OBVIOUS
    <3>2. PICK w : w = SubSeq(vec, e + 1, Len(vec))
      OBVIOUS
    <3>3. PICK new : new = x.mean[c]
      OBVIOUS
    <3>4. IsSeq(vec) /\ Len(vec) = Filtered(Len(s), n)
      BY <1>4, <1>6, <2>1, <2>5, <3>1 DEF Lengths
    <3>5. PICK f : f = "mean"
      OBVIOUS
    <3>6. VectorRight(f, vec, s, n)
      BY <1>10, <2>2, <3>1, <3>5 DEF FilteredRight
    <3>7. new = ComputeMean(t, n, w)
      BY <1>2, <1>9, <2>1, <2>3, <3>1, <3>2, <3>3 DEF IsRest, IsPushed, SameRows
    <3>8. new = IF Len(t) > n THEN Append(w, Filter(f, LastValues(t, n), n)) ELSE w
      BY <3>5, <3>7 DEF ComputeMean, Mean, Filter
    <3>9. VectorRight(f, new, t, n)
      BY <1>8, <2>4, <2>5, <3>2, <3>4, <3>6, <3>8, VectorTakes
    <3>10. QED
      BY <3>3, <3>5, <3>9
  <2>7. VectorRight("median", x.median[c], t, m)
    <3>1. PICK vec : vec = p.median[c]
      OBVIOUS
    <3>2. PICK w : w = SubSeq(vec, e + 1, Len(vec))
      OBVIOUS
    <3>3. PICK new : new = x.median[c]
      OBVIOUS
    <3>4. IsSeq(vec) /\ Len(vec) = Filtered(Len(s), m)
      BY <1>5, <1>6, <2>1, <2>5, <3>1 DEF Lengths
    <3>5. PICK f : f = "median"
      OBVIOUS
    <3>6. VectorRight(f, vec, s, m)
      BY <1>10, <2>2, <3>1, <3>5 DEF FilteredRight
    <3>7. new = ComputeMedian(t, m, w)
      BY <1>2, <1>9, <2>1, <2>3, <3>1, <3>2, <3>3 DEF IsRest, IsPushed, SameRows
    <3>8. new = IF Len(t) > m THEN Append(w, Filter(f, LastValues(t, m), m)) ELSE w
      BY <3>5, <3>7 DEF ComputeMedian, Median, Filter
    <3>9. VectorRight(f, new, t, m)
      BY <1>8, <2>4, <2>5, <3>2, <3>4, <3>6, <3>8, VectorTakes
    <3>10. QED
      BY <3>3, <3>5, <3>9
  <2>8. QED
    BY <2>3, <2>6, <2>7
<1>12. FilteredRight(kind, x, n, m)
  BY <1>11 DEF FilteredRight
<1>13. QED
  BY <1>1, <1>4, <1>5, <1>12

-----------------------------------------------------------------------------
(* What the slots of a row make of a view.                                 *)

\* A plot is right for the rows it got and those it ever got.
PlotRight(k, p, g, a, filtered, n, m) ==
  k \in Kinds => /\ RowsHeld(k, p, g) /\ ExtremesRight(k, p, g, a)
                 /\ filtered => FilteredRight(k, p, n, m)

\* It stays right with a row more.
LEMMA UpdatedPlot ==
  ASSUME kind \in Kinds, NEW p, Lengths(p), set \in Settings, steady => SafeSettings(set),
         NEW row \in RowSet, NEW sig, NEW g \in Seq(RowSet), NEW a \in Seq(RowSet),
         NEW n, n = NumValues(set.mean, set.rate),
         NEW m, m = NumValues(set.median, set.rate), PlotRight(kind, p, g, a, steady, n, m),
         NEW q, q = [UpdateValues(kind, p, Row(row), set) EXCEPT !.apps = sig]
  PROVE  PlotRight(kind, q, Append(g, row), Append(a, row), steady, n, m)
<1>1. PICK x : x = UpdateValues(kind, p, Row(row), set)
  OBVIOUS
<1>2. RowsHeld(kind, p, g) /\ ExtremesRight(kind, p, g, a)
  BY DEF PlotRight
<1>3. RowsHeld(kind, x, Append(g, row))
  BY <1>1, <1>2, UpdatedRows
<1>4. ExtremesRight(kind, x, Append(g, row), Append(a, row))
  BY <1>1, <1>2, UpdatedExtremes
<1>5. steady => FilteredRight(kind, x, n, m)
  <2>1. SUFFICES ASSUME steady PROVE FilteredRight(kind, x, n, m)
    OBVIOUS
  <2>2. FilteredRight(kind, p, n, m) /\ SafeSettings(set)
    BY <2>1 DEF PlotRight
  <2>3. PICK o : o = Row(row)
    OBVIOUS
  <2>4. QED
    BY <1>1, <2>1, <2>2, <2>3, UpdatedFilters
<1>6. DOMAIN x = Fields
  BY <1>1, UpdatedLengths DEF Lengths
<1>7. q = [x EXCEPT !.apps = sig]
  BY <1>1
<1>8. /\ q.times = x.times /\ q.values = x.values /\ q.mean = x.mean /\ q.median = x.median
      /\ q.min = x.min /\ q.max = x.max /\ q.ex = x.ex
  BY <1>6, <1>7 DEF Fields
<1>9. RowsHeld(kind, q, Append(g, row))
  BY <1>3, <1>8 DEF RowsHeld
<1>10. ExtremesRight(kind, q, Append(g, row), Append(a, row))
  BY <1>4, <1>8 DEF ExtremesRight
<1>11. steady => FilteredRight(kind, q, n, m)
  BY <1>5, <1>8 DEF FilteredRight
<1>12. QED
  BY <1>9, <1>10, <1>11 DEF PlotRight

\* The heat maps of the window hold a value for each row.
MapsRight(k, h, g, a, started) ==
  k \in DOMAIN Maps =>
    /\ DOMAIN h = DOMAIN Maps[k]
    /\ \A m \in DOMAIN Maps[k] :
         LET taken == IF k = "UtilMaps" THEN g ELSE a
             values == Samples1(Maps[k][m], taken)
         IN /\ h[m].columns = Len(taken)
            /\ h[m].y = IF k = "UtilMaps" /\ started THEN values ELSE <<0>> \o values

\* Each of their values is one of a row.
LEMMA MapsNamed ==
  ASSUME NEW k \in DOMAIN Maps, NEW m \in DOMAIN Maps[k] PROVE Maps[k][m] \in Names
<1>1. CASE k = "UtilMaps"
  <2>1. Maps[k] = UtilMaps
    BY <1>1 DEF Maps
  <2>2. UtilMaps[m] \in {"UtilCpu", "UtilGpuCore", "UtilGpuMem", "UtilFpga", "UtilMic"}
    BY <2>1 DEF UtilMaps
  <2>3. QED
    BY <2>1, <2>2 DEF Names, Data, ToSet
<1>2. CASE k = "TempMaps"
  <2>1. Maps[k] = TempMaps
    BY <1>2 DEF Maps
  <2>2. TempMaps[m] \in {"TempCpu0", "TempCpu1", "TempGpu", "TempFpgaM", "TempFpgaI",
                         "TempMicDie", "TempSystem"}
    BY <2>1 DEF TempMaps
  <2>3. QED
    BY <2>1, <2>2 DEF Names, Data, ToSet
<1>3. QED
  BY <1>1, <1>2 DEF Maps

\* A row more in the values of one name, and in a line behind a 0.
LEMMA SampledMore ==
  ASSUME NEW b, NEW a \in Seq(RowSet), NEW row \in RowSet
  PROVE  /\ Samples1(b, Append(a, row)) = Append(Samples1(b, a), Sample(b, row))
         /\ <<0>> \o Samples1(b, Append(a, row)) = Append(<<0>> \o Samples1(b, a), Sample(b, row))
         /\ Len(Append(a, row)) = Len(a) + 1
<1>1. PICK n \in Nat : n = Len(a)
  BY LenProperties
<1>2. PICK v : v = Sample(b, row)
  OBVIOUS
<1>3. PICK t : t = Append(a, row)
  OBVIOUS
<1>4. /\ Len(t) = n + 1 /\ t[n + 1] = row /\ \A j \in 1 .. n : t[j] = a[j]
  BY <1>1, <1>3, AppendProperties
<1>5. PICK s : s = Samples1(b, a)
  OBVIOUS
<1>6. PICK E : E = {s[j] : j \in 1 .. n} \cup {v, 0}
  OBVIOUS
<1>7. s = [j \in 1 .. n |-> s[j]] /\ \A j \in 1 .. n : s[j] = Sample(b, a[j]) /\ s[j] \in E
  BY <1>1, <1>5, <1>6 DEF Samples1
<1>8. s \in Seq(E) /\ Len(s) = n /\ v \in E /\ 0 \in E
  <2>1. s \in [1 .. n -> E]
    BY <1>7
  <2>2. s \in Seq(E)
    BY <2>1, SeqDef
  <2>3. DOMAIN s = 1 .. n
    BY <1>7
  <2>4. Len(s) = n
    BY <2>2, <2>3, LenProperties
  <2>5. QED
    BY <1>6, <2>2, <2>4
<1>9. PICK u : u = Append(s, v)
  OBVIOUS
<1>10. /\ u \in Seq(E) /\ Len(u) = n + 1 /\ u[n + 1] = v /\ \A j \in 1 .. n : u[j] = s[j]
  BY <1>8, <1>9, AppendProperties
<1>11. PICK x : x = Samples1(b, t)
  OBVIOUS
<1>12. x = [j \in 1 .. n + 1 |-> Sample(b, t[j])]
  BY <1>4, <1>11 DEF Samples1
<1>13. ASSUME NEW j \in 1 .. n + 1 PROVE x[j] = u[j]
  <2>1. CASE j = n + 1
    BY <1>2, <1>4, <1>10, <1>12, <2>1
  <2>2. CASE j # n + 1
    <3>1. j \in 1 .. n
      BY <2>2
    <3>2. QED
      BY <1>4, <1>7, <1>10, <1>12, <3>1
  <2>3. QED
    BY <2>1, <2>2
<1>14. x = u
  <2>1. u = [j \in 1 .. n + 1 |-> u[j]]
    <3>1. DOMAIN u = 1 .. n + 1
      BY <1>10, LenProperties
    <3>2. IsSeq(u)
      BY <1>10, SeqIs
    <3>3. QED
      BY <1>10, <3>2 DEF IsSeq
  <2>2. x = [j \in 1 .. n + 1 |-> x[j]]
    BY <1>12
  <2>3. QED
    BY <1>13, <2>1, <2>2
<1>15. PICK z : z = <<0>> /\ z \in Seq(E)
  <2>1. PICK zero \in E : zero = 0
    BY <1>8
  <2>2. <<zero>> \in [1 .. 1 -> E] /\ 1 \in Nat
    OBVIOUS
  <2>3. <<zero>> \in Seq(E)
    BY <2>2, SeqDef
  <2>4. QED
    BY <2>1, <2>3
<1>16. z \o u = Append(z \o s, v)
  BY <1>8, <1>9, <1>15, AppendProperties, ConcatAssociative
<1>17. Len(t) = Len(a) + 1
  BY <1>1, <1>4
<1>18. QED
  BY <1>2, <1>3, <1>5, <1>9, <1>11, <1>14, <1>15, <1>16, <1>17

\* The maps stay right with a row more.
LEMMA UpdatedMaps ==
  ASSUME NEW k, NEW h, NEW g \in Seq(RowSet), NEW a \in Seq(RowSet), NEW row \in RowSet,
         NEW started, MapsRight(k, h, g, a, started)
  PROVE  MapsRight(k, UpdateMaps(k, h, Row(row)), Append(g, row), Append(a, row), started)
<1>1. SUFFICES ASSUME k \in DOMAIN Maps
               PROVE  MapsRight(k, UpdateMaps(k, h, Row(row)), Append(g, row),
                                Append(a, row), started)
  BY DEF MapsRight
<1>2. PICK x : x = UpdateMaps(k, h, Row(row))
  OBVIOUS
<1>3. PICK o : o = Row(row)
  OBVIOUS
<1>4. DOMAIN h = DOMAIN Maps[k]
  BY <1>1 DEF MapsRight
<1>5. x = [m \in DOMAIN h |-> [y |-> Append(h[m].y, o[Number(Maps[k][m]) + 1]),
                               columns |-> h[m].columns + 1]]
  BY <1>2, <1>3 DEF UpdateMaps
<1>6. PICK t \in Seq(RowSet) : t = IF k = "UtilMaps" THEN g ELSE a
  OBVIOUS
<1>7. PICK u : u = Append(t, row)
  OBVIOUS
<1>8. u = IF k = "UtilMaps" THEN Append(g, row) ELSE Append(a, row)
  BY <1>6, <1>7
<1>9. ASSUME NEW m \in DOMAIN Maps[k]
      PROVE  /\ x[m].columns = Len(u)
             /\ x[m].y = IF k = "UtilMaps" /\ started THEN Samples1(Maps[k][m], u)
                         ELSE <<0>> \o Samples1(Maps[k][m], u)
  <2>1. PICK b \in Names : b = Maps[k][m]
    BY <1>1, MapsNamed
  <2>2. o[Number(b) + 1] = Sample(b, row)
    BY <1>3, RowIs
  <2>3. /\ h[m].columns = Len(t)
        /\ h[m].y = IF k = "UtilMaps" /\ started THEN Samples1(b, t) ELSE <<0>> \o Samples1(b, t)
    BY <1>1, <1>6, <2>1 DEF MapsRight
  <2>4. /\ Samples1(b, u) = Append(Samples1(b, t), Sample(b, row))
        /\ <<0>> \o Samples1(b, u) = Append(<<0>> \o Samples1(b, t), Sample(b, row))
        /\ Len(u) = Len(t) + 1
    BY <1>7, SampledMore
  <2>5. x[m].y = Append(h[m].y, Sample(b, row)) /\ x[m].columns = h[m].columns + 1
    BY <1>4, <1>5, <2>1, <2>2
  <2>6. QED
    BY <2>1, <2>3, <2>4, <2>5
<1>10. DOMAIN x = DOMAIN Maps[k]
  BY <1>4, <1>5
<1>11. MapsRight(k, x, Append(g, row), Append(a, row), started)
  BY <1>8, <1>9, <1>10 DEF MapsRight
<1>12. QED
  BY <1>2, <1>11

\* What a slot has made of the view is right.
SlotRight(s) ==
  /\ PlotRight(kind, s.view, s.got, s.all, steady, NumValues(set.mean, set.rate),
               NumValues(set.median, set.rate))
  /\ MapsRight(kind, s.view, s.got, s.all, mpGuiTimer)

\* It is after one slot more.
LEMMA SlotStaysRight ==
  ASSUME kind \in Kinds \cup DOMAIN Maps, NEW row, NEW sig, NEW i \in Nat, SlotsReady(row),
         NEW s, SlotsTake(s, row, sig, i), SlotRight(s)
  PROVE  SlotRight(UpdateSlot(s, row, sig))
<1>1. PICK t : t = UpdateSlot(s, row, sig)
  OBVIOUS
<1>2. DOMAIN s = {"view", "got", "all", "crashed"}
  BY DEF SlotsTake
<1>3. CASE \/ s.crashed # "no" \/ row = None
           \/ kind \in Kinds /\ EraseFails(kind, s.view, set.maxData)
  <2>1. \/ t = s \/ t = [s EXCEPT !.crashed = "values"] \/ t = [s EXCEPT !.crashed = "erase"]
    BY <1>1, <1>3 DEF UpdateSlot
  <2>2. t.view = s.view /\ t.got = s.got /\ t.all = s.all
    BY <1>2, <2>1
  <2>3. QED
    BY <1>1, <2>2 DEF SlotRight
<1>4. CASE /\ s.crashed = "no" /\ row # None
           /\ ~(kind \in Kinds /\ EraseFails(kind, s.view, set.maxData))
  <2>1. PICK v : v = IF kind \in Kinds
                       THEN [UpdateValues(kind, s.view, Row(row), set) EXCEPT !.apps = sig]
                       ELSE UpdateMaps(kind, s.view, Row(row))
    OBVIOUS
  <2>2. t = [s EXCEPT !.view = v, !.got = Append(@, row), !.all = Append(@, row)]
    BY <1>1, <1>4, <2>1 DEF UpdateSlot
  <2>3. PICK g, a : g = s.got /\ a = s.all
    OBVIOUS
  <2>4. t.view = v /\ t.got = Append(g, row) /\ t.all = Append(a, row)
    BY <1>2, <2>2, <2>3
  <2>5. row \in RowSet
    BY <1>4 DEF SlotsReady
  <2>6. g \in Seq(RowSet) /\ a \in Seq(RowSet)
    BY <2>3 DEF SlotsTake, Appended
  <2>7. PICK p : p = s.view
    OBVIOUS
  <2>8. PICK n, m : n = NumValues(set.mean, set.rate) /\ m = NumValues(set.median, set.rate)
    OBVIOUS
  <2>9. PlotRight(kind, p, g, a, steady, n, m) /\ MapsRight(kind, p, g, a, mpGuiTimer)
    BY <2>3, <2>7, <2>8 DEF SlotRight
  <2>10. CASE kind \in Kinds
    <3>1. Lengths(p) /\ set \in Settings /\ (steady => SafeSettings(set))
      BY <2>7, <2>10 DEF SlotsTake, SlotsReady
    <3>2. v = [UpdateValues(kind, p, Row(row), set) EXCEPT !.apps = sig]
      BY <2>1, <2>7, <2>10
    <3>3. PlotRight(kind, v, Append(g, row), Append(a, row), steady, n, m)
      BY <2>5, <2>6, <2>8, <2>9, <2>10, <3>1, <3>2, UpdatedPlot
    <3>4. MapsRight(kind, v, Append(g, row), Append(a, row), mpGuiTimer)
      BY <2>10 DEF MapsRight, Maps, Kinds
    <3>5. QED
      BY <1>1, <2>4, <2>8, <3>3, <3>4 DEF SlotRight
  <2>11. CASE kind \notin Kinds
    <3>1. v = UpdateMaps(kind, p, Row(row))
      BY <2>1, <2>7, <2>11
    <3>2. PICK k, started : k = kind /\ started = mpGuiTimer
      OBVIOUS
    <3>3. MapsRight(k, v, Append(g, row), Append(a, row), started)
      BY <2>5, <2>6, <2>9, <3>1, <3>2, UpdatedMaps
    <3>4. PlotRight(kind, v, Append(g, row), Append(a, row), steady, n, m)
      BY <2>11 DEF PlotRight
    <3>5. QED
      BY <1>1, <2>4, <2>8, <3>2, <3>3, <3>4 DEF SlotRight
  <2>12. QED
    BY <2>10, <2>11
<1>5. QED
  BY <1>3, <1>4

\* And after all of them.
LEMMA SlotsStayRight ==
  ASSUME kind \in Kinds \cup DOMAIN Maps, NEW row, NEW sig, NEW n \in Nat, SlotsReady(row),
         SlotRight(Before)
  PROVE  SlotRight(After(n, row, sig))
<1>1. PICK f : SlotsBy(f, row, sig, n) /\ After(n, row, sig) = f[n]
  BY AfterIs
<1>2. \A i \in 0 .. n : SlotsTake(f[i], row, sig, i)
  BY <1>1, SlotsEach
<1> DEFINE U == {i \in 0 .. n : ~SlotRight(f[i])}
<1>3. U = {}
  <2>1. SUFFICES ASSUME U # {} PROVE FALSE
    OBVIOUS
  <2>2. PICK m \in U : \A k \in U : m <= k
    <3>1. U \in SUBSET Nat
      OBVIOUS
    <3>2. QED
      BY <2>1, <3>1, Least
  <2>3. m \in 0 .. n /\ ~SlotRight(f[m])
    OBVIOUS
  <2>4. m # 0
    BY <1>1, <2>3 DEF SlotsBy
  <2>5. m - 1 \in 0 .. n /\ m - 1 \in Nat /\ m - 1 \notin U
    BY <2>2, <2>3, <2>4
  <2>6. SlotRight(f[m - 1])
    BY <2>5
  <2>7. f[m] = UpdateSlot(f[m - 1], row, sig)
    BY <1>1, <2>3, <2>4 DEF SlotsBy
  <2>8. PICK i \in Nat : i = m - 1
    BY <2>5
  <2>9. PICK s : s = f[m - 1]
    OBVIOUS
  <2>10. SlotsTake(s, row, sig, i) /\ SlotRight(s)
    BY <1>2, <2>5, <2>6, <2>9, <2>8
  <2>11. SlotRight(UpdateSlot(s, row, sig))
    BY <2>10, <2>8, SlotStaysRight
  <2>12. QED
    BY <2>3, <2>7, <2>9, <2>11
<1>4. n \in 0 .. n /\ n \notin U
  BY <1>3
<1>5. QED
  BY <1>1, <1>4

-----------------------------------------------------------------------------
(* The invariant.                                                          *)

\* The fields of the overview are of a row that was answered; no slot is
\* behind its boxes.
OverviewRight(k, v, b, m, r) ==
  /\ m.filled => m.row \in RowSet
  /\ k = "Overview" =>
       /\ \A i \in 1 .. Len(b) : b[i] = 0
       /\ v.fields = <<>> \/ \E x \in RowSet : x.time <= r /\ v.fields = Row(x)

\* The invariant of what a view shows.
DrawnInv ==
  /\ PlotRight(kind, view, got, all, steady, NumValues(set.mean, set.rate),
               NumValues(set.median, set.rate))
  /\ MapsRight(kind, view, got, all, mpGuiTimer)
  /\ OverviewRight(kind, view, boxes, mValues, rows)

\* Lines and values of no rows.
LEMMA NothingYet ==
  /\ \A v : Line(0, v) = <<>>
  /\ \A b : Samples1(b, <<>>) = <<>>
  /\ Len(<<>>) = 0 /\ <<0>> \o <<>> = <<0>>
<1>1. <<>> \in Seq({}) /\ Len(<<>>) = 0
  BY EmptySeq
<1>2. ASSUME NEW s, s \in [1 .. 0 -> {}] PROVE s = <<>>
  <2>1. s \in Seq({}) /\ 0 \in Nat
    BY <1>2, SeqDef
  <2>2. DOMAIN s = 1 .. 0
    BY <1>2
  <2>3. Len(s) = 0
    BY <2>1, <2>2, LenProperties
  <2>4. QED
    BY <1>1, <2>1, <2>3, SeqEqual
<1>3. ASSUME NEW v PROVE Line(0, v) = <<>>
  <2>1. PICK s : s = Line(0, v)
    OBVIOUS
  <2>2. s \in [1 .. 0 -> {}]
    BY <2>1 DEF Line
  <2>3. QED
    BY <1>2, <2>1, <2>2
<1>4. ASSUME NEW b PROVE Samples1(b, <<>>) = <<>>
  <2>1. PICK e : e = <<>>
    OBVIOUS
  <2>2. Len(e) = 0
    BY <1>1, <2>1
  <2>3. PICK s : s = Samples1(b, e)
    OBVIOUS
  <2>4. s \in [1 .. 0 -> {}]
    BY <2>2, <2>3 DEF Samples1
  <2>5. QED
    BY <1>2, <2>1, <2>3, <2>4
<1>5. <<0>> \o <<>> = <<0>>
  <2>1. <<0>> \in Seq(Int)
    OBVIOUS
  <2>2. QED
    BY <2>1, ConcatEmptySeq
<1>6. QED
  BY <1>1, <1>3, <1>4, <1>5

\* A plot without rows is right, whatever the settings, if its extremes are.
LEMMA EmptyPlotRight ==
  ASSUME NEW k \in Kinds, NEW p, p.times = <<>>, p.min = NoVectors(k), p.max = NoVectors(k),
         p.mean = NoVectors(k), p.median = NoVectors(k), NEW a, NEW filtered, NEW n, NEW m,
         DOMAIN p.ex = 1 .. Boxes(k),
         \A i \in 1 .. Boxes(k) :
           IsExtreme(p.ex[i], Samples1(Plot[k].pushed[Plot[k].extremes.of[i]], a), Len(a))
  PROVE  PlotRight(k, p, <<>>, a, filtered, n, m)
<1>1. Len(<<>>) = 0 /\ \A v : Line(0, v) = <<>>
  BY NothingYet
<1>2. \A c \in CurvesOf(k) : p.min[c] = <<>> /\ p.max[c] = <<>>
                            /\ p.mean[c] = <<>> /\ p.median[c] = <<>>
  BY DEF NoVectors, CurvesOf
<1>3. DOMAIN p.min = CurvesOf(k) /\ DOMAIN p.max = CurvesOf(k)
  BY DEF NoVectors, CurvesOf
<1>4. PICK e : e = <<>> /\ Len(e) = 0
  BY <1>1
<1>5. RowsHeld(k, p, e)
  <2>1. PICK l \in MaxData : l \in Nat
    BY BoundsAssumption
  <2>2. 0 <= l + 1
    BY <2>1
  <2>3. Len(p.times) = 0
    BY <1>4
  <2>4. QED
    BY <1>4, <2>2, <2>3 DEF RowsHeld
<1>6. ASSUME NEW i \in 1 .. Boxes(k) PROVE Plot[k].extremes.of[i] \in CurvesOf(k)
  <2>1. WellMeant(k)
    BY PlotsWellMeant
  <2>2. BoxMeant(Plot[k], CsvHeader(k), Meant[k], i) /\ Plot[k].drawn = CurvesOf(k)
    BY <2>1 DEF WellMeant
  <2>3. QED
    BY <2>2 DEF BoxMeant
<1>7. ExtremesRight(k, p, e, a)
  BY <1>1, <1>2, <1>3, <1>4, <1>6 DEF ExtremesRight
<1>8. FilteredRight(k, p, n, m)
  <2>1. ASSUME NEW c \in CurvesOf(k)
        PROVE  /\ VectorRight("mean", p.mean[c], p.values[c], n)
               /\ VectorRight("median", p.median[c], p.values[c], m)
    <3>1. Len(p.mean[c]) = 0 /\ Len(p.median[c]) = 0
      BY <1>1, <1>2
    <3>2. QED
      BY <3>1 DEF VectorRight
  <2>2. QED
    BY <2>1 DEF FilteredRight
<1>9. QED
  BY <1>4, <1>5, <1>7, <1>8 DEF PlotRight

\* A plot without rows that never had one.
LEMMA NewPlotRight ==
  ASSUME NEW k \in Kinds, NEW filtered, NEW n, NEW m
  PROVE  PlotRight(k, NewPlot(k), <<>>, <<>>, filtered, n, m)
<1>1. PICK p : p = NewPlot(k)
  OBVIOUS
<1>2. /\ p.times = <<>> /\ p.min = NoVectors(k) /\ p.max = NoVectors(k)
      /\ p.mean = NoVectors(k) /\ p.median = NoVectors(k)
      /\ p.ex = [i \in DOMAIN Plot[k].init.boxes |-> [min |-> Lowest, max |-> Highest]]
  BY <1>1 DEF NewPlot
<1>3. DOMAIN Plot[k].init.boxes = 1 .. Boxes(k)
  BY PlotsWellMeant DEF WellMeant
<1>4. Len(<<>>) = 0
  BY EmptySeq
<1>5. ASSUME NEW w, NEW x, x = [min |-> Lowest, max |-> Highest] PROVE IsExtreme(x, w, 0)
  <2>1. x \in [min : Int, max : Int] /\ x.max = Highest /\ x.min = Lowest
    BY <1>5, ExtremesAssumption
  <2>2. QED
    BY <2>1 DEF IsExtreme
<1>6. \A i \in 1 .. Boxes(k) :
        IsExtreme(p.ex[i], Samples1(Plot[k].pushed[Plot[k].extremes.of[i]], <<>>), Len(<<>>))
  BY <1>2, <1>3, <1>4, <1>5
<1>7. DOMAIN p.ex = 1 .. Boxes(k)
  BY <1>2, <1>3
<1>8. PlotRight(k, p, <<>>, <<>>, filtered, n, m)
  BY <1>2, <1>6, <1>7, EmptyPlotRight
<1>9. QED
  BY <1>1, <1>8

\* What a new client shows.
LEMMA DrawnInit == CInit => DrawnInv
<1> SUFFICES ASSUME CInit PROVE DrawnInv
  OBVIOUS
<1>1. /\ view = NewView(kind) /\ got = <<>> /\ all = <<>> /\ steady = FALSE /\ boxes = <<>>
      /\ ~mValues.filled
  BY DEF CInit
<1>2. PlotRight(kind, view, got, all, steady, NumValues(set.mean, set.rate),
                NumValues(set.median, set.rate))
  <2>1. CASE kind \in Kinds
    <3>1. PICK k, n, m, f : /\ k = kind /\ n = NumValues(set.mean, set.rate)
                            /\ m = NumValues(set.median, set.rate) /\ f = steady
      OBVIOUS
    <3>2. PlotRight(k, NewPlot(k), <<>>, <<>>, f, n, m)
      BY <2>1, <3>1, NewPlotRight
    <3>3. view = NewPlot(k)
      BY <1>1, <2>1, <3>1 DEF NewView
    <3>4. QED
      BY <1>1, <3>1, <3>2, <3>3
  <2>2. CASE kind \notin Kinds
    BY <2>2 DEF PlotRight
  <2>3. QED
    BY <2>1, <2>2
<1>3. MapsRight(kind, view, got, all, mpGuiTimer)
  <2>1. SUFFICES ASSUME kind \in DOMAIN Maps PROVE MapsRight(kind, view, got, all, mpGuiTimer)
    BY DEF MapsRight
  <2>2. kind \notin Kinds /\ kind # "Overview"
    BY <2>1 DEF Maps, Kinds
  <2>3. view = [m \in DOMAIN Maps[kind] |-> [y |-> <<0>>, columns |-> 0]]
    BY <1>1, <2>2 DEF NewView, NewMaps
  <2>4. ~mpGuiTimer
    BY DEF CInit
  <2>5. /\ \A b : Samples1(b, <<>>) = <<>>
        /\ Len(<<>>) = 0 /\ <<0>> \o <<>> = <<0>>
    BY NothingYet
  <2>6. PICK e, z : e = <<>> /\ z = <<0>>
    OBVIOUS
  <2>7. Len(e) = 0 /\ z \o e = z /\ \A b : Samples1(b, e) = e
    BY <2>5, <2>6
  <2>8. DOMAIN view = DOMAIN Maps[kind] /\ got = e /\ all = e
    BY <1>1, <2>3, <2>6
  <2>9. \A m \in DOMAIN Maps[kind] : view[m].y = z /\ view[m].columns = 0
    BY <2>3, <2>6
  <2>10. QED
    BY <2>4, <2>6, <2>7, <2>8, <2>9 DEF MapsRight
<1>4. OverviewRight(kind, view, boxes, mValues, rows)
  <2>1. Len(boxes) = 0
    BY <1>1, EmptySeq
  <2>2. kind = "Overview" => view.fields = <<>>
    BY <1>1 DEF NewView, Kinds
  <2>3. QED
    BY <1>1, <2>1, <2>2 DEF OverviewRight
<1>5. QED
  BY <1>2, <1>3, <1>4 DEF DrawnInv

\* The steps that leave the view and its rows alone.
LEMMA DrawnStays ==
  ASSUME DrawnInv, UNCHANGED <<kind, view, got, all, mpGuiTimer>>,
         steady' => /\ steady
                    /\ set'.mean = set.mean /\ set'.median = set.median
                    /\ set'.rate = set.rate,
         OverviewRight(kind, view, boxes, mValues, rows)'
  PROVE  DrawnInv'
<1>1. PICK n, m, f : f = steady /\ n = NumValues(set.mean, set.rate)
                     /\ m = NumValues(set.median, set.rate)
  OBVIOUS
<1>2. PICK k, p, g, a : k = kind /\ p = view /\ g = got /\ a = all
  OBVIOUS
<1>3. PlotRight(k, p, g, a, f, n, m)
  BY <1>1, <1>2 DEF DrawnInv
<1>4. PICK i, j, h : h = steady' /\ i = NumValues(set.mean, set.rate)'
                     /\ j = NumValues(set.median, set.rate)'
  OBVIOUS
<1>5. h => f /\ i = n /\ j = m
  BY <1>1, <1>4
<1>6. PlotRight(k, p, g, a, h, i, j)
  BY <1>3, <1>5 DEF PlotRight
<1>7. PlotRight(kind, view, got, all, steady, NumValues(set.mean, set.rate),
                NumValues(set.median, set.rate))'
  BY <1>2, <1>4, <1>6
<1>8. MapsRight(kind, view, got, all, mpGuiTimer)'
  BY DEF DrawnInv
<1>9. QED
  BY <1>7, <1>8 DEF DrawnInv

\* The overview when what it shows does not change.
LEMMA OverviewStays ==
  ASSUME NEW k, NEW v, NEW b, NEW m, NEW r \in Nat, OverviewRight(k, v, b, m, r), NEW c, NEW o,
         NEW s \in Nat, r <= s, o.filled => o.row \in RowSet,
         k = "Overview" => \A i \in 1 .. Len(c) : c[i] = 0
  PROVE  OverviewRight(k, v, c, o, s)
<1>1. SUFFICES ASSUME k = "Overview", NEW x \in RowSet, x.time <= r PROVE x.time <= s
  BY DEF OverviewRight
<1>2. x.time \in Nat
  BY BoundsAssumption DEF RowSet
<1>3. QED
  BY <1>1, <1>2

\* A stop, a connection, and what happens to the server.
LEMMA DrawnIdle ==
  ASSUME ClientInv, DrawnInv, Stop \/ Show \/ Signal \/ ServerStops \/ ServerStarts
  PROVE  DrawnInv'
<1>1. UNCHANGED <<kind, view, got, all, mpGuiTimer, steady, set, boxes, mValues, rows>>
  <2>1. CASE Stop
    BY <2>1 DEF Stop, bounds, history
  <2>2. CASE Show
    BY <2>2 DEF Show
  <2>3. CASE Signal
    BY <2>3 DEF Signal, window, history
  <2>4. CASE ServerStops
    BY <2>4 DEF ServerStops, window, bounds
  <2>5. CASE ServerStarts
    BY <2>5 DEF ServerStarts, window, bounds, history
  <2>6. QED
    BY <2>1, <2>2, <2>3, <2>4, <2>5
<1>2. OverviewRight(kind, view, boxes, mValues, rows)'
  BY <1>1 DEF DrawnInv
<1>3. QED
  BY <1>1, <1>2, DrawnStays

\* Another box: no slot of the overview is behind it.
LEMMA BoxOpened ==
  ASSUME ClientInv, DrawnInv, kind = "Overview", boxes' = Append(boxes, Slots)
  PROVE  \A i \in 1 .. Len(boxes') : boxes'[i] = 0
<1>1. PICK b \in Seq(Nat) : b = boxes
  BY DEF ClientInv, WindowTypes
<1>2. PICK n \in Nat : n = Len(b)
  BY LenProperties
<1>3. \A i \in 1 .. n : b[i] = 0
  BY <1>1, <1>2 DEF DrawnInv, OverviewRight
<1>4. PICK c : c = Append(b, 0)
  OBVIOUS
<1>5. Len(c) = n + 1 /\ c[n + 1] = 0 /\ \A i \in 1 .. n : c[i] = b[i]
  BY <1>2, <1>4, AppendProperties
<1>6. ASSUME NEW i \in 1 .. n + 1 PROVE c[i] = 0
  <2>1. CASE i = n + 1
    BY <1>5, <2>1
  <2>2. CASE i # n + 1
    <3>1. i \in 1 .. n
      BY <2>2
    <3>2. QED
      BY <1>3, <1>5, <3>1
  <2>3. QED
    BY <2>1, <2>2
<1>7. boxes' = c
  BY <1>1, <1>4 DEF Slots
<1>8. QED
  BY <1>5, <1>6, <1>7

\* No answer.
LEMMA DrawnFails == ASSUME ClientInv, DrawnInv, RequestFails PROVE DrawnInv'
<1>1. /\ UNCHANGED <<kind, view, got, all, mpGuiTimer, steady, set, mValues, rows>>
      /\ boxes' = Append(boxes, Slots)
  BY DEF RequestFails, bounds
<1>2. PICK k, v, b, m : k = kind /\ v = view /\ b = boxes /\ m = mValues
  OBVIOUS
<1>3. PICK r \in Nat : r = rows
  BY DEF ClientInv, WindowTypes
<1>4. OverviewRight(k, v, b, m, r)
  BY <1>2, <1>3 DEF DrawnInv
<1>5. PICK c : c = boxes'
  OBVIOUS
<1>6. k = "Overview" => \A i \in 1 .. Len(c) : c[i] = 0
  BY <1>1, <1>2, <1>5, BoxOpened
<1>7. m.filled => m.row \in RowSet
  BY <1>4 DEF OverviewRight
<1>8. OverviewRight(k, v, c, m, r)
  BY <1>3, <1>4, <1>6, <1>7, OverviewStays
<1>9. OverviewRight(kind, view, boxes, mValues, rows)'
  BY <1>1, <1>2, <1>3, <1>5, <1>8
<1>10. QED
  BY <1>1, <1>9, DrawnStays

\* A setting.
LEMMA DrawnChanged ==
  ASSUME ClientInv, DrawnInv, NEW s, NEW filters \in BOOLEAN, Changed(s, filters),
         ~filters => s.mean = set.mean /\ s.median = set.median /\ s.rate = set.rate
  PROVE  DrawnInv'
<1>1. /\ set' = s /\ (steady' => steady /\ ~filters)
      /\ UNCHANGED <<kind, view, got, all, mpGuiTimer, boxes, mValues, rows>>
  BY DEF Changed, window
<1>2. OverviewRight(kind, view, boxes, mValues, rows)'
  BY <1>1 DEF DrawnInv
<1>3. steady' => /\ steady
                 /\ set'.mean = set.mean /\ set'.median = set.median
                 /\ set'.rate = set.rate
  BY <1>1
<1>4. QED
  BY <1>1, <1>2, <1>3, DrawnStays

\* All of them.
LEMMA DrawnSet ==
  ASSUME ClientInv, DrawnInv,
         SetMaxData \/ SpinBoxIntervalMean \/ SpinBoxIntervalMedian \/ SetGuiInterval \/ ImportConfig
  PROVE  DrawnInv'
<1>1. CASE SetMaxData
  <2>1. PICK f \in BOOLEAN : f = FALSE
    OBVIOUS
  <2>2. PICK m \in MaxData : Changed([set EXCEPT !.maxData = m], f)
    BY <1>1, <2>1 DEF SetMaxData
  <2>3. PICK s : s = [set EXCEPT !.maxData = m]
    OBVIOUS
  <2>4. set \in Settings
    BY DEF ClientInv, WindowTypes
  <2>5. s.mean = set.mean /\ s.median = set.median /\ s.rate = set.rate
    BY <2>3, <2>4 DEF Settings
  <2>6. Changed(s, f)
    BY <2>2, <2>3
  <2>7. QED
    BY <2>5, <2>6, DrawnChanged
<1>2. CASE ~SetMaxData
  <2>1. PICK f \in BOOLEAN : f = TRUE
    OBVIOUS
  <2>2. PICK s : Changed(s, f)
    <3>1. CASE SpinBoxIntervalMean
      BY <2>1, <3>1 DEF SpinBoxIntervalMean
    <3>2. CASE SpinBoxIntervalMedian
      BY <2>1, <3>2 DEF SpinBoxIntervalMedian
    <3>3. CASE SetGuiInterval
      BY <2>1, <3>3 DEF SetGuiInterval
    <3>4. CASE ImportConfig
      BY <2>1, <3>4 DEF ImportConfig
    <3>5. QED
      BY <1>2, <3>1, <3>2, <3>3, <3>4
  <2>3. QED
    BY <2>1, <2>2, DrawnChanged
<1>3. QED
  BY <1>1, <1>2

\* The slots of a row.
LEMMA DrawnSlots ==
  ASSUME ClientInv, DrawnInv, Running, NEW row \in RowSet \cup {None}, NEW sig, NEW n \in Nat,
         UpdateSlots(n, row, sig), UNCHANGED <<kind, set, steady, mpGuiTimer>>,
         kind = "Overview" => n = 0
  PROVE  /\ PlotRight(kind, view, got, all, steady, NumValues(set.mean, set.rate),
                      NumValues(set.median, set.rate))'
         /\ MapsRight(kind, view, got, all, mpGuiTimer)'
         /\ kind = "Overview" => view' = view
<1>1. PICK s : s = After(n, row, sig)
  OBVIOUS
<1>2. view' = s.view /\ got' = s.got /\ all' = s.all
  BY <1>1 DEF UpdateSlots
<1>3. CASE kind = "Overview"
  <2>1. PICK f : SlotsBy(f, row, sig, n) /\ s = f[n]
    BY <1>1, AfterIs
  <2>2. s = Before
    BY <1>3, <2>1 DEF SlotsBy
  <2>3. view' = view
    BY <1>2, <2>2 DEF Before
  <2>4. kind \notin Kinds /\ kind \notin DOMAIN Maps
    BY <1>3 DEF Kinds, Maps
  <2>5. QED
    BY <2>3, <2>4 DEF PlotRight, MapsRight
<1>4. CASE kind # "Overview"
  <2>1. kind \in Kinds \cup DOMAIN Maps
    <3>1. kind \in Views
      BY DEF ClientInv, WindowTypes
    <3>2. QED
      BY <1>4, <3>1, ViewsAssumption
  <2>2. SlotsReady(row)
    BY DEF SlotsReady, ClientInv, WindowTypes, LengthsInv, Running
  <2>3. SlotRight(Before)
    BY DEF SlotRight, Before, DrawnInv
  <2>4. SlotRight(s)
    BY <1>1, <2>1, <2>2, <2>3, SlotsStayRight
  <2>5. QED
    BY <1>2, <1>4, <2>4 DEF SlotRight
<1>5. QED
  BY <1>3, <1>4

\* An answer.
LEMMA DrawnData ==
  ASSUME ClientInv, DrawnInv, NEW slow \in BOOLEAN, RequestData(slow)
  PROVE  DrawnInv'
<1>1. PICK l \in Level, ps \in IF kind = "Overview" THEN Processes ELSE {<<>>} :
        LET row == [time |-> rows + 1, level |-> l]
            data == Received(LastOf(row), ps, server.mApplications)
        IN /\ mValues' = [row |-> row, filled |-> data.values # <<>>]
           /\ IF slow
                THEN /\ boxes' = Append(boxes, Slots)
                     /\ UNCHANGED <<view, got, all>>
                ELSE /\ UpdateSlots(Slots, row, ExtractAppSignals(data.strings))
                     /\ UNCHANGED boxes
  BY DEF RequestData
<1>2. PICK row : row = [time |-> rows + 1, level |-> l]
  OBVIOUS
<1>3. PICK sig : sig = ExtractAppSignals(Received(LastOf(row), ps, server.mApplications).strings)
  OBVIOUS
<1>4. /\ mValues'.row = row
      /\ slow => boxes' = Append(boxes, Slots) /\ UNCHANGED <<view, got, all>>
      /\ ~slow => UpdateSlots(Slots, row, sig) /\ boxes' = boxes
  BY <1>1, <1>2, <1>3
<1>5. /\ Running /\ rows < MaxRows /\ rows' = rows + 1
      /\ UNCHANGED <<kind, set, shown, mpGuiTimer, steady>>
  BY DEF RequestData
<1>6. PICK r \in Nat : r = rows
  BY DEF ClientInv, WindowTypes
<1>7. row \in RowSet
  BY <1>2, <1>5, <1>6, BoundsAssumption DEF RowSet
<1>8. PICK k, v, b, m : k = kind /\ v = view /\ b = boxes /\ m = mValues
  OBVIOUS
<1>9. OverviewRight(k, v, b, m, r)
  BY <1>6, <1>8 DEF DrawnInv
<1>10. PICK c, o : c = boxes' /\ o = mValues'
  OBVIOUS
<1>11. k = "Overview" => \A i \in 1 .. Len(c) : c[i] = 0
  <2>1. SUFFICES ASSUME k = "Overview" PROVE \A i \in 1 .. Len(c) : c[i] = 0
    OBVIOUS
  <2>2. CASE slow
    BY <1>4, <1>8, <1>10, <2>1, <2>2, BoxOpened
  <2>3. CASE ~slow
    BY <1>4, <1>8, <1>9, <1>10, <2>1, <2>3 DEF OverviewRight
  <2>4. QED
    BY <2>2, <2>3
<1>12. o.filled => o.row \in RowSet
  BY <1>4, <1>7, <1>10
<1>13. PICK t \in Nat : t = r + 1
  OBVIOUS
<1>14. OverviewRight(k, v, c, o, t)
  <2>1. r <= t
    BY <1>13
  <2>2. QED
    BY <1>9, <1>11, <1>12, <2>1, OverviewStays
<1>15. CASE slow
  <2>1. OverviewRight(kind, view, boxes, mValues, rows)'
    BY <1>4, <1>5, <1>6, <1>8, <1>10, <1>13, <1>14, <1>15
  <2>2. QED
    BY <1>4, <1>5, <1>15, <2>1, DrawnStays
<1>16. CASE ~slow
  <2>1. PICK n \in Nat : n = Slots
    BY DEF ClientInv, WindowTypes, Slots
  <2>2. kind = "Overview" => n = 0
    BY <2>1 DEF Slots
  <2>3. UpdateSlots(n, row, sig)
    BY <1>4, <1>16, <2>1
  <2>4. /\ PlotRight(kind, view, got, all, steady, NumValues(set.mean, set.rate),
                     NumValues(set.median, set.rate))'
        /\ MapsRight(kind, view, got, all, mpGuiTimer)'
        /\ kind = "Overview" => view' = view
    BY <1>5, <1>7, <2>2, <2>3, DrawnSlots
  <2>5. OverviewRight(kind, view, boxes, mValues, rows)'
    <3>1. CASE kind = "Overview"
      BY <1>4, <1>5, <1>6, <1>8, <1>10, <1>13, <1>14, <2>4, <3>1
    <3>2. CASE kind # "Overview"
      BY <1>5, <1>10, <1>12, <3>2 DEF OverviewRight
    <3>3. QED
      BY <3>1, <3>2
  <2>6. QED
    BY <2>4, <2>5 DEF DrawnInv
<1>17. QED
  BY <1>15, <1>16

\* A box that is closed.
LEMMA DrawnClose == ASSUME ClientInv, DrawnInv, CloseBox PROVE DrawnInv'
<1>1. /\ Running /\ boxes # <<>> /\ boxes' = Front(boxes)
      /\ UpdateSlots(Last(boxes), mValues.row, ExtractAppSignals(strings))
      /\ UNCHANGED <<kind, set, mpGuiTimer, mValues, rows, steady>>
  BY DEF CloseBox, bounds
<1>2. PICK b \in Seq(Nat) : b = boxes
  BY DEF ClientInv, WindowTypes
<1>3. PICK n \in Nat : n = Len(b) /\ n # 0
  <2>1. Len(b) \in Nat /\ Len(b) # 0
    BY <1>1, <1>2, EmptySeq, LenProperties
  <2>2. QED
    BY <2>1
<1>4. PICK last \in Nat : last = Last(boxes) /\ last = b[n]
  <2>1. b[n] \in Nat
    BY <1>3, ElementOfSeq
  <2>2. Last(boxes) = b[n]
    BY <1>2, <1>3 DEF Last
  <2>3. QED
    BY <2>1, <2>2
<1>5. kind = "Overview" => \A i \in 1 .. n : b[i] = 0
  BY <1>2, <1>3 DEF DrawnInv, OverviewRight
<1>6. kind = "Overview" => last = 0
  BY <1>3, <1>4, <1>5
<1>7. PICK row \in RowSet \cup {None} : row = mValues.row
  BY DEF ClientInv, WindowTypes
<1>8. PICK sig : sig = ExtractAppSignals(strings)
  OBVIOUS
<1>9. UpdateSlots(last, row, sig)
  BY <1>1, <1>4, <1>7, <1>8
<1>10. /\ PlotRight(kind, view, got, all, steady, NumValues(set.mean, set.rate),
                     NumValues(set.median, set.rate))'
       /\ MapsRight(kind, view, got, all, mpGuiTimer)'
       /\ kind = "Overview" => view' = view
  BY <1>1, <1>6, <1>9, DrawnSlots
<1>11. PICK c : c = boxes'
  OBVIOUS
<1>12. kind = "Overview" => \A i \in 1 .. Len(c) : c[i] = 0
  <2>1. SUFFICES ASSUME kind = "Overview" PROVE \A i \in 1 .. Len(c) : c[i] = 0
    OBVIOUS
  <2>2. PICK e \in Nat : e = n - 1
    BY <1>3
  <2>3. c = SubSeq(b, 1, e)
    BY <1>1, <1>2, <1>3, <1>11, <2>2 DEF Front
  <2>4. 1 \in Int /\ e \in Int /\ \A i \in 1 .. e : b[i] \in Nat
    <3>1. ASSUME NEW i \in 1 .. e PROVE b[i] \in Nat
      <4>1. i \in 1 .. n
        BY <2>2
      <4>2. QED
        BY <1>3, <4>1, ElementOfSeq
    <3>2. QED
      BY <3>1
  <2>5. /\ Len(c) = IF 1 <= e THEN e - 1 + 1 ELSE 0
        /\ \A i \in 1 .. e - 1 + 1 : c[i] = b[1 + i - 1]
    BY <2>3, <2>4, SubSeqProperties
  <2>6. ASSUME NEW i \in 1 .. Len(c) PROVE c[i] = 0
    <3>1. i \in 1 .. e - 1 + 1 /\ 1 + i - 1 = i /\ i \in 1 .. n
      BY <2>2, <2>5
    <3>2. QED
      BY <1>5, <2>1, <2>5, <3>1
  <2>7. QED
    BY <2>6
<1>13. OverviewRight(kind, view, boxes, mValues, rows)'
  BY <1>1, <1>10, <1>11, <1>12 DEF OverviewRight, DrawnInv
<1>14. QED
  BY <1>10, <1>13 DEF DrawnInv

\* A redraw.
LEMMA DrawnRedraw == ASSUME ClientInv, DrawnInv, Redraw PROVE DrawnInv'
<1>1. /\ UNCHANGED <<kind, set, got, all, steady, mpGuiTimer, boxes, mValues, rows>>
      /\ view' = CASE kind \in Kinds -> RedrawApplications(view)
                   [] kind = "Overview" ->
                        [fields |-> IF mValues.filled THEN Row(mValues.row) ELSE view.fields,
                         table |-> UpdatePID(view.table, strings)]
                   [] OTHER -> view
  BY DEF Redraw, window, bounds, history
<1>2. PICK n, m : n = NumValues(set.mean, set.rate) /\ m = NumValues(set.median, set.rate)
  OBVIOUS
<1>3. n' = n /\ NumValues(set.mean, set.rate)' = n /\ NumValues(set.median, set.rate)' = m
  BY <1>1, <1>2
<1>4. PlotRight(kind, view, got, all, steady, n, m)
  BY <1>2 DEF DrawnInv
<1>5. CASE kind \in Kinds
  <2>1. PICK p, q : p = view /\ q = RedrawApplications(view)
    OBVIOUS
  <2>2. view' = q
    BY <1>1, <1>5, <2>1 DEF Kinds
  <2>3. DOMAIN p = Fields
    BY <1>5, <2>1 DEF ClientInv, LengthsInv, Lengths
  <2>4. /\ q.times = p.times /\ q.values = p.values /\ q.mean = p.mean /\ q.median = p.median
        /\ q.min = p.min /\ q.max = p.max /\ q.ex = p.ex
    BY <2>1, <2>3 DEF RedrawApplications, Fields
  <2>5. PlotRight(kind, p, got, all, steady, n, m)
    BY <1>4, <2>1
  <2>6. RowsHeld(kind, q, got)
    BY <1>5, <2>4, <2>5 DEF PlotRight, RowsHeld
  <2>7. ExtremesRight(kind, q, got, all)
    BY <1>5, <2>4, <2>5 DEF PlotRight, ExtremesRight
  <2>8. steady => FilteredRight(kind, q, n, m)
    BY <1>5, <2>4, <2>5 DEF PlotRight, FilteredRight
  <2>9. PlotRight(kind, q, got, all, steady, n, m)
    BY <2>6, <2>7, <2>8 DEF PlotRight
  <2>10. PlotRight(kind, view, got, all, steady, NumValues(set.mean, set.rate),
                   NumValues(set.median, set.rate))'
    BY <1>1, <1>3, <2>2, <2>9
  <2>11. MapsRight(kind, view, got, all, mpGuiTimer)'
    BY <1>1, <1>5 DEF MapsRight, Maps, Kinds
  <2>12. OverviewRight(kind, view, boxes, mValues, rows)'
    BY <1>1, <1>5 DEF OverviewRight, DrawnInv, Kinds
  <2>13. QED
    BY <2>10, <2>11, <2>12 DEF DrawnInv
<1>6. CASE kind = "Overview"
  <2>1. view'.fields = IF mValues.filled THEN Row(mValues.row) ELSE view.fields
    BY <1>1, <1>6 DEF Kinds
  <2>2. PICK f : f = view'.fields
    OBVIOUS
  <2>3. f = <<>> \/ \E x \in RowSet : x.time <= rows /\ f = Row(x)
    <3>1. CASE ~mValues.filled
      BY <1>6, <2>1, <2>2, <3>1 DEF DrawnInv, OverviewRight
    <3>2. CASE mValues.filled
      <4>1. PICK row \in RowSet : row = mValues.row
        BY <3>2 DEF DrawnInv, OverviewRight
      <4>2. row # None
        <5>1. row.time # 0 /\ None.time = 0
          BY BoundsAssumption DEF RowSet, None
        <5>2. QED
          BY <5>1
      <4>3. row.time = rows /\ rows \in Nat
        BY <4>1, <4>2 DEF ClientInv, HistoryInv, WindowTypes
      <4>4. f = Row(row) /\ row.time <= rows
        BY <2>1, <2>2, <3>2, <4>1, <4>3
      <4>5. QED
        BY <4>4
    <3>3. QED
      BY <3>1, <3>2
  <2>4. OverviewRight(kind, view, boxes, mValues, rows)'
    BY <1>1, <2>2, <2>3 DEF OverviewRight, DrawnInv
  <2>5. kind \notin Kinds /\ kind \notin DOMAIN Maps
    BY <1>6 DEF Kinds, Maps
  <2>6. QED
    BY <1>1, <2>4, <2>5 DEF DrawnInv, PlotRight, MapsRight
<1>7. CASE kind \notin Kinds /\ kind # "Overview"
  <2>1. view' = view
    BY <1>1, <1>7
  <2>2. OverviewRight(kind, view, boxes, mValues, rows)'
    BY <1>1, <2>1 DEF DrawnInv
  <2>3. QED
    BY <1>1, <2>1, <2>2, DrawnStays
<1>8. QED
  BY <1>5, <1>6, <1>7

\* A start.
LEMMA DrawnStart == ASSUME ClientInv, DrawnInv, Start PROVE DrawnInv'
<1>1. UNCHANGED <<kind, set, boxes, rows, all>>
  BY DEF Start
<1>2. CASE ~server.up
  <2>1. UNCHANGED <<view, got, mpGuiTimer, steady, mValues>>
    BY <1>2 DEF Start
  <2>2. OverviewRight(kind, view, boxes, mValues, rows)'
    BY <1>1, <2>1 DEF DrawnInv
  <2>3. QED
    BY <1>1, <2>1, <2>2, DrawnStays
<1>3. CASE server.up
  <2>1. /\ mpGuiTimer' = TRUE /\ mValues' = [mValues EXCEPT !.filled = FALSE]
        /\ view' = ClearedView /\ got' = <<>>
    BY <1>3 DEF Start
  <2>2. mValues \in [row : RowSet \cup {None}, filled : BOOLEAN]
    BY DEF ClientInv, WindowTypes
  <2>3. mValues'.filled = FALSE
    BY <2>1, <2>2
  <2>4. CASE kind \in Kinds
    <3>1. PICK k, p, q, a : k = kind /\ p = view /\ q = ClearAllData(k, p) /\ a = all
      OBVIOUS
    <3>2. k # "UtilMaps" /\ k # "Overview" /\ k \notin DOMAIN Maps
      BY <2>4, <3>1 DEF Kinds, Maps
    <3>3. view' = q
      BY <2>1, <2>4, <3>1, <3>2 DEF ClearedView
    <3>4. /\ q.times = <<>> /\ q.min = NoVectors(k) /\ q.max = NoVectors(k)
          /\ q.mean = NoVectors(k) /\ q.median = NoVectors(k) /\ q.ex = p.ex
      BY <3>1 DEF ClearAllData, NewPlot
    <3>5. ExtremesRight(k, p, got, a)
      BY <2>4, <3>1 DEF DrawnInv, PlotRight
    <3>6. /\ DOMAIN q.ex = 1 .. Boxes(k)
          /\ \A i \in 1 .. Boxes(k) :
               IsExtreme(q.ex[i], Samples1(Plot[k].pushed[Plot[k].extremes.of[i]], a), Len(a))
      BY <3>4, <3>5 DEF ExtremesRight
    <3>7. PICK n, m, f : f = steady' /\ n = NumValues(set.mean, set.rate)'
                         /\ m = NumValues(set.median, set.rate)'
      OBVIOUS
    <3>8. PlotRight(k, q, <<>>, a, f, n, m)
      BY <2>4, <3>1, <3>4, <3>6, EmptyPlotRight
    <3>9. PlotRight(kind, view, got, all, steady, NumValues(set.mean, set.rate),
                    NumValues(set.median, set.rate))'
      BY <1>1, <2>1, <3>1, <3>3, <3>7, <3>8
    <3>10. MapsRight(kind, view, got, all, mpGuiTimer)'
      BY <1>1, <3>1, <3>2 DEF MapsRight
    <3>11. OverviewRight(kind, view, boxes, mValues, rows)'
      BY <1>1, <2>3, <3>1, <3>2 DEF OverviewRight
    <3>12. QED
      BY <3>9, <3>10, <3>11 DEF DrawnInv
  <2>5. CASE kind = "UtilMaps"
    <3>1. kind \notin Kinds /\ kind # "Overview"
      BY <2>5 DEF Kinds
    <3>2. view' = ClearMaps(view)
      BY <2>1, <2>5, <3>1 DEF ClearedView
    <3>3. PICK h : h = view
      OBVIOUS
    <3>4. kind \in DOMAIN Maps
      BY <2>5 DEF Maps
    <3>5. DOMAIN h = DOMAIN Maps[kind]
      BY <3>3, <3>4 DEF DrawnInv, MapsRight
    <3>6. PICK e : e = <<>>
      OBVIOUS
    <3>7. Len(e) = 0 /\ \A b : Samples1(b, e) = e
      BY <3>6, NothingYet
    <3>8. view' = [m \in DOMAIN Maps[kind] |-> [y |-> e, columns |-> 0]]
      BY <3>2, <3>3, <3>5, <3>6 DEF ClearMaps
    <3>9. /\ DOMAIN view' = DOMAIN Maps[kind]
          /\ \A m \in DOMAIN Maps[kind] : view'[m].y = e /\ view'[m].columns = 0
      BY <3>8
    <3>10. MapsRight(kind, view, got, all, mpGuiTimer)'
      BY <1>1, <2>1, <2>5, <3>6, <3>7, <3>9 DEF MapsRight
    <3>11. OverviewRight(kind, view, boxes, mValues, rows)'
      BY <1>1, <2>3, <3>1 DEF OverviewRight
    <3>12. QED
      BY <1>1, <3>1, <3>10, <3>11 DEF DrawnInv, PlotRight
  <2>6. CASE kind \notin Kinds /\ kind # "UtilMaps"
    <3>1. view' = view
      BY <2>1, <2>6 DEF ClearedView
    <3>2. MapsRight(kind, view, got, all, mpGuiTimer)'
      <4>1. MapsRight(kind, view, got, all, mpGuiTimer)
        BY DEF DrawnInv
      <4>2. QED
        BY <1>1, <2>6, <3>1, <4>1 DEF MapsRight
    <3>3. OverviewRight(kind, view, boxes, mValues, rows)'
      BY <1>1, <2>3, <3>1 DEF OverviewRight, DrawnInv
    <3>4. QED
      BY <1>1, <2>6, <3>2, <3>3 DEF DrawnInv, PlotRight
  <2>7. QED
    BY <2>4, <2>5, <2>6
<1>4. QED
  BY <1>2, <1>3

\* What a view shows stays right.
THEOREM ClientDraws == CSpec => []DrawnInv
<1>1. CInit => DrawnInv
  BY DrawnInit
<1>2. ClientInv /\ DrawnInv /\ [CNext]_cvars => DrawnInv'
  <2>1. SUFFICES ASSUME ClientInv, DrawnInv, [CNext]_cvars PROVE DrawnInv'
    OBVIOUS
  <2>2. CASE Start
    BY <2>1, <2>2, DrawnStart
  <2>3. CASE \E slow \in BOOLEAN : RequestData(slow)
    BY <2>1, <2>3, DrawnData
  <2>4. CASE RequestFails
    BY <2>1, <2>4, DrawnFails
  <2>5. CASE CloseBox
    BY <2>1, <2>5, DrawnClose
  <2>6. CASE Redraw
    BY <2>1, <2>6, DrawnRedraw
  <2>7. CASE \/ SetMaxData \/ SpinBoxIntervalMean \/ SpinBoxIntervalMedian \/ SetGuiInterval
             \/ ImportConfig
    BY <2>1, <2>7, DrawnSet
  <2>8. CASE Stop \/ Show \/ Signal \/ ServerStops \/ ServerStarts
    BY <2>1, <2>8, DrawnIdle
  <2>9. CASE UNCHANGED cvars
    <3>1. UNCHANGED <<kind, view, got, all, mpGuiTimer, steady, set, boxes, mValues, rows>>
      BY <2>9 DEF cvars, window, bounds, history
    <3>2. OverviewRight(kind, view, boxes, mValues, rows)'
      BY <2>1, <3>1 DEF DrawnInv
    <3>3. QED
      BY <2>1, <3>1, <3>2, DrawnStays
  <2>10. QED
    BY <2>1, <2>2, <2>3, <2>4, <2>5, <2>6, <2>7, <2>8, <2>9 DEF CNext
<1>3. QED
  BY <1>1, <1>2, ClientInvariant, PTL DEF CSpec

-----------------------------------------------------------------------------
(* The extremes a reader sees.                                             *)

\* The largest and the smallest of some numbers.
LEMMA MaxIs ==
  ASSUME NEW S \in SUBSET Int, NEW x \in S, \A y \in S : y <= x PROVE Max(S) = x
<1>1. PICK m : m = Max(S)
  OBVIOUS
<1>2. \E z \in S : \A y \in S : z >= y
  <2>1. \A y \in S : x >= y
    OBVIOUS
  <2>2. QED
    BY <2>1
<1>3. m \in S /\ \A y \in S : m >= y
  BY <1>1, <1>2 DEF Max
<1>4. m >= x /\ x >= m /\ m \in Int /\ x \in Int
  BY <1>3
<1>5. QED
  BY <1>1, <1>4

\* And the smallest.
LEMMA MinIs ==
  ASSUME NEW S \in SUBSET Int, NEW x \in S, \A y \in S : x <= y PROVE Min(S) = x
<1>1. PICK m : m = Min(S)
  OBVIOUS
<1>2. \E z \in S : \A y \in S : z <= y
  OBVIOUS
<1>3. m \in S /\ \A y \in S : m <= y
  BY <1>1, <1>2 DEF Min
<1>4. m <= x /\ x <= m /\ m \in Int /\ x \in Int
  BY <1>3
<1>5. QED
  BY <1>1, <1>4

\* A finite set of numbers has a largest and a smallest one.
LEMMA FiniteMax ==
  ASSUME NEW S \in SUBSET Nat, IsFiniteSet(S), S # {}
  PROVE  \E x \in S : \A y \in S : y <= x
<1> DEFINE Bounded(T) == \E x \in T : \A y \in T : y <= x
           U == {n \in Nat : \E T \in SUBSET Nat : /\ IsFiniteSet(T) /\ Cardinality(T) = n
                                                  /\ T # {} /\ ~Bounded(T)}
<1>1. U = {}
  <2>1. SUFFICES ASSUME U # {} PROVE FALSE
    OBVIOUS
  <2>2. PICK n \in U : \A k \in U : n <= k
    <3>1. U \in SUBSET Nat
      OBVIOUS
    <3>2. QED
      BY <2>1, <3>1, Least
  <2>3. PICK T \in SUBSET Nat : /\ IsFiniteSet(T) /\ Cardinality(T) = n
                                /\ T # {} /\ ~Bounded(T)
    OBVIOUS
  <2>4. PICK x \in T : x \in Nat
    BY <2>3
  <2>5. PICK R : R = T \ {x}
    OBVIOUS
  <2>6. R \in SUBSET Nat /\ IsFiniteSet(R) /\ Cardinality(R) = n - 1 /\ n \in Nat
    BY <2>3, <2>5, FS_RemoveElement
  <2>7. R # {}
    <3>1. SUFFICES ASSUME R = {} PROVE FALSE
      OBVIOUS
    <3>2. \A y \in T : y = x
      BY <2>5, <3>1
    <3>3. Bounded(T)
      BY <2>4, <3>2
    <3>4. QED
      BY <2>3, <3>3
  <2>8. Bounded(R)
    <3>1. n - 1 \in Nat
      BY <2>6, FS_CardinalityType
    <3>2. n - 1 \notin U
      BY <2>2, <2>6, <3>1
    <3>3. QED
      BY <2>6, <2>7, <3>1, <3>2
  <2>9. PICK z \in R : \A y \in R : y <= z
    BY <2>8
  <2>10. z \in Nat /\ z \in T
    BY <2>5, <2>6, <2>9
  <2>11. CASE x <= z
    <3>1. \A y \in T : y <= z
      BY <2>5, <2>9, <2>11
    <3>2. QED
      BY <2>3, <2>10, <3>1
  <2>12. CASE ~(x <= z)
    <3>1. ASSUME NEW y \in T PROVE y <= x
      <4>1. CASE y = x
        BY <2>4, <4>1
      <4>2. CASE y # x
        <5>1. y \in R /\ y \in Nat
          BY <2>5, <4>2
        <5>2. y <= z
          BY <2>9, <5>1
        <5>3. QED
          BY <2>4, <2>10, <2>12, <5>1, <5>2
      <4>3. QED
        BY <4>1, <4>2
    <3>2. QED
      BY <2>3, <2>4, <3>1
  <2>13. QED
    BY <2>11, <2>12
<1>2. Cardinality(S) \in Nat
  BY FS_CardinalityType
<1>3. QED
  BY <1>1, <1>2

\* The limits of the spin box.
LEMMA LimitsAre ==
  /\ Max(MaxData) \in Nat /\ \A m \in MaxData : m <= Max(MaxData)
  /\ Min(MaxData) \in Nat /\ \A m \in MaxData : Min(MaxData) <= m
<1>1. PICK S : S = MaxData
  OBVIOUS
<1>2. S \in SUBSET Nat /\ S # {} /\ IsFiniteSet(S)
  BY <1>1, BoundsAssumption, FiniteAssumption
<1>3. PICK x \in S : \A y \in S : y <= x
  BY <1>2, FiniteMax
<1>4. PICK z \in S : \A y \in S : z <= y
  BY <1>2, Least
<1>5. S \in SUBSET Int
  BY <1>2
<1>6. Max(S) = x /\ Min(S) = z
  BY <1>3, <1>4, <1>5, MaxIs, MinIs
<1>7. QED
  BY <1>1, <1>2, <1>3, <1>4, <1>6

\* What a box shows of the extremes of n values.
ValuesOf(w, n) == {w[k] : k \in 1 .. n}
LatersOf(w, n) == {w[k] : k \in {k \in 1 .. n : Later(w, k)}}

\* V are all the values, L those that were not larger than all before them.
ExtremeShown(x, V, L) ==
  /\ x.max = IF V = {} THEN Highest ELSE Max(V)
  /\ x.min = IF L = {} THEN Lowest ELSE Min(L)
  /\ (IF x.max # Highest THEN {x.max} ELSE {}) = V \cap {x.max}
  /\ (IF x.min # Lowest THEN {x.min} ELSE {}) = L \cap {x.min}

\* The maximum is the largest of them, the minimum the smallest of L.
LEMMA ExtremeShows ==
  ASSUME NEW x, NEW w, NEW n \in Nat, IsExtreme(x, w, n),
         \A k \in 1 .. n : w[k] \in Int /\ Highest < w[k] /\ w[k] < Lowest
  PROVE  ExtremeShown(x, ValuesOf(w, n), LatersOf(w, n))
<1>1. PICK V : V = ValuesOf(w, n)
  OBVIOUS
<1>2. PICK L : L = LatersOf(w, n)
  OBVIOUS
<1>3. PICK max, min : max = x.max /\ min = x.min
  OBVIOUS
<1>4. /\ V \in SUBSET Int /\ \A v \in V : Highest < v /\ v < Lowest
      /\ L \in SUBSET V
  BY <1>1, <1>2 DEF ValuesOf, LatersOf
<1>5. /\ V = {} => max = Highest
      /\ V # {} => max \in V
      /\ \A v \in V : v <= max
  <2>1. CASE n = 0
    BY <1>1, <1>3, <2>1 DEF IsExtreme, ValuesOf
  <2>2. CASE n # 0
    <3>1. PICK k \in 1 .. n : max = w[k]
      BY <1>3, <2>2 DEF IsExtreme
    <3>2. max \in V
      BY <1>1, <3>1 DEF ValuesOf
    <3>3. \A v \in V : v <= max
      BY <1>1, <1>3 DEF IsExtreme, ValuesOf
    <3>4. QED
      BY <3>2, <3>3
  <2>3. QED
    BY <2>1, <2>2
<1>6. /\ L = {} => min = Lowest
      /\ L # {} => min \in L
      /\ \A v \in L : min <= v
  <2>1. CASE \E k \in 1 .. n : Later(w, k)
    <3>1. PICK k \in 1 .. n : Later(w, k) /\ min = w[k]
      BY <1>3, <2>1 DEF IsExtreme
    <3>2. min \in L
      BY <1>2, <3>1 DEF LatersOf
    <3>3. \A v \in L : min <= v
      BY <1>2, <1>3 DEF IsExtreme, LatersOf
    <3>4. QED
      BY <3>2, <3>3
  <2>2. CASE ~\E k \in 1 .. n : Later(w, k)
    <3>1. L = {}
      BY <1>2, <2>2 DEF LatersOf
    <3>2. min = Lowest
      BY <1>3, <2>2 DEF IsExtreme
    <3>3. QED
      BY <3>1, <3>2
  <2>3. QED
    BY <2>1, <2>2
<1>7. max = IF V = {} THEN Highest ELSE Max(V)
  BY <1>4, <1>5, MaxIs
<1>8. min = IF L = {} THEN Lowest ELSE Min(L)
  <2>1. L \in SUBSET Int
    BY <1>4
  <2>2. QED
    BY <1>6, <2>1, MinIs
<1>9. (IF max # Highest THEN {max} ELSE {}) = V \cap {max}
  <2>1. CASE V = {}
    BY <1>5, <2>1
  <2>2. CASE V # {}
    <3>1. max \in V /\ max # Highest
      BY <1>4, <1>5, <2>2, ExtremesAssumption
    <3>2. QED
      BY <3>1
  <2>3. QED
    BY <2>1, <2>2
<1>10. (IF min # Lowest THEN {min} ELSE {}) = L \cap {min}
  <2>1. CASE L = {}
    BY <1>6, <2>1
  <2>2. CASE L # {}
    <3>1. min \in L /\ min # Lowest
      BY <1>4, <1>6, <2>2, ExtremesAssumption
    <3>2. QED
      BY <3>1
  <2>3. QED
    BY <2>1, <2>2
<1>11. QED
  BY <1>1, <1>2, <1>3, <1>7, <1>8, <1>9, <1>10 DEF ExtremeShown

\* A line has its value at all places.
LEMMA LineLength ==
  ASSUME NEW n \in Nat, NEW v PROVE Len(Line(n, v)) = n /\ DOMAIN Line(n, v) = 1 .. n
<1>1. PICK s : s = Line(n, v)
  OBVIOUS
<1>2. s \in [1 .. n -> {v}] /\ DOMAIN s = 1 .. n
  BY <1>1 DEF Line
<1>3. s \in Seq({v})
  BY <1>2, SeqDef
<1>4. Len(s) = n
  BY <1>2, <1>3, LenProperties
<1>5. QED
  BY <1>1, <1>2, <1>4

\* As long as no row was erased, all lines have a time for each row.
LEMMA LinesTimed ==
  ASSUME NEW k, NEW p, NEW g \in Seq(RowSet), RowsHeld(k, p, g), Len(p.times) = Len(g),
         NEW line, NEW v, line = Line(Len(g), v), NEW j \in DOMAIN g
  PROVE  Samples(p, line, Len(line))[j][1] = g[j].time
<1>1. PICK n \in Nat : n = Len(g) /\ DOMAIN g = 1 .. n
  BY LenProperties
<1>2. Len(line) = n
  BY <1>1, LineLength
<1>3. PICK i \in 1 .. n : i = j
  BY <1>1
<1>4. Samples(p, line, n) = [e \in 1 .. n |-> <<At(p.times, e), At(line, e)>>]
  BY DEF Samples
<1>5. Samples(p, line, n)[i] = <<At(p.times, i), At(line, i)>>
  BY <1>4
<1>6. At(p.times, i) = p.times[i]
  BY <1>1, <1>3 DEF At
<1>7. p.times[i] = g[n - n + i].time
  BY <1>1 DEF RowsHeld
<1>8. n - n + i = i
  OBVIOUS
<1>9. QED
  BY <1>2, <1>3, <1>5, <1>6, <1>7, <1>8

\* What ExtremesHold says of a box.
BoxHolds(k, p, g, a, i, b, c, x) ==
  LET Values == {Sample(b, a[j]) : j \in DOMAIN a}
      Laters == {Sample(b, a[j]) : j \in
                  {j \in DOMAIN a : \E l \in 1 .. j - 1 : Sample(b, a[l]) >= Sample(b, a[j])}}
  IN /\ x.max = IF a = <<>> THEN Highest ELSE Max(Values)
     /\ x.min = IF Laters = {} THEN Lowest ELSE Min(Laters)
     /\ RedrawMinMax(p)[i] = [max |-> Values \cap {x.max}, min |-> Laters \cap {x.min}]
     /\ ~(k = "Temperature" /\ i \in {4, 5}) =>
          /\ p.max[c] = [j \in DOMAIN g |-> x.max]
          /\ p.min[c] = [j \in DOMAIN g |-> x.min]
          /\ Len(p.times) = Len(g) =>
               \A j \in DOMAIN g : /\ MaxCurve(p, c)[j][1] = g[j].time
                                  /\ MinCurve(p, c)[j][1] = g[j].time

\* It is so of every box of the view.
LEMMA BoxesHold ==
  ASSUME ClientInv, DrawnInv, kind \in Kinds, NEW i \in DOMAIN Meant[kind]
  PROVE  BoxHolds(kind, view, got, all, i, Meant[kind][i][2], Plot[kind].shown[i], view.ex[i])
<1>1. PICK k \in Kinds : k = kind
  OBVIOUS
<1>2. PICK p : p = view
  OBVIOUS
<1>3. k = kind /\ p = view
  BY <1>1, <1>2
<1>4. WellMeant(k)
  BY PlotsWellMeant
<1>5. i \in 1 .. Boxes(k)
  BY <1>3, <1>4 DEF WellMeant
<1>6. BoxMeant(Plot[k], CsvHeader(k), Meant[k], i)
  BY <1>4, <1>5 DEF WellMeant
<1>7. PICK c : c = Plot[k].shown[i] /\ c = Plot[k].extremes.of[i]
  BY <1>6 DEF BoxMeant
<1>8. PICK b \in Names \ {"X"} : b = Meant[k][i][2] /\ b = Plot[k].pushed[c]
  <2>1. Meant[k][i][2] = Plot[k].pushed[c] /\ c \in CurvesOf(k)
    BY <1>4, <1>6, <1>7 DEF BoxMeant, WellMeant
  <2>2. Plot[k].pushed[c] \in Names \ {"X"}
    BY <1>4, <2>1 DEF WellMeant
  <2>3. QED
    BY <2>1, <2>2
<1>9. PICK a \in Seq(RowSet), g \in Seq(RowSet) : a = all /\ g = got
  BY DEF ClientInv, WindowTypes
<1>10. PICK n \in Nat : n = Len(a) /\ DOMAIN a = 1 .. n
  BY LenProperties
<1>11. RowsHeld(k, p, g) /\ ExtremesRight(k, p, g, a)
  BY <1>3, <1>9 DEF DrawnInv, PlotRight
<1>12. PICK x : x = p.ex[i]
  OBVIOUS
<1>13. PICK w : w = Samples1(b, a)
  OBVIOUS
<1>14. IsExtreme(x, w, n)
  BY <1>5, <1>7, <1>8, <1>10, <1>11, <1>12, <1>13 DEF ExtremesRight
<1>15. \A j \in 1 .. n : w[j] = Sample(b, a[j])
  BY <1>10, <1>13 DEF Samples1
<1>16. ASSUME NEW j \in 1 .. n PROVE w[j] \in Int /\ Highest < w[j] /\ w[j] < Lowest
  <2>1. a[j] \in RowSet
    BY <1>10, ElementOfSeq
  <2>2. QED
    BY <1>15, <2>1, SampleIs
<1>17. PICK V : V = {Sample(b, a[j]) : j \in DOMAIN a}
  OBVIOUS
<1>18. PICK L : L = {Sample(b, a[j]) : j \in
                       {j \in DOMAIN a : \E l \in 1 .. j - 1 : Sample(b, a[l]) >= Sample(b, a[j])}}
  OBVIOUS
<1>19. V = ValuesOf(w, n)
  BY <1>10, <1>15, <1>17 DEF ValuesOf
<1>20. L = LatersOf(w, n)
  <2>1. ASSUME NEW j \in 1 .. n
        PROVE  (\E l \in 1 .. j - 1 : Sample(b, a[l]) >= Sample(b, a[j])) <=> Later(w, j)
    <3>1. \A l \in 1 .. j - 1 : l \in 1 .. n
      OBVIOUS
    <3>2. QED
      BY <1>15, <3>1 DEF Later
  <2>2. {j \in DOMAIN a : \E l \in 1 .. j - 1 : Sample(b, a[l]) >= Sample(b, a[j])}
          = {j \in 1 .. n : Later(w, j)}
    BY <1>10, <2>1
  <2>3. QED
    BY <1>15, <1>18, <2>2 DEF LatersOf
<1>21. ExtremeShown(x, V, L)
  BY <1>14, <1>16, <1>19, <1>20, ExtremeShows
<1>22. a = <<>> <=> V = {}
  <2>1. a = <<>> <=> n = 0
    <3>1. PICK e \in Seq(RowSet) : e = <<>> /\ Len(e) = 0
      BY EmptySeq
    <3>2. CASE n = 0
      <4>1. Len(a) = Len(e) /\ \A j \in 1 .. Len(a) : a[j] = e[j]
        BY <1>10, <3>1, <3>2
      <4>2. a = e
        BY <4>1, SeqEqual
      <4>3. QED
        BY <3>1, <3>2, <4>2
    <3>3. CASE n # 0
      BY <1>10, <3>1, <3>3
    <3>4. QED
      BY <3>2, <3>3
  <2>2. V = {} <=> n = 0
    BY <1>10, <1>17
  <2>3. QED
    BY <2>1, <2>2
<1>23. x.max = IF a = <<>> THEN Highest ELSE Max(V)
  BY <1>21, <1>22 DEF ExtremeShown
<1>24. x.min = IF L = {} THEN Lowest ELSE Min(L)
  BY <1>21 DEF ExtremeShown
<1>25. RedrawMinMax(p)[i] = [max |-> V \cap {x.max}, min |-> L \cap {x.min}]
  <2>1. i \in DOMAIN p.ex
    BY <1>5, <1>11 DEF ExtremesRight
  <2>2. RedrawMinMax(p)[i] = [min |-> IF x.min # Lowest THEN {x.min} ELSE {},
                              max |-> IF x.max # Highest THEN {x.max} ELSE {}]
    BY <1>12, <2>1 DEF RedrawMinMax
  <2>3. PICK A, B : A = V \cap {x.max} /\ B = L \cap {x.min}
    OBVIOUS
  <2>4. RedrawMinMax(p)[i] = [min |-> B, max |-> A]
    BY <1>21, <2>2, <2>3 DEF ExtremeShown
  <2>5. [min |-> B, max |-> A] = [max |-> A, min |-> B]
    OBVIOUS
  <2>6. QED
    BY <2>3, <2>4, <2>5
<1>26. ASSUME ~(k = "Temperature" /\ i \in {4, 5})
       PROVE  /\ p.max[c] = [j \in DOMAIN g |-> x.max]
              /\ p.min[c] = [j \in DOMAIN g |-> x.min]
              /\ Len(p.times) = Len(g) =>
                   \A j \in DOMAIN g : /\ MaxCurve(p, c)[j][1] = g[j].time
                                       /\ MinCurve(p, c)[j][1] = g[j].time
  <2>1. Own(Plot[k], i)
    BY <1>4, <1>5, <1>26 DEF WellMeant
  <2>2. PICK max, min : max = x.max /\ min = x.min
    OBVIOUS
  <2>3. PICK s, t : s = p.max[c] /\ t = p.min[c]
    OBVIOUS
  <2>4. s = Line(Len(g), max) /\ t = Line(Len(g), min)
    BY <1>5, <1>7, <1>11, <1>12, <2>1, <2>2, <2>3 DEF ExtremesRight
  <2>5. DOMAIN g = 1 .. Len(g)
    BY LenProperties
  <2>6. s = [j \in DOMAIN g |-> max] /\ t = [j \in DOMAIN g |-> min]
    BY <2>4, <2>5 DEF Line
  <2>7. ASSUME Len(p.times) = Len(g), NEW j \in DOMAIN g
        PROVE  MaxCurve(p, c)[j][1] = g[j].time /\ MinCurve(p, c)[j][1] = g[j].time
    <3>1. Samples(p, s, Len(s))[j][1] = g[j].time
      BY <1>11, <2>4, <2>7, LinesTimed
    <3>2. Samples(p, t, Len(t))[j][1] = g[j].time
      BY <1>11, <2>4, <2>7, LinesTimed
    <3>3. QED
      BY <2>3, <3>1, <3>2 DEF MaxCurve, MinCurve
  <2>8. QED
    BY <2>2, <2>3, <2>6, <2>7
<1>27. BoxHolds(k, p, g, a, i, b, c, x)
  BY <1>17, <1>18, <1>23, <1>24, <1>25, <1>26 DEF BoxHolds
<1>28. QED
  BY <1>3, <1>7, <1>8, <1>9, <1>12, <1>27

\* For all settings and values, the maximum of a box is the largest value the
\* plot ever got, its minimum the smallest of those that were not larger than
\* all before them, and their lines are as long as the rows since the start
\* (updateValues and redraw of the plots, QMSMplot::redrawMinMax).
THEOREM ExtremesOfAllRows == CSpec => []ExtremesHold
<1>1. ClientInv /\ DrawnInv => ExtremesHold
  <2>1. SUFFICES ASSUME ClientInv, DrawnInv PROVE ExtremesHold
    OBVIOUS
  <2>2. QED
    BY <2>1, BoxesHold DEF ExtremesHold, BoxHolds, NumRows
<1>2. QED
  BY <1>1, ClientInvariant, ClientDraws, PTL

-----------------------------------------------------------------------------
(* The rows a reader sees.                                                 *)

\* Each plot has a curve of the first processor, and draws all it has.
LEMMA FirstCurve == ASSUME NEW k \in Kinds PROVE "Cpu0" \in CurvesOf(k)
<1>1. Plot[k].drawn = CurvesOf(k)
  BY PlotsWellMeant DEF WellMeant
<1>2. \/ Plot[k].drawn = PowerDrawn \/ Plot[k].drawn = TemperatureDrawn
      \/ Plot[k].drawn = ClockDrawn \/ Plot[k].drawn = UtilDrawn
      \/ Plot[k].drawn = MemoryDrawn
  BY DEF Kinds, Plot, PlotOf
<1>3. QED
  BY <1>1, <1>2 DEF PowerDrawn, TemperatureDrawn, ClockDrawn, UtilDrawn, MemoryDrawn

\* The samples of a vector have the times of the first rows a plot holds.
SampledRight(g, T, vec, F, s) ==
  /\ Len(s) = F /\ DOMAIN s = 1 .. F /\ s = [j \in 1 .. F |-> s[j]]
  /\ \A j \in 1 .. F : s[j] = <<g[Len(g) - T + j].time, vec[j]>>

\* They are, whatever the vector.
LEMMA SamplesAre ==
  ASSUME NEW k, NEW p, NEW g, RowsHeld(k, p, g), NEW T \in Nat, T = Len(p.times),
         NEW vec, NEW F \in Nat, F = Len(vec), F <= T, NEW s, s = Samples(p, vec, F)
  PROVE  SampledRight(g, T, vec, F, s)
<1>1. s = [j \in 1 .. F |-> <<At(p.times, j), At(vec, j)>>]
  BY DEF Samples
<1>2. ASSUME NEW j \in 1 .. F PROVE s[j] = <<g[Len(g) - T + j].time, vec[j]>>
  <2>1. j \in 1 .. T /\ j <= Len(p.times) /\ j <= Len(vec)
    OBVIOUS
  <2>2. At(p.times, j) = p.times[j] /\ At(vec, j) = vec[j]
    BY <2>1 DEF At
  <2>3. p.times[j] = g[Len(g) - T + j].time
    BY <2>1 DEF RowsHeld
  <2>4. s[j] = <<At(p.times, j), At(vec, j)>>
    BY <1>1
  <2>5. QED
    BY <2>2, <2>3, <2>4
<1>3. s = [j \in 1 .. F |-> s[j]]
  BY <1>1
<1>4. Len(s) = F /\ DOMAIN s = 1 .. F
  <2>1. PICK E : E = {s[j] : j \in 1 .. F}
    OBVIOUS
  <2>2. \A j \in 1 .. F : s[j] \in E
    BY <2>1
  <2>3. QED
    BY <1>3, <2>2, Written
<1>5. QED
  BY <1>2, <1>3, <1>4 DEF SampledRight

\* The values of a row and those behind it.
Behind(g, T, b, n, j) == [l \in 1 .. n |-> Sample(b, g[Len(g) - T + (j + l)])]

\* The part of a vector of values that they are.
PartRight(s, g, T, b, n, j) ==
  /\ SubSeq(s, j + 1, j + n) = Behind(g, T, b, n, j)
  /\ Len(Behind(g, T, b, n, j)) = n

\* A part of the values of a curve.
LEMMA PartIs ==
  ASSUME NEW k, NEW p, NEW g, RowsHeld(k, p, g), NEW T \in Nat, T = Len(p.times),
         Len(g) \in Nat, NEW c \in CurvesOf(k), NEW s, s = p.values[c], IsSeq(s), Len(s) = T,
         NEW b, b = Plot[k].pushed[c],
         NEW n \in Nat, NEW j \in Nat, j + n <= T
  PROVE  PartRight(s, g, T, b, n, j)
<1>1. PICK t : t = Behind(g, T, b, n, j)
  OBVIOUS
<1>2. t = [l \in 1 .. n |-> t[l]]
  BY <1>1 DEF Behind
<1>3. IsSeq(t) /\ Len(t) = n
  <2>1. PICK E : E = {t[l] : l \in 1 .. n}
    OBVIOUS
  <2>2. \A l \in 1 .. n : t[l] \in E
    BY <2>1
  <2>3. t \in Seq(E) /\ Len(t) = n
    BY <1>2, <2>2, Written
  <2>4. QED
    BY <2>3, SeqIs
<1>4. ASSUME NEW l \in 1 .. n PROVE s[j + l] = t[0 + l]
  <2>1. PICK i \in 1 .. T : i = j + l
    OBVIOUS
  <2>2. s[i] = Sample(b, g[Len(g) - T + i])
    BY <2>1 DEF RowsHeld
  <2>3. t[l] = Sample(b, g[Len(g) - T + (j + l)])
    BY <1>1 DEF Behind
  <2>4. 0 + l = l
    OBVIOUS
  <2>5. QED
    BY <2>1, <2>2, <2>3, <2>4
<1>5. SameParts(s, j, t, 0, n)
  BY <1>3, <1>4 DEF SameParts
<1>6. PartsAlike(s, t, n)
  BY <1>3, PartsAre
<1>7. 0 \in Nat
  OBVIOUS
<1>8. SubSeq(s, j + 1, j + n) = SubSeq(t, 0 + 1, 0 + n)
  BY <1>5, <1>6, <1>7 DEF PartsAlike
<1>9. SubSeq(t, 0 + 1, 0 + n) = t
  <2>1. 0 + 1 = 1 /\ 0 + n = Len(t)
    BY <1>3
  <2>2. SubSeq(t, 1, Len(t)) = t
    BY <1>3, IsSeqOf, SubSeqFull
  <2>3. QED
    BY <2>1, <2>2
<1>10. QED
  BY <1>1, <1>3, <1>8, <1>9 DEF PartRight

\* An interval of the boxes is at least 2 s, a rate of the slider at most 2 s:
\* the interval holds a row.
LEMMA IntervalHolds ==
  ASSUME set \in Settings
  PROVE  NumValues(set.mean, set.rate) # 0 /\ NumValues(set.median, set.rate) # 0
<1>1. PICK r \in Nat : r = set.rate /\ 1 <= r /\ r <= 2000
  <2>1. set.rate \in GuiRate \cup {1000}
    BY DEF Settings
  <2>2. CASE set.rate = 1000
    BY <2>2
  <2>3. CASE set.rate \in GuiRate
    <3>1. PICK g \in GuiRate : g = set.rate
      BY <2>3
    <3>2. g \in Nat /\ g # 0
      BY BoundsAssumption
    <3>3. g <= 2000
      BY RateAssumption
    <3>4. 1 <= g
      BY <3>2
    <3>5. QED
      BY <3>1, <3>2, <3>3, <3>4
  <2>4. QED
    BY <2>1, <2>2, <2>3
<1>2. ASSUME NEW i \in Intervals \cup {2} PROVE NumValues(i, r) # 0
  <2>1. PICK x \in Nat : x = i * 1000 /\ x >= 2000
    <3>1. i \in Nat /\ i >= 2
      BY BoundsAssumption
    <3>2. i * 1000 \in Nat /\ i * 1000 >= 2000
      BY <3>1
    <3>3. QED
      BY <3>2
  <2>2. x \in Int /\ r \in Int /\ r > 0 /\ x >= r
    BY <1>1, <2>1
  <2>3. x \div r # 0
    BY <2>2
  <2>4. QED
    BY <2>1, <2>3 DEF NumValues
<1>3. set.mean \in Intervals \cup {2} /\ set.median \in Intervals \cup {2}
  BY DEF Settings
<1>4. QED
  BY <1>1, <1>2, <1>3

\* What DrawnRows says of the samples of a curve.
CurveHolds(k, p, g, filtered, n, m, b, c) ==
  LET T == Len(p.times)
      mean == Curve(k, p, "mean", c)
      median == Curve(k, p, "median", c)
  IN /\ Curve(k, p, "absolute", c) =
          [j \in 1 .. T |-> <<g[Len(g) - T + j].time,
                              [l \in 1 .. T |-> Sample(b, g[Len(g) - T + l])][j]>>]
     /\ filtered =>
          /\ Len(mean) = IF T > n THEN T - n ELSE 0
          /\ \A j \in DOMAIN mean :
               mean[j] = <<g[Len(g) - T + j].time, <<Total(Behind(g, T, b, n, j)), n>>>>
          /\ Len(median) = IF T > m THEN T - m ELSE 0
          /\ \A j \in DOMAIN median :
               /\ median[j][1] = g[Len(g) - T + j].time
               /\ IsUpperMedian(median[j][2], Behind(g, T, b, m, j))

\* It is so of every curve of the view.
LEMMA CurveIsRight ==
  ASSUME ClientInv, DrawnInv, kind \in Kinds, NEW k, NEW p, NEW g, k = kind, p = view, g = got,
         NEW n, n = NumValues(set.mean, set.rate), NEW m, m = NumValues(set.median, set.rate),
         NEW c \in CurvesOf(k), NEW b, b = Plot[k].pushed[c]
  PROVE  CurveHolds(k, p, g, steady, n, m, b, c)
<1>1. /\ g \in Seq(RowSet) /\ set \in Settings /\ Lengths(p)
      /\ steady => SafeSettings(set)
  BY DEF ClientInv, WindowTypes, LengthsInv
<1>2. RowsHeld(k, p, g) /\ (steady => FilteredRight(k, p, n, m))
  BY DEF DrawnInv, PlotRight
<1>3. PICK T \in Nat : T = Len(p.times)
  BY <1>1 DEF Lengths, IsSeq
<1>4. PICK N \in Nat : N = Len(g)
  BY <1>1, LenProperties
<1>5. T <= N
  BY <1>2, <1>3, <1>4 DEF RowsHeld
<1>6. c \in Curves /\ "Cpu0" \in Curves
  BY FirstCurve DEF Curves, CurvesOf
<1>7. c \in Plot[k].drawn
  BY PlotsWellMeant DEF WellMeant
<1>8. PICK v : v = p.values[c] /\ IsSeq(v) /\ Len(v) = T
  BY <1>1, <1>3, <1>6 DEF Lengths
<1>9. b \in Names \ {"X"}
  BY PlotsWellMeant DEF WellMeant
<1>10. Curve(k, p, "absolute", c) =
         [j \in 1 .. T |-> <<g[Len(g) - T + j].time,
                             [l \in 1 .. T |-> Sample(b, g[Len(g) - T + l])][j]>>]
  <2>1. PICK s : s = Samples(p, v, T)
    OBVIOUS
  <2>2. s = [j \in 1 .. T |-> s[j]] /\ \A j \in 1 .. T : s[j] = <<g[Len(g) - T + j].time, v[j]>>
    <3>1. SampledRight(g, T, v, T, s)
      BY <1>2, <1>3, <1>8, <2>1, SamplesAre
    <3>2. QED
      BY <3>1 DEF SampledRight
  <2>3. ASSUME NEW j \in 1 .. T PROVE v[j] = Sample(b, g[Len(g) - T + j])
    <3>1. p.values[c][j] = Sample(Plot[k].pushed[c], g[Len(g) - T + j])
      BY <1>2, <1>3 DEF RowsHeld
    <3>2. QED
      BY <1>8, <3>1
  <2>4. PICK u : u = [l \in 1 .. T |-> Sample(b, g[Len(g) - T + l])]
    OBVIOUS
  <2>5. \A j \in 1 .. T : v[j] = u[j]
    BY <2>3, <2>4
  <2>6. s = [j \in 1 .. T |-> <<g[Len(g) - T + j].time, u[j]>>]
    BY <2>2, <2>5
  <2>7. Curve(k, p, "absolute", c) = s
    BY <1>3, <1>7, <1>8, <2>1 DEF Curve
  <2>8. QED
    BY <2>4, <2>6, <2>7
<1>11. ASSUME steady
       PROVE  /\ Len(Curve(k, p, "mean", c)) = IF T > n THEN T - n ELSE 0
              /\ \A j \in DOMAIN Curve(k, p, "mean", c) :
                   Curve(k, p, "mean", c)[j]
                     = <<g[Len(g) - T + j].time, <<Total(Behind(g, T, b, n, j)), n>>>>
  <2>1. n \in Nat
    BY <1>1, <1>11, SettingsAre
  <2>2. PICK F \in Nat : F = Filtered(T, n) /\ F <= T
    BY <2>1, FilteredIs
  <2>3. PICK vec : vec = p.mean[c] /\ Len(vec) = F
    BY <1>1, <1>3, <1>6, <1>11, <2>2 DEF Lengths
  <2>4. Len(p.mean["Cpu0"]) = F
    BY <1>1, <1>3, <1>6, <1>11, <2>2 DEF Lengths
  <2>5. PICK s : s = Samples(p, vec, F)
    OBVIOUS
  <2>6. Curve(k, p, "mean", c) = s
    BY <1>7, <2>3, <2>4, <2>5 DEF Curve
  <2>7. /\ Len(s) = F /\ DOMAIN s = 1 .. F
        /\ \A j \in 1 .. F : s[j] = <<g[Len(g) - T + j].time, vec[j]>>
    <3>1. SampledRight(g, T, vec, F, s)
      BY <1>2, <1>3, <2>2, <2>3, <2>5, SamplesAre
    <3>2. QED
      BY <3>1 DEF SampledRight
  <2>8. ASSUME NEW j \in 1 .. F PROVE vec[j] = <<Total(Behind(g, T, b, n, j)), n>>
    <3>1. j \in Nat /\ j + n <= T
      BY <2>1, <2>2 DEF Filtered
    <3>2. SubSeq(v, j + 1, j + n) = Behind(g, T, b, n, j)
      <4>1. PartRight(v, g, T, b, n, j)
        BY <1>2, <1>3, <1>4, <1>8, <2>1, <3>1, PartIs
      <4>2. QED
        BY <4>1 DEF PartRight
    <3>3. VectorRight("mean", vec, v, n)
      BY <1>2, <1>8, <1>11, <2>3 DEF FilteredRight
    <3>4. vec[j] = Filter("mean", SubSeq(v, j + 1, j + n), n)
      BY <2>3, <3>3 DEF VectorRight
    <3>5. QED
      BY <3>2, <3>4 DEF Filter
  <2>9. F = IF T > n THEN T - n ELSE 0
    BY <2>2 DEF Filtered
  <2>10. QED
    BY <2>6, <2>7, <2>8, <2>9
<1>12. ASSUME steady
       PROVE  /\ Len(Curve(k, p, "median", c)) = IF T > m THEN T - m ELSE 0
              /\ \A j \in DOMAIN Curve(k, p, "median", c) :
                   /\ Curve(k, p, "median", c)[j][1] = g[Len(g) - T + j].time
                   /\ IsUpperMedian(Curve(k, p, "median", c)[j][2], Behind(g, T, b, m, j))
  <2>1. m \in Nat
    BY <1>1, <1>12, SettingsAre
  <2>2. PICK F \in Nat : F = Filtered(T, m) /\ F <= T
    BY <2>1, FilteredIs
  <2>3. PICK vec : vec = p.median[c] /\ Len(vec) = F
    BY <1>1, <1>3, <1>6, <1>12, <2>2 DEF Lengths
  <2>4. Len(p.median["Cpu0"]) = F
    BY <1>1, <1>3, <1>6, <1>12, <2>2 DEF Lengths
  <2>5. PICK s : s = Samples(p, vec, F)
    OBVIOUS
  <2>6. Curve(k, p, "median", c) = s
    BY <1>7, <2>3, <2>4, <2>5 DEF Curve
  <2>7. /\ Len(s) = F /\ DOMAIN s = 1 .. F
        /\ \A j \in 1 .. F : s[j] = <<g[Len(g) - T + j].time, vec[j]>>
    <3>1. SampledRight(g, T, vec, F, s)
      BY <1>2, <1>3, <2>2, <2>3, <2>5, SamplesAre
    <3>2. QED
      BY <3>1 DEF SampledRight
  <2>8. ASSUME NEW j \in 1 .. F PROVE IsUpperMedian(vec[j], Behind(g, T, b, m, j))
    <3>1. j \in Nat /\ j + m <= T
      BY <2>1, <2>2 DEF Filtered
    <3>2. PICK part : part = Behind(g, T, b, m, j)
      OBVIOUS
    <3>3. SubSeq(v, j + 1, j + m) = part /\ Len(part) = m
      <4>1. PartRight(v, g, T, b, m, j)
        BY <1>2, <1>3, <1>4, <1>8, <2>1, <3>1, PartIs
      <4>2. QED
        BY <3>2, <4>1 DEF PartRight
    <3>4. VectorRight("median", vec, v, m)
      BY <1>2, <1>8, <1>12, <2>3 DEF FilteredRight
    <3>5. vec[j] = Filter("median", SubSeq(v, j + 1, j + m), m)
      BY <2>3, <3>4 DEF VectorRight
    <3>6. vec[j] = Middle(part)
      BY <3>3, <3>5 DEF Filter
    <3>7. part \in Seq(Int)
      <4>1. ASSUME NEW l \in 1 .. m PROVE part[l] \in Int
        <5>1. PICK e \in 1 .. N : e = N - T + (j + l)
          BY <1>5, <2>1, <3>1
        <5>2. g[e] \in RowSet
          BY <1>1, <1>4, ElementOfSeq
        <5>3. part[l] = Sample(b, g[e])
          BY <1>4, <3>2, <5>1 DEF Behind
        <5>4. QED
          BY <1>9, <5>2, <5>3, SampleIs
      <4>2. part = [l \in 1 .. m |-> part[l]]
        BY <3>2 DEF Behind
      <4>3. QED
        BY <2>1, <4>1, <4>2, Written
    <3>8. Len(part) > 0
      BY <1>1, <2>1, <3>3, IntervalHolds
    <3>9. IsUpperMedian(Middle(part), part)
      BY <3>7, <3>8, MiddleIs
    <3>10. QED
      BY <3>2, <3>6, <3>9
  <2>9. F = IF T > m THEN T - m ELSE 0
    BY <2>2 DEF Filtered
  <2>10. ASSUME NEW j \in 1 .. F
         PROVE  s[j][1] = g[Len(g) - T + j].time /\ s[j][2] = vec[j]
    BY <2>7
  <2>11. QED
    BY <2>6, <2>7, <2>8, <2>9, <2>10
<1>13. QED
  BY <1>3, <1>10, <1>11, <1>12 DEF CurveHolds

\* The lines of the file are the rows a plot holds, its columns in the order
\* of the boxes.
LinesRight(k, p, g) ==
  LET T == Len(p.times) IN
  ExportPlotToCSV(p) =
    [j \in 1 .. T |-> <<g[Len(g) - T + j].time>> \o
      [i \in DOMAIN Meant[k] |-> Sample(Meant[k][i][2], g[Len(g) - T + j])]]

\* They are.
LEMMA ExportIsRight ==
  ASSUME kind \in Kinds, NEW k, NEW p, NEW g, k = kind, Lengths(p), RowsHeld(k, p, g)
  PROVE  LinesRight(k, p, g)
<1>1. PICK T \in Nat : T = Len(p.times)
  BY DEF Lengths, IsSeq
<1>2. DOMAIN p.times = 1 .. T
  <2>1. PICK s : s = p.times
    OBVIOUS
  <2>2. IsSeq(s) /\ Len(s) = T
    BY <1>1, <2>1 DEF Lengths
  <2>3. QED
    BY <2>1, <2>2 DEF IsSeq
<1>3. DOMAIN p.values = CurvesOf(k) /\ \A c \in CurvesOf(k) : Len(p.values[c]) = T
  BY <1>1 DEF Lengths, Curves, CurvesOf
<1>4. PICK of : of = Plot[k].extremes.of
  OBVIOUS
<1>5. WellMeant(k)
  BY PlotsWellMeant
<1>6. DOMAIN of = 1 .. Boxes(k) /\ DOMAIN Meant[k] = 1 .. Boxes(k)
  BY <1>4, <1>5 DEF WellMeant
<1>7. ASSUME NEW i \in 1 .. Boxes(k)
      PROVE  of[i] \in CurvesOf(k) /\ Meant[k][i][2] = Plot[k].pushed[of[i]]
  BY <1>4, <1>5 DEF WellMeant, BoxMeant
<1>8. ASSUME NEW j \in 1 .. T
      PROVE  /\ Kept(CsvOrder, {c \in DOMAIN p.values : Len(p.values[c]) >= j}) = of
             /\ p.times[j] = g[Len(g) - T + j].time
             /\ [i \in DOMAIN of |-> p.values[of[i]][j]]
                  = [i \in DOMAIN Meant[k] |-> Sample(Meant[k][i][2], g[Len(g) - T + j])]
  <2>1. {c \in DOMAIN p.values : Len(p.values[c]) >= j} = CurvesOf(k)
    BY <1>1, <1>3
  <2>2. p.times[j] = g[Len(g) - T + j].time
    BY <1>1 DEF RowsHeld
  <2>3. PICK r : r = g[Len(g) - T + j]
    OBVIOUS
  <2>4. ASSUME NEW i \in 1 .. Boxes(k) PROVE p.values[of[i]][j] = Sample(Meant[k][i][2], r)
    <3>1. PICK c \in CurvesOf(k) : c = of[i]
      BY <1>7
    <3>2. p.values[c][j] = Sample(Plot[k].pushed[c], g[Len(g) - T + j])
      BY <1>1 DEF RowsHeld
    <3>3. QED
      BY <1>7, <2>3, <3>1, <3>2
  <2>5. [i \in DOMAIN of |-> p.values[of[i]][j]] = [i \in DOMAIN Meant[k] |-> Sample(Meant[k][i][2], r)]
    BY <1>6, <2>4
  <2>6. QED
    BY <1>4, <2>1, <2>2, <2>3, <2>5, CsvColumns
<1>9. QED
  BY <1>1, <1>2, <1>8 DEF LinesRight, ExportPlotToCSV

\* A heat map of the window shows the values of the rows it got.
MapHolds(k, h, g, a, started, m) ==
  LET taken == IF k = "UtilMaps" THEN g ELSE a
      values == [j \in DOMAIN taken |-> Sample(Maps[k][m], taken[j])]
  IN /\ h[m].columns = Len(taken)
     /\ h[m].y = IF k = "UtilMaps" /\ started THEN values ELSE <<0>> \o values

\* It does, as the invariant says.
LEMMA MapsHold ==
  ASSUME NEW k \in DOMAIN Maps, NEW h, NEW g \in Seq(RowSet), NEW a \in Seq(RowSet), NEW started,
         MapsRight(k, h, g, a, started), NEW m \in DOMAIN h
  PROVE  MapHolds(k, h, g, a, started, m)
<1>1. PICK taken \in Seq(RowSet) : taken = IF k = "UtilMaps" THEN g ELSE a
  OBVIOUS
<1>2. PICK b : b = Maps[k][m]
  OBVIOUS
<1>3. PICK values : values = [j \in DOMAIN taken |-> Sample(b, taken[j])]
  OBVIOUS
<1>4. DOMAIN taken = 1 .. Len(taken)
  BY LenProperties
<1>5. values = Samples1(b, taken)
  BY <1>3, <1>4 DEF Samples1
<1>6. /\ h[m].columns = Len(taken)
      /\ h[m].y = IF k = "UtilMaps" /\ started THEN values ELSE <<0>> \o values
  BY <1>1, <1>2, <1>5 DEF MapsRight
<1>7. QED
  BY <1>1, <1>2, <1>3, <1>6 DEF MapHolds

\* The fields of the overview are values of a row.
LEMMA FieldsNamed == Range(Overview) \cup Range(OverviewTemp) \subseteq Names
<1>1. Range(Overview) \subseteq {"UtilCpu", "UtilGpuCore", "UtilGpuMem", "UtilFpga", "UtilMic"}
  BY DEF Range, Overview
<1>2. Range(OverviewTemp) \subseteq
        {"TempCpu0", "TempCpu1", "TempGpu", "TempFpgaI", "TempFpgaM", "TempMicDie"}
  BY DEF Range, OverviewTemp
<1>3. QED
  BY <1>1, <1>2 DEF Names, Data, ToSet

\* A plot has as many rows as it got, until it has the most it may have.
LEMMA RowsLimited ==
  ASSUME NEW k, NEW p, NEW g \in Seq(RowSet), RowsHeld(k, p, g), NEW T \in Nat, T = Len(p.times)
  PROVE  /\ T <= Max(MaxData) + 1
         /\ T >= IF Len(g) <= Min(MaxData) THEN Len(g) ELSE Min(MaxData) + 1
<1>1. PICK high \in Nat, low \in Nat :
        /\ high = Max(MaxData) /\ low = Min(MaxData)
        /\ \A m \in MaxData : m \in Nat /\ m <= high /\ low <= m
  BY LimitsAre, BoundsAssumption
<1>2. PICK n \in Nat : n = Len(g)
  BY LenProperties
<1>3. T <= n
  BY <1>2 DEF RowsHeld
<1>4. T <= high + 1
  <2>1. PICK m \in MaxData : T <= m + 1
    BY DEF RowsHeld
  <2>2. QED
    BY <1>1, <2>1
<1>5. T = n \/ T >= low + 1
  <2>1. CASE T = n
    BY <2>1
  <2>2. CASE T # n
    <3>1. PICK m \in MaxData : T >= m + 1
      BY <1>2, <2>2 DEF RowsHeld
    <3>2. QED
      BY <1>1, <3>1
  <2>3. QED
    BY <2>1, <2>2
<1>6. T >= IF n <= low THEN n ELSE low + 1
  BY <1>3, <1>5
<1>7. QED
  BY <1>1, <1>2, <1>4, <1>6

\* What the names of a curve say.
NamesHold(k, i) ==
  LET label == Meant[k][i][1]
      c == Plot[k].shown[i]
      init == Plot[k].init
  IN /\ init.boxes[i] = label
     /\ \E j \in DOMAIN init.curves : init.curves[j] = c /\ init.legend[j] = label
     /\ Plot[k].shownMax[i] = c /\ Plot[k].shownMin[i] = c
     /\ CsvHeader(k)[i] = c

\* They name the curve of the box and its value.
LEMMA NamesAre ==
  ASSUME NEW k \in Kinds, NEW i \in DOMAIN Meant[k]
  PROVE  /\ NamesHold(k, i)
         /\ Plot[k].shown[i] \in CurvesOf(k) /\ Meant[k][i][2] = Plot[k].pushed[Plot[k].shown[i]]
<1>1. WellMeant(k)
  BY PlotsWellMeant
<1>2. i \in 1 .. Boxes(k)
  BY <1>1 DEF WellMeant
<1>3. BoxMeant(Plot[k], CsvHeader(k), Meant[k], i)
  BY <1>1, <1>2 DEF WellMeant
<1>4. PICK init, c, label : init = Plot[k].init /\ c = Plot[k].shown[i] /\ label = Meant[k][i][1]
  OBVIOUS
<1>5. /\ c = Plot[k].extremes.of[i] /\ c \in Plot[k].drawn
      /\ Plot[k].shownMax[i] = c /\ Plot[k].shownMin[i] = c
      /\ CsvHeader(k)[i] = c /\ label = init.boxes[i] /\ Meant[k][i][2] = Plot[k].pushed[c]
      /\ init.curves[i] = c /\ init.legend[i] = init.boxes[i]
  BY <1>3, <1>4 DEF BoxMeant
<1>6. i \in DOMAIN init.curves /\ Plot[k].drawn = CurvesOf(k)
  BY <1>1, <1>2, <1>4 DEF WellMeant
<1>7. \E j \in DOMAIN init.curves : init.curves[j] = c /\ init.legend[j] = label
  BY <1>5, <1>6
<1>8. QED
  BY <1>4, <1>5, <1>6, <1>7 DEF NamesHold

\* The curves, the heat maps and the overview show the rows the view got, as
\* their labels say, for all limits, settings and values (QMSMplot.cpp and
\* the plots derived from it, mainwindow.cpp, qmsmheatmap, systemoverview).
THEOREM RowsAreDrawn == CSpec => []DrawnRows
<1>1. ASSUME ClientInv, DrawnInv PROVE DrawnRows
  <2>1. ASSUME kind \in Kinds
        PROVE  /\ NumRows <= Max(MaxData) + 1
               /\ NumRows >= IF Len(got) <= Min(MaxData) THEN Len(got) ELSE Min(MaxData) + 1
               /\ \A i \in DOMAIN Meant[kind] : CurveMeant(i)
               /\ \A c, d \in DOMAIN Plot[kind].pens :
                    c # d => Plot[kind].pens[c] # Plot[kind].pens[d]
               /\ ExportPlotToCSV(view) =
                    [k \in 1 .. NumRows |-> <<Held(k).time>> \o
                      [i \in DOMAIN Meant[kind] |-> Sample(Meant[kind][i][2], Held(k))]]
    <3>1. PICK k, p, g : k = kind /\ p = view /\ g = got
      OBVIOUS
    <3>2. Lengths(p) /\ g \in Seq(RowSet)
      BY <1>1, <2>1, <3>1 DEF ClientInv, WindowTypes, LengthsInv
    <3>3. RowsHeld(k, p, g)
      BY <1>1, <2>1, <3>1 DEF DrawnInv, PlotRight
    <3>4. PICK T \in Nat : T = Len(p.times) /\ T = NumRows
      BY <3>1, <3>2 DEF Lengths, IsSeq, NumRows
    <3>5. /\ T <= Max(MaxData) + 1
          /\ T >= IF Len(g) <= Min(MaxData) THEN Len(g) ELSE Min(MaxData) + 1
      BY <3>2, <3>3, <3>4, RowsLimited
    <3>6. ASSUME NEW i \in DOMAIN Meant[kind] PROVE CurveMeant(i)
      <4>1. PICK n, m : n = NumValues(set.mean, set.rate) /\ m = NumValues(set.median, set.rate)
        OBVIOUS
      <4>2. PICK c, b : c = Plot[k].shown[i] /\ b = Meant[k][i][2]
        OBVIOUS
      <4>3. NamesHold(k, i) /\ c \in CurvesOf(k) /\ b = Plot[k].pushed[c]
        BY <2>1, <3>1, <4>2, NamesAre
      <4>4. CurveHolds(k, p, g, steady, n, m, b, c)
        BY <1>1, <2>1, <3>1, <4>1, <4>3, CurveIsRight
      <4>5. /\ NamesHold(kind, i)
            /\ CurveHolds(kind, view, got, steady, NumValues(set.mean, set.rate),
                          NumValues(set.median, set.rate), Meant[kind][i][2],
                          Plot[kind].shown[i])
        BY <3>1, <4>1, <4>2, <4>3, <4>4
      <4>6. QED
        BY <4>5 DEF CurveMeant, NamesHold, CurveHolds, NumRows, Held, Column, Part, SumOf, Behind
    <3>7. \A c, d \in DOMAIN Plot[kind].pens : c # d => Plot[kind].pens[c] # Plot[kind].pens[d]
      BY <2>1, PlotsWellMeant DEF WellMeant
    <3>8. LinesRight(kind, view, got)
      BY <2>1, <3>1, <3>2, <3>3, ExportIsRight
    <3>9. QED
      BY <3>1, <3>4, <3>5, <3>6, <3>7, <3>8 DEF LinesRight, NumRows, Held
  <2>2. ASSUME kind \in DOMAIN Maps, NEW m \in DOMAIN view
        PROVE  MapHolds(kind, view, got, all, mpGuiTimer, m)
    <3>1. PICK k, h, g, a, started :
            k = kind /\ h = view /\ g = got /\ a = all /\ started = mpGuiTimer
      OBVIOUS
    <3>2. g \in Seq(RowSet) /\ a \in Seq(RowSet) /\ MapsRight(k, h, g, a, started)
      BY <1>1, <3>1 DEF ClientInv, WindowTypes, DrawnInv
    <3>3. MapHolds(k, h, g, a, started, m)
      BY <2>2, <3>1, <3>2, MapsHold
    <3>4. QED
      BY <3>1, <3>3
  <2>3. ASSUME kind = "Overview", view.fields # <<>>
        PROVE  \E t \in 1 .. rows, l \in Level :
                 \A b \in Range(Overview) \cup Range(OverviewTemp) :
                   view.fields[Number(b) + 1] = Sample(b, [time |-> t, level |-> l])
    <3>1. PICK x \in RowSet : x.time <= rows /\ view.fields = Row(x)
      BY <1>1, <2>3 DEF DrawnInv, OverviewRight
    <3>2. PICK t, l : t = x.time /\ l = x.level
      OBVIOUS
    <3>3. x = [time |-> t, level |-> l] /\ l \in Level /\ t \in Nat /\ 1 <= t
      BY <3>2, BoundsAssumption DEF RowSet
    <3>4. t \in 1 .. rows
      BY <1>1, <3>1, <3>2, <3>3 DEF ClientInv, WindowTypes
    <3>5. \A b \in Names : Row(x)[Number(b) + 1] = Sample(b, x)
      BY RowIs
    <3>6. ASSUME NEW b \in Range(Overview) \cup Range(OverviewTemp)
          PROVE  view.fields[Number(b) + 1] = Sample(b, [time |-> t, level |-> l])
      BY <3>1, <3>3, <3>5, FieldsNamed
    <3>7. QED
      BY <3>3, <3>4, <3>6
  <2>4. QED
    BY <2>1, <2>2, <2>3 DEF DrawnRows, MapHolds
<1>2. QED
  BY <1>1, ClientInvariant, ClientDraws, PTL
=============================================================================
