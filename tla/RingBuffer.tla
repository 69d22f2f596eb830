----------------------------- MODULE RingBuffer -----------------------------
(***************************************************************************)
(* CRingBuffer of the monitor.  The collecting thread (CDataLibrary::run)  *)
(* pushes values, the thread of the plots takes a pointer into the buffer  *)
(* (getDataPtr), hands it to the curves, and they read through it until    *)
(* the next refresh; there is no lock.  The buffer is three times as long  *)
(* as what a plot shows: what is pushed into its last third is written to  *)
(* the first third as well, so that Size values always lie in a row.       *)
(***************************************************************************)
EXTENDS Integers

CONSTANTS
  Size,      \* mSize: values a plot shows
  Value,     \* the values
  Zero,      \* what reset() fills the buffer with
  Word       \* 2^32 in the code: mFirst and mSecond are uint32_t

ASSUME SizeAssumption == Size \in Nat \ {0}
ASSUME ZeroAssumption == Zero \in Value
ASSUME WordAssumption == Word \in Nat /\ Word > 3 * Size

VARIABLES
  mpData, mFirst, mSecond,
  pc,        \* where push_back is
  ptr,       \* index the pointer of the plot has, relative to mpData
  seen,      \* history: the values that were there when it was taken
  age        \* history: push_back calls completed since then

buffer == <<mpData, mFirst, mSecond>>
plot == <<ptr, seen, age>>
vars == <<buffer, pc, plot>>

Index == 0 .. (3 * Size - 1)

\* The Size values that begin at index p.
From(p) == [j \in 1 .. Size |-> mpData[p + j - 1]]

Stale == Size + 1    \* bound of age: there is no pointer or it is too old

DataPtr == mSecond - Size

Init ==
  /\ mpData = [x \in Index |-> Zero]
  /\ mFirst = 0
  /\ mSecond = 2 * Size
  /\ pc = "idle"
  /\ ptr = 0
  /\ seen = [j \in 1 .. Size |-> Zero]
  /\ age = Stale

-----------------------------------------------------------------------------
(* Faulty variants: the first turns one place too early, the second does   *)
(* not mirror the first place of the last third.                           *)
PushAdvanceEarly ==
  /\ pc = "advance"
  /\ mSecond' = IF mSecond + 2 = 3 * Size THEN Size ELSE mSecond + 1
  /\ mFirst' = (mSecond' - 2 * Size) % Word
  /\ pc' = "idle"
  /\ age' = IF age < Stale THEN age + 1 ELSE Stale
  /\ UNCHANGED <<mpData, ptr, seen>>

PushMirrorLate ==
  /\ pc = "mirror"
  /\ mpData' = IF mSecond > 2 * Size
                 THEN [mpData EXCEPT ![mFirst] = mpData[mSecond]] ELSE mpData
  /\ pc' = "advance"
  /\ UNCHANGED <<mFirst, mSecond, plot>>

-----------------------------------------------------------------------------
(* push_back, one action for each write that the plots can see.            *)

PushData(v) ==
  /\ pc = "idle"
  /\ mpData' = [mpData EXCEPT ![mSecond] = v]
  /\ pc' = "mirror"
  /\ UNCHANGED <<mFirst, mSecond, plot>>

PushMirror ==
  /\ pc = "mirror"
  /\ mpData' = IF mSecond >= 2 * Size
                 THEN [mpData EXCEPT ![mFirst] = mpData[mSecond]] ELSE mpData
  /\ pc' = "advance"
  /\ UNCHANGED <<mFirst, mSecond, plot>>

\* mFirst wraps below zero while mSecond is in the middle third.
PushAdvance ==
  /\ pc = "advance"
  /\ mSecond' = IF mSecond + 1 = 3 * Size THEN Size ELSE mSecond + 1
  /\ mFirst' = (mSecond' - 2 * Size) % Word
  /\ pc' = "idle"
  /\ age' = IF age < Stale THEN age + 1 ELSE Stale
  /\ UNCHANGED <<mpData, ptr, seen>>

\* CDataMeasurement::reset, called while no collecting thread runs; the
\* pointers of the plots belong to the buffer it deletes.
Reset ==
  /\ pc = "idle"
  /\ mpData' = [x \in Index |-> Zero]
  /\ mFirst' = 0
  /\ mSecond' = 2 * Size
  /\ age' = Stale
  /\ UNCHANGED <<pc, ptr, seen>>

\* setupCurves: at any moment, in the middle of a push too.
TakeDataPtr ==
  /\ ptr' = DataPtr
  /\ seen' = From(DataPtr)
  /\ age' = 0
  /\ UNCHANGED <<buffer, pc>>

PushBack == (\E v \in Value : PushData(v)) \/ PushMirror \/ PushAdvance

Next == PushBack \/ Reset \/ TakeDataPtr

Spec == Init /\ [][Next]_vars

-----------------------------------------------------------------------------
\* The variables have their types; mSecond stays in the last two thirds.
TypeOK ==
  /\ mpData \in [Index -> Value]
  /\ mFirst \in 0 .. (Word - 1)
  /\ mSecond \in Size .. (3 * Size - 1)
  /\ pc \in {"idle", "mirror", "advance"}
  /\ ptr \in 0 .. (2 * Size - 1)
  /\ seen \in [1 .. Size -> Value]
  /\ age \in 0 .. Stale

\* A plot's pointer stays good for Size more values: what it saw is still
\* there, in the middle of a push too, until the value after those comes.
PointerGood ==
  age < Size \/ (age = Size /\ pc = "idle") => From(ptr) = seen

Window == INSTANCE SlidingWindow WITH window <- From(DataPtr)

\* getDataPtr always points at the last Size values in order, across the
\* turn of the buffer and in the middle of a push.
WindowSpec == Window!Spec
=============================================================================
